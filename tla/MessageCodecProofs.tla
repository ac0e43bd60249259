------------------------- MODULE MessageCodecProofs -------------------------
(***************************************************************************)
(* Proofs about MessageCodec, for any messages, names, values and bit      *)
(* strings, any number of varbinds in a message and any size of the pool.  *)
(*                                                                         *)
(* Of a bit string, of any length and built by any calls of Set and Clear, *)
(* the arithmetic is that of one byte: or-ing or clearing the weight of    *)
(* one bit changes that bit and no other of the eight.                     *)
(*                                                                         *)
(* Of a message, CodecInv says that the buffers in the pool are empty, so  *)
(* that the wire carries encode of a message that could be encoded and     *)
(* nothing else; then what is received is a question about decodeMsg and   *)
(* encode alone.  For a message in short form they are followed from the   *)
(* inside out: a value in front of any bytes, a varbind, by induction the  *)
(* list of varbinds, and the message.                                      *)
(***************************************************************************)
EXTENDS MessageCodec, BerProofs

USE BitsAssumption

-----------------------------------------------------------------------------
(***************************************************************************)
(* One byte.                                                               *)
(***************************************************************************)

\* What a bit may add to its byte.
Weights == {1, 2, 4, 8, 16, 32, 64, 128}

\* The weight of a bit is one of them.
LEMMA WeightType ==
  ASSUME NEW i \in Nat
  PROVE  Weight(i) \in Weights
<1>1. i % 8 \in 0 .. 7
  OBVIOUS
<1>2. QED
  BY <1>1 DEF Weight, Weights

\* Two bits of one byte have different weights.
LEMMA WeightsDiffer ==
  ASSUME NEW i \in Nat, NEW j \in Nat, i \div 8 = j \div 8, i # j
  PROVE  Weight(i) # Weight(j)
<1>1. i % 8 \in 0 .. 7 /\ j % 8 \in 0 .. 7 /\ i % 8 # j % 8
  OBVIOUS
<1>2. QED
  BY <1>1 DEF Weight

\* What adding the weight of a bit that is not set does.
LEMMA ByteSet ==
  ASSUME NEW b \in Bytes, NEW w \in Weights
  PROVE  LET c == b + (1 - ((b \div w) % 2)) * w
         IN /\ c \in Bytes /\ (c \div w) % 2 = 1
            /\ \A v \in Weights \ {w} : (c \div v) % 2 = (b \div v) % 2
<1> USE DEF Bytes, Weights
<1>1. CASE w = 1
  BY <1>1
<1>2. CASE w = 2
  BY <1>2
<1>3. CASE w = 4
  BY <1>3
<1>4. CASE w = 8
  BY <1>4
<1>5. CASE w = 16
  BY <1>5
<1>6. CASE w = 32
  BY <1>6
<1>7. CASE w = 64
  BY <1>7
<1>8. CASE w = 128
  BY <1>8
<1>9. QED
  BY <1>1, <1>2, <1>3, <1>4, <1>5, <1>6, <1>7, <1>8

\* What subtracting the weight of a bit that is set does.
LEMMA ByteClear ==
  ASSUME NEW b \in Bytes, NEW w \in Weights
  PROVE  LET c == b - ((b \div w) % 2) * w
         IN /\ c \in Bytes /\ (c \div w) % 2 = 0
            /\ \A v \in Weights \ {w} : (c \div v) % 2 = (b \div v) % 2
<1> USE DEF Bytes, Weights
<1>1. CASE w = 1
  BY <1>1
<1>2. CASE w = 2
  BY <1>2
<1>3. CASE w = 4
  BY <1>3
<1>4. CASE w = 8
  BY <1>4
<1>5. CASE w = 16
  BY <1>5
<1>6. CASE w = 32
  BY <1>6
<1>7. CASE w = 64
  BY <1>7
<1>8. CASE w = 128
  BY <1>8
<1>9. QED
  BY <1>1, <1>2, <1>3, <1>4, <1>5, <1>6, <1>7, <1>8

-----------------------------------------------------------------------------
(***************************************************************************)
(* A bit string.                                                           *)
(***************************************************************************)

\* The i-th of all the bits there are, the padding included.
BitOf(val, i) == Bit(val.bytes[i \div 8 + 1], i)

\* A bit string has as many bytes as its bits take.
IsBitString(val) ==
  /\ val = [bytes |-> val.bytes, bitLength |-> val.bitLength]
  /\ val.bitLength \in Nat
  /\ val.bytes \in Seq(Bytes) /\ Len(val.bytes) = (val.bitLength + 7) \div 8

\* The byte of an index.
LEMMA IndexInBytes ==
  ASSUME NEW val, IsBitString(val), NEW i \in Nat, i < 8 * Len(val.bytes)
  PROVE  i \div 8 + 1 \in DOMAIN val.bytes /\ val.bytes[i \div 8 + 1] \in Bytes
<1>1. Len(val.bytes) \in Nat /\ DOMAIN val.bytes = 1 .. Len(val.bytes)
  BY DEF IsBitString
<1>2. i \div 8 + 1 \in 1 .. Len(val.bytes)
  BY <1>1
<1>3. QED
  BY <1>1, <1>2 DEF IsBitString

\* A step that replaces one byte by one in which just the bit i has changed.
LEMMA ByteReplaced ==
  ASSUME NEW val, IsBitString(val), NEW i \in Nat, i < 8 * Len(val.bytes),
         NEW c \in Bytes, NEW to \in {0, 1},
         (c \div Weight(i)) % 2 = to,
         \A v \in Weights \ {Weight(i)} :
           (c \div v) % 2 = (val.bytes[i \div 8 + 1] \div v) % 2,
         NEW new, new = [val EXCEPT !.bytes[i \div 8 + 1] = c]
  PROVE  /\ IsBitString(new)
         /\ new.bitLength = val.bitLength /\ Len(new.bytes) = Len(val.bytes)
         /\ BitOf(new, i) = to
         /\ \A j \in 0 .. 8 * Len(val.bytes) - 1 : j # i => BitOf(new, j) = BitOf(val, j)
<1>1. PICK bytes, n : val = [bytes |-> bytes, bitLength |-> n]
  BY DEF IsBitString
<1>2. val.bytes = bytes /\ val.bitLength = n
  BY <1>1
<1>3. new = [bytes |-> [bytes EXCEPT ![i \div 8 + 1] = c], bitLength |-> n]
  BY <1>1
<1>4. new.bytes = [bytes EXCEPT ![i \div 8 + 1] = c] /\ new.bitLength = n
  <2>1. \A a : new = [bytes |-> a, bitLength |-> n] => new.bytes = a /\ new.bitLength = n
    OBVIOUS
  <2>2. QED
    BY <1>3, <2>1
<1>5. bytes \in Seq(Bytes) /\ i \div 8 + 1 \in DOMAIN bytes /\ n \in Nat
  BY <1>2, IndexInBytes DEF IsBitString
<1>6. new.bytes \in Seq(Bytes) /\ Len(new.bytes) = Len(bytes)
  <2>1. ASSUME NEW k \in DOMAIN bytes
        PROVE  [bytes EXCEPT ![k] = c] \in Seq(Bytes) /\ Len([bytes EXCEPT ![k] = c]) = Len(bytes)
    BY <1>5
  <2>2. QED
    BY <1>4, <1>5, <2>1
<1>7. IsBitString(new)
  BY <1>2, <1>3, <1>4, <1>5, <1>6 DEF IsBitString
<1>8. BitOf(new, i) = to
  BY <1>4, <1>5 DEF BitOf, Bit
<1>9. ASSUME NEW j \in 0 .. 8 * Len(val.bytes) - 1, j # i
      PROVE  BitOf(new, j) = BitOf(val, j)
  <2>1. j \in Nat /\ j \div 8 \in Nat /\ i \div 8 \in Nat
    BY <1>5, <1>2
  <2>2. CASE j \div 8 = i \div 8
    <3>1. Weight(j) \in Weights \ {Weight(i)}
      BY <1>9, <2>1, <2>2, WeightType, WeightsDiffer
    <3>2. new.bytes[j \div 8 + 1] = c
      BY <1>4, <1>5, <2>2
    <3>3. QED
      BY <3>1, <3>2, <2>2 DEF BitOf, Bit
  <2>3. CASE j \div 8 # i \div 8
    <3>1. j \div 8 + 1 # i \div 8 + 1
      BY <2>1, <2>3
    <3>2. j \div 8 + 1 \in DOMAIN bytes
      BY <1>2, <1>9, <2>1, IndexInBytes
    <3>3. new.bytes[j \div 8 + 1] = val.bytes[j \div 8 + 1]
      BY <1>2, <1>4, <1>5, <3>1, <3>2
    <3>4. QED
      BY <3>3 DEF BitOf
  <2>4. QED
    BY <2>2, <2>3
<1>10. QED
  BY <1>2, <1>4, <1>6, <1>7, <1>8, <1>9

\* Set sets its bit and no other.
LEMMA SetOneBit ==
  ASSUME NEW val, IsBitString(val), NEW i \in Nat, i < 8 * Len(val.bytes)
  PROVE  /\ IsBitString(Set(val, i))
         /\ Set(val, i).bitLength = val.bitLength
         /\ Len(Set(val, i).bytes) = Len(val.bytes)
         /\ BitOf(Set(val, i), i) = 1
         /\ \A j \in 0 .. 8 * Len(val.bytes) - 1 :
              j # i => BitOf(Set(val, i), j) = BitOf(val, j)
<1> DEFINE b == val.bytes[i \div 8 + 1]
           w == Weight(i)
           c == b + (1 - ((b \div w) % 2)) * w
<1>1. w \in Weights /\ b \in Bytes
  BY WeightType, IndexInBytes
<1>2. /\ c \in Bytes /\ (c \div w) % 2 = 1
      /\ \A v \in Weights \ {w} : (c \div v) % 2 = (b \div v) % 2
  BY <1>1, ByteSet
<1>3. Set(val, i) = [val EXCEPT !.bytes[i \div 8 + 1] = c]
  BY DEF Set, Bit
<1>4. QED
  BY <1>2, <1>3, ByteReplaced

\* Clear clears its bit and no other.
LEMMA ClearOneBit ==
  ASSUME NEW val, IsBitString(val), NEW i \in Nat, i < 8 * Len(val.bytes)
  PROVE  /\ IsBitString(Clear(val, i))
         /\ Clear(val, i).bitLength = val.bitLength
         /\ Len(Clear(val, i).bytes) = Len(val.bytes)
         /\ BitOf(Clear(val, i), i) = 0
         /\ \A j \in 0 .. 8 * Len(val.bytes) - 1 :
              j # i => BitOf(Clear(val, i), j) = BitOf(val, j)
<1> DEFINE b == val.bytes[i \div 8 + 1]
           w == Weight(i)
           c == b - ((b \div w) % 2) * w
<1>1. w \in Weights /\ b \in Bytes
  BY WeightType, IndexInBytes
<1>2. /\ c \in Bytes /\ (c \div w) % 2 = 0
      /\ \A v \in Weights \ {w} : (c \div v) % 2 = (b \div v) % 2
  BY <1>1, ByteClear
<1>3. Clear(val, i) = [val EXCEPT !.bytes[i \div 8 + 1] = c]
  BY DEF Clear, Bit
<1>4. QED
  BY <1>2, <1>3, ByteReplaced

-----------------------------------------------------------------------------
(***************************************************************************)
(* The bit string that is being built.                                     *)
(***************************************************************************)

\* All its bits, in padding or not, are those chosen; the padding has only the
\* first one to choose.
BitsInv ==
  bits # NoBits =>
    /\ IsBitString(bits)
    /\ chosen \subseteq 0 .. bits.bitLength
    /\ \A i \in 0 .. 8 * Len(bits.bytes) - 1 : BitOf(bits, i) = IF i \in chosen THEN 1 ELSE 0

\* At first there is no bit string,
LEMMA BitsInit == Init => BitsInv
BY DEF Init, BitsInv

\* a new one has no bit set (NewBitString),
LEMMA NewBitsStep ==
  ASSUME NEW numBits \in BitLengths, NewBits(numBits)
  PROVE  BitsInv'
<1>1. numBits \in Nat /\ (numBits + 7) \div 8 \in Nat
  OBVIOUS
<1> DEFINE bytes == [i \in 1 .. (numBits + 7) \div 8 |-> 0]
<1>2. bits' = [bytes |-> bytes, bitLength |-> numBits] /\ chosen' = {}
  BY DEF NewBits, NewBitString
<1>3. bits'.bytes = bytes /\ bits'.bitLength = numBits
  BY <1>2
<1>4. bytes \in Seq(Bytes) /\ Len(bytes) = (numBits + 7) \div 8
  BY <1>1 DEF Bytes
<1>5. IsBitString(bits)'
  BY <1>1, <1>2, <1>3, <1>4 DEF IsBitString
<1>6. ASSUME NEW i \in 0 .. 8 * Len(bits'.bytes) - 1
      PROVE  BitOf(bits', i) = 0
  <2>1. i \in Nat /\ i \div 8 + 1 \in 1 .. (numBits + 7) \div 8
    BY <1>1, <1>3, <1>4
  <2>2. bits'.bytes[i \div 8 + 1] = 0
    BY <1>3, <2>1
  <2>3. \A w \in Weights : (0 \div w) % 2 = 0
    BY DEF Weights
  <2>4. QED
    BY <2>1, <2>2, <2>3, WeightType DEF BitOf, Bit
<1>7. QED
  BY <1>2, <1>5, <1>6 DEF BitsInv

\* A bit that there is a byte for.
LEMMA AcceptedIndex ==
  ASSUME BitsInv, NEW i \in BitIndices, Accepted(i), ~BeyondBytes(bits, i)
  PROVE  /\ bits # NoBits /\ i \in Nat /\ i <= bits.bitLength
         /\ i < 8 * Len(bits.bytes)
<1>1. bits # NoBits /\ IsBitString(bits)
  BY DEF Accepted, BitsInv
<1>2. bits.bitLength \in Nat /\ Len(bits.bytes) \in Nat /\ i \in Int
  BY <1>1 DEF IsBitString
<1>3. i >= 0 /\ i <= bits.bitLength /\ i \div 8 < Len(bits.bytes)
  BY <1>2 DEF Accepted, BeyondBytes, OutOfRange
<1>4. QED
  BY <1>1, <1>2, <1>3

\* and setting a bit,
LEMMA SetBitStep ==
  ASSUME BitsInv, NEW i \in BitIndices, SetBit(i)
  PROVE  BitsInv'
<1>1. /\ bits # NoBits /\ i \in Nat /\ i <= bits.bitLength /\ i < 8 * Len(bits.bytes)
      /\ bits' = Set(bits, i) /\ chosen' = chosen \union {i}
  BY AcceptedIndex DEF SetBit
<1>2. IsBitString(bits)
  BY <1>1 DEF BitsInv
<1>3. /\ IsBitString(bits')
      /\ bits'.bitLength = bits.bitLength /\ Len(bits'.bytes) = Len(bits.bytes)
      /\ BitOf(bits', i) = 1
      /\ \A j \in 0 .. 8 * Len(bits.bytes) - 1 : j # i => BitOf(bits', j) = BitOf(bits, j)
  BY <1>1, <1>2, SetOneBit
<1>4. chosen' \subseteq 0 .. bits'.bitLength
  BY <1>1, <1>2, <1>3 DEF BitsInv, IsBitString
<1>5. ASSUME NEW j \in 0 .. 8 * Len(bits'.bytes) - 1
      PROVE  BitOf(bits', j) = IF j \in chosen' THEN 1 ELSE 0
  BY <1>1, <1>3 DEF BitsInv
<1>6. QED
  BY <1>3, <1>4, <1>5 DEF BitsInv

\* clearing one,
LEMMA ClearBitStep ==
  ASSUME BitsInv, NEW i \in BitIndices, ClearBit(i)
  PROVE  BitsInv'
<1>1. /\ bits # NoBits /\ i \in Nat /\ i <= bits.bitLength /\ i < 8 * Len(bits.bytes)
      /\ bits' = Clear(bits, i) /\ chosen' = chosen \ {i}
  BY AcceptedIndex DEF ClearBit
<1>2. IsBitString(bits)
  BY <1>1 DEF BitsInv
<1>3. /\ IsBitString(bits')
      /\ bits'.bitLength = bits.bitLength /\ Len(bits'.bytes) = Len(bits.bytes)
      /\ BitOf(bits', i) = 0
      /\ \A j \in 0 .. 8 * Len(bits.bytes) - 1 : j # i => BitOf(bits', j) = BitOf(bits, j)
  BY <1>1, <1>2, ClearOneBit
<1>4. chosen' \subseteq 0 .. bits'.bitLength
  BY <1>1, <1>2, <1>3 DEF BitsInv, IsBitString
<1>5. ASSUME NEW j \in 0 .. 8 * Len(bits'.bytes) - 1
      PROVE  BitOf(bits', j) = IF j \in chosen' THEN 1 ELSE 0
  BY <1>1, <1>3 DEF BitsInv
<1>6. QED
  BY <1>3, <1>4, <1>5 DEF BitsInv

\* or doing anything else keeps the bits to what was done to them.
LEMMA BitsStep == BitsInv /\ [Next]_vars => BitsInv'
<1> SUFFICES ASSUME BitsInv, [Next]_vars PROVE BitsInv'
  OBVIOUS
<1>1. CASE UNCHANGED <<bits, chosen>>
  BY <1>1 DEF BitsInv
<1>2. ASSUME NEW vb, AddVarbind(vb) PROVE BitsInv'
  BY <1>2 DEF AddVarbind, BitsInv
<1>3. CASE \E oid \in Oids :
             \/ AddNull(oid) \/ AddInteger(oid) \/ AddOctetString(oid)
             \/ AddBitString(oid) \/ AddObjectIdentifier(oid) \/ AddIPv4Address(oid)
  BY <1>2, <1>3 DEF AddNull, AddInteger, AddOctetString, AddBitString, AddObjectIdentifier,
     AddIPv4Address
<1>4. CASE Transmit \/ EncodeFails \/ Receive \/ \E header \in Headers : Compose(header)
  BY <1>1, <1>4 DEF Transmit, EncodeFails, Receive, Compose
<1>5. CASE \E bitIdx \in BitIndices : IndexPanics(bitIdx)
  BY <1>1, <1>5 DEF IndexPanics
<1>6. QED
  BY <1>1, <1>3, <1>4, <1>5, NewBitsStep, SetBitStep, ClearBitStep DEF Next, vars

\* However a bit string is built, IsSet says of each of its bits what was last done
\* to it, and its padding is zero but for the first bit, if that was set (IsSet,
\* Set and Clear).
THEOREM BitsAsSet == Spec => []BitsAreThoseSet
<1>1. BitsInv => BitsAreThoseSet
  <2> SUFFICES ASSUME BitsInv, bits # NoBits
               PROVE  /\ \A i \in 0 .. bits.bitLength - 1 : IsSet(bits, i) <=> i \in chosen
                      /\ \A i \in bits.bitLength .. 8 * Len(bits.bytes) - 1 :
                           Bit(bits.bytes[Len(bits.bytes)], i) = 1
                             => i = bits.bitLength /\ i \in chosen
    BY DEF BitsAreThoseSet
  <2>1. /\ IsBitString(bits) /\ chosen \subseteq 0 .. bits.bitLength
        /\ \A i \in 0 .. 8 * Len(bits.bytes) - 1 :
             BitOf(bits, i) = IF i \in chosen THEN 1 ELSE 0
    BY DEF BitsInv
  <2>2. /\ bits.bitLength \in Nat /\ Len(bits.bytes) \in Nat
        /\ Len(bits.bytes) = (bits.bitLength + 7) \div 8
    BY <2>1 DEF IsBitString
  <2>3. ASSUME NEW i \in 0 .. bits.bitLength - 1
        PROVE  IsSet(bits, i) <=> i \in chosen
    <3>1. i \in 0 .. 8 * Len(bits.bytes) - 1 /\ ~OutOfRange(bits, i)
      BY <2>2 DEF OutOfRange
    <3>2. QED
      BY <2>1, <3>1 DEF IsSet, BitOf
  <2>4. ASSUME NEW i \in bits.bitLength .. 8 * Len(bits.bytes) - 1,
               Bit(bits.bytes[Len(bits.bytes)], i) = 1
        PROVE  i = bits.bitLength /\ i \in chosen
    <3>1. i \in 0 .. 8 * Len(bits.bytes) - 1 /\ i \div 8 + 1 = Len(bits.bytes)
      BY <2>2
    <3>2. BitOf(bits, i) = 1
      BY <2>4, <3>1, Zenon DEF BitOf
    <3>3. i \in chosen
      BY <2>1, <3>1, <3>2
    <3>4. QED
      BY <2>1, <2>2, <3>3
  <2>5. QED
    BY <2>3, <2>4
<1>2. QED
  BY <1>1, BitsInit, BitsStep, PTL DEF Spec

-----------------------------------------------------------------------------
(***************************************************************************)
(* What decodeValue and decodeVarbind return, whatever the bytes.          *)
(***************************************************************************)

\* What decodeValue returns of a value of each type.
TypedValues(type) ==
  {val \in Int \union Numbers \union FittingBits \union {NoBits} :
     type = BIT_STRING => val = NoBits \/ Fits(val)}

\* The types of values differ, and are bytes.
LEMMA TypesDiffer ==
  /\ INTEGER # BIT_STRING /\ INTEGER # OCTET_STRING /\ INTEGER # OBJECT_IDENTIFIER
  /\ INTEGER # IP_ADDRESS /\ INTEGER \notin Nulls
  /\ BIT_STRING # OCTET_STRING /\ BIT_STRING # OBJECT_IDENTIFIER
  /\ BIT_STRING # IP_ADDRESS /\ BIT_STRING \notin Nulls
  /\ OCTET_STRING # OBJECT_IDENTIFIER /\ OCTET_STRING # IP_ADDRESS /\ OCTET_STRING \notin Nulls
  /\ OBJECT_IDENTIFIER # IP_ADDRESS /\ OBJECT_IDENTIFIER \notin Nulls
  /\ IP_ADDRESS \notin Nulls
  /\ DecodedTypes \subseteq Bytes /\ SEQUENCE \in Bytes
BY DEF INTEGER, BIT_STRING, OCTET_STRING, OBJECT_IDENTIFIER, IP_ADDRESS, Nulls, NULL,
       NO_SUCH_OBJECT, NO_SUCH_INSTANCE, END_OF_MIB_VIEW, DecodedTypes, Bytes, SEQUENCE

\* Which decoder a type is given to.
LEMMA decodeValueOfCases ==
  ASSUME NEW type, NEW n, NEW bytes
  PROVE  /\ type = INTEGER => decodeValueOf(type, n, bytes) = decodeInteger(n, bytes)
         /\ type = BIT_STRING => decodeValueOf(type, n, bytes) = decodeBitString(n, bytes)
         /\ type = OCTET_STRING => decodeValueOf(type, n, bytes) = Read(n, bytes)
         /\ type = OBJECT_IDENTIFIER =>
              decodeValueOf(type, n, bytes) = decodeObjectIdentifier(n, bytes)
         /\ type = IP_ADDRESS => decodeValueOf(type, n, bytes) = decodeIPv4Address(n, bytes)
         /\ type \in Nulls => decodeValueOf(type, n, bytes) = OK(NoVal, bytes)
BY TypesDiffer DEF decodeValueOf

\* Each of them returns a value of that type.
LEMMA decodeValueOfType ==
  ASSUME NEW type \in DecodedTypes, NEW n \in Nat, NEW bytes \in Buffer
  PROVE  Outcome(decodeValueOf(type, n, bytes), TypedValues(type), Len(bytes))
<1> DEFINE r == decodeValueOf(type, n, bytes)
<1>1. Int \union Numbers \subseteq TypedValues(type) \/ type = BIT_STRING
  BY DEF TypedValues
<1>2. CASE type = INTEGER
  <2>1. r = decodeInteger(n, bytes) /\ Int \subseteq TypedValues(type)
    BY <1>1, <1>2, decodeValueOfCases, TypesDiffer
  <2>2. QED
    BY <2>1, decodeIntegerType, OutcomeOfMore
<1>3. CASE type = BIT_STRING
  <2>1. r = decodeBitString(n, bytes)
    BY <1>3, decodeValueOfCases
  <2>2. FittingBits \subseteq TypedValues(type)
    BY DEF TypedValues, FittingBits
  <2>3. QED
    BY <2>1, <2>2, decodeBitStringType, OutcomeOfMore
<1>4. CASE type = OCTET_STRING
  <2>1. r = Read(n, bytes) /\ Buffer \subseteq TypedValues(type)
    BY <1>1, <1>4, decodeValueOfCases, TypesDiffer, BufferIsNumbers
  <2>2. QED
    BY <2>1, ReadOutcome, OutcomeOfMore
<1>5. CASE type = OBJECT_IDENTIFIER
  <2>1. r = decodeObjectIdentifier(n, bytes) /\ Numbers \subseteq TypedValues(type)
    BY <1>1, <1>5, decodeValueOfCases, TypesDiffer
  <2>2. QED
    BY <2>1, decodeObjectIdentifierType, OutcomeOfMore
<1>6. CASE type = IP_ADDRESS
  <2>1. r = decodeIPv4Address(n, bytes) /\ Buffer \subseteq TypedValues(type)
    BY <1>1, <1>6, decodeValueOfCases, TypesDiffer, BufferIsNumbers
  <2>2. QED
    BY <2>1, decodeIPv4AddressType, OutcomeOfMore
<1>7. CASE type \in Nulls
  <2>1. r = OK(NoVal, bytes)
    BY <1>7, decodeValueOfCases
  <2>2. NoVal \in Numbers /\ type # BIT_STRING
    BY <1>7, TypesDiffer, EmptyBuffer, BufferIsNumbers DEF NoVal
  <2>3. Len(bytes) <= Len(bytes)
    BY BufferFacts
  <2>4. QED
    BY <1>1, <2>1, <2>2, <2>3 DEF Outcome
<1>8. QED
  BY <1>2, <1>3, <1>4, <1>5, <1>6, <1>7 DEF DecodedTypes

\* Dropping an error leaves a value, or what the zero value of its type is.
LEMMA UnreportedType ==
  ASSUME NEW type \in DecodedTypes, NEW r, NEW n, Outcome(r, TypedValues(type), n)
  PROVE  Outcome(Unreported(type, r), TypedValues(type), n)
<1>1. CASE r.status # "error"
  BY <1>1 DEF Unreported
<1>2. CASE r.status = "error"
  <2>1. PICK b \in Buffer : r = Error(b) /\ Len(b) <= n
    BY <1>2, Status DEF Outcome
  <2> DEFINE v == CASE type = IP_ADDRESS -> Mapped(<<0, 0, 0, 0>>)
                    [] type = BIT_STRING -> NoBits
                    [] OTHER             -> NoVal
  <2>2. Unreported(type, r) = OK(v, b)
    BY <1>2, <2>1, Status DEF Unreported
  <2>3. v \in TypedValues(type)
    <3>1. CASE type = IP_ADDRESS
      <4>1. v = Mapped(<<0, 0, 0, 0>>)
        BY <3>1, TypesDiffer
      <4>2. <<0, 0, 0, 0>> \in Buffer
        <5>1. 0 \in Bytes
          BY DEF Bytes
        <5>2. QED
          BY <5>1 DEF Buffer
      <4>3. Mapped(<<0, 0, 0, 0>>) \in Numbers
        BY <4>2, MappedType, BufferIsNumbers
      <4>4. QED
        BY <3>1, <4>1, <4>3, TypesDiffer DEF TypedValues
    <3>2. CASE type = BIT_STRING
      <4>1. v = NoBits
        BY <3>2, TypesDiffer
      <4>2. QED
        BY <4>1 DEF TypedValues
    <3>3. CASE type # IP_ADDRESS /\ type # BIT_STRING
      <4>1. v = NoVal /\ NoVal \in Numbers
        BY <3>3, EmptyBuffer, BufferIsNumbers DEF NoVal
      <4>2. QED
        BY <3>3, <4>1 DEF TypedValues
    <3>4. QED
      BY <3>1, <3>2, <3>3
  <2> HIDE DEF v
  <2>4. QED
    BY <2>1, <2>2, <2>3 DEF Outcome
<1>3. QED
  BY <1>1, <1>2

\* What decodeVarbind reads after the name.
DecodedValues == UNION {[type : {type}, val : TypedValues(type)] : type \in DecodedTypes}

\* A value with its type.
LEMMA InDecodedValues ==
  ASSUME NEW type \in DecodedTypes, NEW val \in TypedValues(type)
  PROVE  [type |-> type, val |-> val] \in DecodedValues
BY DEF DecodedValues

\* decodeValue returns a value of a type that is supported, whatever the bytes.
LEMMA decodeValueType ==
  ASSUME NEW bytes \in Buffer
  PROVE  Outcome(decodeValue(bytes), DecodedValues, Len(bytes))
<1>1. Len(bytes) \in Nat
  BY BufferFacts
<1>2. CASE \E h \in Header, b \in Buffer : decodeHeader(bytes) = OK(h, b) /\ Len(b) < Len(bytes)
  <2>1. PICK h \in Header, b \in Buffer : decodeHeader(bytes) = OK(h, b) /\ Len(b) < Len(bytes)
    BY <1>2
  <2>2. Len(b) \in Nat
    BY BufferFacts
  <2>3. Len(b) <= Len(bytes)
    BY <1>1, <2>1, <2>2
  <2> DEFINE r == Unreported(h.type, decodeValueOf(h.type, h.length, b))
  <2>4. decodeValue(bytes) =
          IF h.type \notin DecodedTypes THEN Error(b)
          ELSE IF r.status = "ok" THEN OK([type |-> h.type, val |-> r.val], r.rest) ELSE r
    BY <2>1 DEF decodeValue, Then, OK
  <2>5. CASE h.type \notin DecodedTypes
    BY <2>3, <2>4, <2>5 DEF Outcome
  <2>6. CASE h.type \in DecodedTypes
    <3>1. h.length \in Nat
      BY DEF Header
    <3>2. Outcome(r, TypedValues(h.type), Len(b))
      BY <2>6, <3>1, decodeValueOfType, UnreportedType
    <3>3. CASE r.status # "ok"
      <4>1. decodeValue(bytes) = r
        BY <2>4, <2>6, <3>3
      <4>2. QED
        BY <1>1, <2>2, <2>3, <3>2, <3>3, <4>1, Stops
    <3>4. CASE r.status = "ok"
      <4>1. PICK v \in TypedValues(h.type), c \in Buffer : r = OK(v, c) /\ Len(c) <= Len(b)
        BY <3>2, <3>4, OutcomeOK
      <4> HIDE DEF r
      <4>2. decodeValue(bytes) = OK([type |-> h.type, val |-> v], c)
        BY <2>4, <2>6, <3>4, <4>1, Status
      <4>3. Len(c) \in Nat
        BY BufferFacts
      <4>4. Len(c) <= Len(bytes)
        BY <1>1, <2>2, <2>3, <4>1, <4>3
      <4>5. [type |-> h.type, val |-> v] \in DecodedValues
        BY <2>6, InDecodedValues
      <4>6. QED
        BY <4>2, <4>4, <4>5 DEF Outcome
    <3>5. QED
      BY <3>3, <3>4
  <2>7. QED
    BY <2>5, <2>6
<1>3. CASE \E b \in Buffer : decodeHeader(bytes) = Error(b) /\ Len(b) <= Len(bytes)
  <2>1. PICK b \in Buffer : decodeHeader(bytes) = Error(b) /\ Len(b) <= Len(bytes)
    BY <1>3
  <2>2. decodeValue(bytes) = Error(b)
    BY <2>1 DEF decodeValue, Then, Error
  <2>3. QED
    BY <2>1, <2>2 DEF Outcome
<1>4. CASE decodeHeader(bytes) = Panic
  <2>1. decodeValue(bytes) = Panic
    BY <1>4 DEF decodeValue, Then, Panic
  <2>2. QED
    BY <2>1 DEF Outcome
<1>5. QED
  BY <1>2, <1>3, <1>4, decodeHeaderType

\* What decodeVarbind returns.
DecodedVarbinds ==
  UNION {[oid : Numbers, type : {type}, val : TypedValues(type)] : type \in DecodedTypes}

\* A varbind leaves fewer bytes than there were.
Advances(r, X, n) ==
  \/ \E v \in X, b \in Buffer : r = OK(v, b) /\ Len(b) < n
  \/ \E b \in Buffer : r = Error(b) /\ Len(b) <= n
  \/ r = Panic

\* What is not decoded advances,
LEMMA AdvancesStops ==
  ASSUME NEW r, NEW X, NEW Y, NEW n \in Nat, NEW m \in Nat, n <= m, r.status # "ok",
         Outcome(r, X, n)
  PROVE  Advances(r, Y, m)
<1>1. Outcome(r, Y, m)
  BY Stops
<1>2. ~\E v \in Y, b \in Buffer : r = OK(v, b) /\ Len(b) <= m
  BY Status
<1>3. QED
  BY <1>1, <1>2 DEF Outcome, Advances

\* and a varbind takes at least one byte, whatever the bytes.
LEMMA decodeVarbindType ==
  ASSUME NEW bytes \in Buffer
  PROVE  Advances(decodeVarbind(bytes), DecodedVarbinds, Len(bytes))
<1> DEFINE h == decodeHeaderOf(SEQUENCE, bytes)
<1>1. Len(bytes) \in Nat /\ Len(bytes) <= Len(bytes)
  BY BufferFacts
<1>2. CASE h.status # "ok"
  <2>1. decodeVarbind(bytes) = h
    BY <1>2 DEF decodeVarbind, Then
  <2>2. Outcome(h, Nat, Len(bytes))
    BY decodeHeaderOfOutcome
  <2> HIDE DEF h
  <2>3. QED
    BY <1>1, <1>2, <2>1, <2>2, AdvancesStops
<1>3. CASE h.status = "ok"
  <2>1. PICK n \in Nat, b \in Buffer : h = OK(n, b) /\ Len(b) < Len(bytes)
    BY <1>3, decodeHeaderOfType, Status
  <2>2. Len(b) \in Nat
    BY BufferFacts
  <2>3. Len(b) <= Len(bytes)
    BY <1>1, <2>1, <2>2
  <2> DEFINE r == decodeObjectIdentifierWithHeader(b)
  <2>4. Outcome(r, Numbers, Len(b))
    BY decodeObjectIdentifierWithHeaderType
  <2>5. decodeVarbind(bytes) =
          Then(r, LAMBDA oid, left :
            Then(decodeValue(left), LAMBDA value, end :
              IF value.type = INTEGER THEN Panic
              ELSE IF Len(b) - Len(end) # n THEN Error(end)
              ELSE OK(Varbind(oid, value.type, value.val), end)))
    BY <2>1 DEF decodeVarbind, Then, OK
  <2>6. CASE r.status # "ok"
    <3>1. decodeVarbind(bytes) = r
      BY <2>5, <2>6 DEF Then
    <3> HIDE DEF r
    <3>2. QED
      BY <1>1, <2>2, <2>3, <2>4, <2>6, <3>1, AdvancesStops
  <2>7. CASE r.status = "ok"
    <3>1. PICK oid \in Numbers, c \in Buffer : r = OK(oid, c) /\ Len(c) <= Len(b)
      BY <2>4, <2>7, OutcomeOK
    <3>2. Len(c) \in Nat
      BY BufferFacts
    <3>3. Len(c) <= Len(bytes) /\ Len(c) < Len(bytes)
      BY <1>1, <2>1, <2>2, <3>1, <3>2
    <3> DEFINE w == decodeValue(c)
    <3>4. decodeVarbind(bytes) =
            Then(w, LAMBDA value, end :
              IF value.type = INTEGER THEN Panic
              ELSE IF Len(b) - Len(end) # n THEN Error(end)
              ELSE OK(Varbind(oid, value.type, value.val), end))
      BY <2>5, <3>1 DEF Then, OK
    <3>5. Outcome(w, DecodedValues, Len(c))
      BY decodeValueType
    <3>6. CASE w.status # "ok"
      <4>1. decodeVarbind(bytes) = w
        BY <3>4, <3>6 DEF Then
      <4> HIDE DEF w
      <4>2. QED
        BY <1>1, <3>2, <3>3, <3>5, <3>6, <4>1, AdvancesStops
    <3>7. CASE w.status = "ok"
      <4>1. PICK value \in DecodedValues, end \in Buffer : w = OK(value, end) /\ Len(end) <= Len(c)
        BY <3>5, <3>7, OutcomeOK
      <4>2. Len(end) \in Nat
        BY BufferFacts
      <4>3. Len(end) <= Len(bytes) /\ Len(end) < Len(bytes)
        BY <1>1, <3>2, <3>3, <4>1, <4>2
      <4>4. decodeVarbind(bytes) =
              IF value.type = INTEGER THEN Panic
              ELSE IF Len(b) - Len(end) # n THEN Error(end)
              ELSE OK(Varbind(oid, value.type, value.val), end)
        BY <3>4, <4>1 DEF Then, OK
      <4>5. \/ decodeVarbind(bytes) = Panic
            \/ decodeVarbind(bytes) = Error(end)
            \/ decodeVarbind(bytes) = OK(Varbind(oid, value.type, value.val), end)
        BY <4>4
      <4>6. Varbind(oid, value.type, value.val) \in DecodedVarbinds
        <5>1. PICK type \in DecodedTypes : value \in [type : {type}, val : TypedValues(type)]
          BY DEF DecodedValues
        <5>2. Varbind(oid, value.type, value.val) \in [oid : Numbers, type : {type}, val : TypedValues(type)]
          BY <5>1 DEF Varbind
        <5>3. QED
          BY <5>2 DEF DecodedVarbinds
      <4>7. QED
        BY <4>3, <4>5, <4>6 DEF Advances
    <3>8. QED
      BY <3>6, <3>7
  <2>8. QED
    BY <2>6, <2>7
<1>4. QED
  BY <1>2, <1>3

-----------------------------------------------------------------------------
(***************************************************************************)
(* The list of varbinds: the recursion of decodeVarbindList.               *)
(***************************************************************************)

\* Lists of varbinds as they are decoded.
VarbindSeqs == Seq(DecodedVarbinds)

\* One step of the recursion of decodeVarbindList, with f for what follows.
ListStep(f, bytes) ==
  Then(decodeVarbind(bytes), LAMBDA vb, rest :
    IF rest = <<>> THEN OK(<<vb>>, rest)
    ELSE Then(f[rest], LAMBDA vbs, end : OK(<<vb>> \o vbs, end)))

\* decodeVarbindList stops at a varbind that cannot be decoded,
LEMMA ListStops ==
  ASSUME NEW f, NEW bytes, decodeVarbind(bytes).status # "ok"
  PROVE  ListStep(f, bytes) = decodeVarbind(bytes)
BY DEF ListStep, Then

\* is done at the end of the bytes, or goes on.
LEMMA ListGoesOn ==
  ASSUME NEW f, NEW bytes, NEW vb, NEW rest, decodeVarbind(bytes) = OK(vb, rest)
  PROVE  ListStep(f, bytes) =
           IF rest = <<>> THEN OK(<<vb>>, rest)
           ELSE IF f[rest].status = "ok" THEN OK(<<vb>> \o f[rest].val, f[rest].rest)
           ELSE f[rest]
<1>1. /\ decodeVarbind(bytes).status = "ok" /\ decodeVarbind(bytes).val = vb
      /\ decodeVarbind(bytes).rest = rest
  BY Status
<1>2. QED
  BY <1>1 DEF ListStep, Then

\* What was decoded, and that fewer bytes are left.
LEMMA AdvancesOK ==
  ASSUME NEW r, NEW X, NEW n, Advances(r, X, n), r.status = "ok"
  PROVE  \E v \in X, b \in Buffer : r = OK(v, b) /\ Len(b) < n
<1>1. ~\E b \in Buffer : r = Error(b) /\ Len(b) <= n
  BY Status
<1>2. r # Panic
  BY Status
<1>3. QED
  BY <1>1, <1>2 DEF Advances

\* What is not decoded is an outcome of any type.
LEMMA AdvancesOutcome ==
  ASSUME NEW r, NEW X, NEW Y, NEW n \in Nat, Advances(r, X, n), r.status # "ok"
  PROVE  Outcome(r, Y, n)
<1>1. ~\E v \in X, b \in Buffer : r = OK(v, b) /\ Len(b) < n
  BY Status
<1>2. QED
  BY <1>1 DEF Advances, Outcome

\* decodeVarbindList is the function that its definition describes, for any
\* bytes: each varbind leaves fewer.
LEMMA VarbindListFunction ==
  \A bytes \in Buffer : decodeVarbindList[bytes] = ListStep(decodeVarbindList, bytes)
<1> DEFINE vb(bytes) == decodeVarbind(bytes)
           V == Outcomes(VarbindSeqs)
           ends(bytes) == vb(bytes).status # "ok" \/ vb(bytes).rest = <<>>
           size == [bytes \in Buffer |-> Len(bytes)]
           stop == [bytes \in Buffer |-> ends(bytes)]
           next == [bytes \in Buffer |-> IF ends(bytes) THEN bytes ELSE vb(bytes).rest]
           base == [bytes \in Buffer |-> IF ends(bytes) THEN ListStep(<<>>, bytes) ELSE Panic]
           after(bytes, r) ==
             IF ends(bytes) \/ r.status # "ok" THEN r ELSE OK(<<vb(bytes).val>> \o r.val, r.rest)
           combine == [bytes \in Buffer |-> [r \in V |-> after(bytes, r)]]
<1>1. ASSUME NEW bytes \in Buffer
      PROVE  Len(bytes) \in Nat /\ Advances(vb(bytes), DecodedVarbinds, Len(bytes))
  BY BufferFacts, decodeVarbindType
<1>2. ASSUME NEW bytes \in Buffer, vb(bytes).status = "ok"
      PROVE  /\ vb(bytes) = OK(vb(bytes).val, vb(bytes).rest)
             /\ vb(bytes).val \in DecodedVarbinds /\ vb(bytes).rest \in Buffer
             /\ Len(vb(bytes).rest) < Len(bytes)
  <2>1. PICK v \in DecodedVarbinds, b \in Buffer : vb(bytes) = OK(v, b) /\ Len(b) < Len(bytes)
    BY <1>1, <1>2, AdvancesOK
  <2>2. vb(bytes).val = v /\ vb(bytes).rest = b
    BY <2>1, Status
  <2>3. QED
    BY <2>1, <2>2
<1>3. ASSUME NEW bytes \in Buffer, ends(bytes), NEW f
      PROVE  ListStep(f, bytes) = ListStep(<<>>, bytes) /\ ListStep(f, bytes) \in V
  <2>1. CASE vb(bytes).status # "ok"
    <3>1. ListStep(f, bytes) = vb(bytes) /\ ListStep(<<>>, bytes) = vb(bytes)
      BY <2>1, ListStops
    <3>2. Outcome(vb(bytes), VarbindSeqs, Len(bytes))
      BY <1>1, <2>1, AdvancesOutcome
    <3>3. vb(bytes) \in V
      BY <3>2, OutcomeIn
    <3>4. QED
      BY <3>1, <3>3
  <2>2. CASE vb(bytes).status = "ok"
    <3>1. PICK v \in DecodedVarbinds, b \in Buffer :
            vb(bytes) = OK(v, b) /\ v = vb(bytes).val /\ b = vb(bytes).rest
      BY <1>2, <2>2
    <3>2. <<v>> \in VarbindSeqs
      BY DEF VarbindSeqs
    <3>3. b = <<>>
      BY <1>3, <2>2, <3>1
    <3>4. ListStep(f, bytes) = OK(<<v>>, b) /\ ListStep(<<>>, bytes) = OK(<<v>>, b)
      BY <3>1, <3>3, ListGoesOn
    <3>5. QED
      BY <3>2, <3>4, InOutcomes
  <2>3. QED
    BY <2>1, <2>2
<1>4. ASSUME NEW bytes \in Buffer, NEW r \in V PROVE after(bytes, r) \in V
  <2>1. CASE ends(bytes) \/ r.status # "ok"
    BY <2>1
  <2>2. CASE ~(ends(bytes) \/ r.status # "ok")
    <3>1. r.val \in VarbindSeqs /\ r.rest \in Buffer
      BY <2>2, InOutcomes
    <3>2. vb(bytes).val \in DecodedVarbinds
      BY <1>2, <2>2
    <3>3. <<vb(bytes).val>> \o r.val \in VarbindSeqs
      BY <3>1, <3>2 DEF VarbindSeqs
    <3>4. QED
      BY <2>2, <3>1, <3>3, InOutcomes
  <2>3. QED
    BY <2>1, <2>2
<1>5. ASSUME NEW bytes \in Buffer, ~ends(bytes), NEW f
      PROVE  ListStep(f, bytes) = after(bytes, f[vb(bytes).rest])
  <2>1. vb(bytes) = OK(vb(bytes).val, vb(bytes).rest) /\ vb(bytes).rest # <<>>
    BY <1>2, <1>5
  <2>2. QED
    BY <1>5, <2>1, ListGoesOn
<1> HIDE DEF vb, V
<1>6. /\ size \in [Buffer -> Nat] /\ next \in [Buffer -> Buffer] /\ base \in [Buffer -> V]
      /\ combine \in [Buffer -> [V -> V]]
  <2>1. size \in [Buffer -> Nat]
    BY <1>1
  <2>2. next \in [Buffer -> Buffer]
    BY <1>2
  <2>3. base \in [Buffer -> V]
    <3> HIDE DEF ends
    <3>1. Panic \in V
      BY InOutcomes DEF V
    <3>2. QED
      BY <1>3, <3>1
  <2>4. \A bytes \in Buffer : [r \in V |-> after(bytes, r)] \in [V -> V]
    <3> HIDE DEF after
    <3>1. QED
      BY <1>4
  <2>5. combine \in [Buffer -> [V -> V]]
    <3> HIDE DEF after
    <3>1. QED
      BY <2>4
  <2>6. QED
    BY <2>1, <2>2, <2>3, <2>5
<1>7. stop \in [Buffer -> BOOLEAN] /\ \A bytes \in Buffer : stop[bytes] <=> ends(bytes)
  OBVIOUS
<1>8. \A bytes \in Buffer : ~stop[bytes] => size[next[bytes]] < size[bytes]
  BY <1>2, <1>7
<1> HIDE DEF ends, after
<1>9. PICK g \in [Buffer -> V] :
        \A x \in Buffer : g[x] = IF stop[x] THEN base[x] ELSE combine[x][g[next[x]]]
  <2> HIDE DEF size, stop, next, base, combine
  <2>1. Decreases(Buffer, V, size, stop, next, base, combine)
    BY <1>6, <1>7, <1>8 DEF Decreases
  <2>2. QED
    BY <2>1, Recursion
<1>10. ASSUME NEW bytes \in Buffer PROVE g[bytes] = ListStep(g, bytes)
  <2>1. CASE ends(bytes)
    BY <1>3, <1>7, <1>9, <2>1
  <2>2. CASE ~ends(bytes)
    <3>1. vb(bytes).rest \in Buffer
      BY <1>2, <2>2 DEF ends
    <3>2. g[bytes] = combine[bytes][g[vb(bytes).rest]]
      BY <1>7, <1>9, <2>2
    <3>3. g[bytes] = after(bytes, g[vb(bytes).rest])
      BY <3>1, <3>2
    <3>4. QED
      BY <1>5, <2>2, <3>3
  <2>3. QED
    BY <2>1, <2>2
<1>11. g = [bytes \in Buffer |-> ListStep(g, bytes)]
  BY <1>10
<1>12. decodeVarbindList = CHOOSE f : f = [bytes \in Buffer |-> ListStep(f, bytes)]
  BY Zenon DEF decodeVarbindList, ListStep, Buffer
<1>13. decodeVarbindList = [bytes \in Buffer |-> ListStep(decodeVarbindList, bytes)]
  BY <1>11, <1>12, Zenon
<1>14. QED
  BY <1>13, Zenon

\* decodeVarbindList returns varbinds, whatever the bytes,
LEMMA decodeVarbindListType ==
  ASSUME NEW bytes \in Buffer
  PROVE  Outcome(decodeVarbindList[bytes], VarbindSeqs, Len(bytes))
<1> DEFINE D(b) == decodeVarbindList[b]
           S == {n \in Nat : \A b \in Buffer : Len(b) = n => Outcome(D(b), VarbindSeqs, Len(b))}
<1> HIDE DEF D
<1>1. ASSUME NEW n \in Nat, \A m \in Nat : m < n => m \in S PROVE n \in S
  <2>1. SUFFICES ASSUME NEW b \in Buffer, Len(b) = n PROVE Outcome(D(b), VarbindSeqs, Len(b))
    OBVIOUS
  <2>2. D(b) = ListStep(decodeVarbindList, b)
    BY VarbindListFunction DEF D
  <2>3. Advances(decodeVarbind(b), DecodedVarbinds, Len(b))
    BY decodeVarbindType
  <2>4. CASE decodeVarbind(b).status # "ok"
    <3>1. D(b) = decodeVarbind(b)
      BY <2>2, <2>4, ListStops
    <3>2. QED
      BY <2>1, <2>3, <2>4, <3>1, AdvancesOutcome
  <2>5. CASE decodeVarbind(b).status = "ok"
    <3>1. PICK v \in DecodedVarbinds, c \in Buffer :
            decodeVarbind(b) = OK(v, c) /\ Len(c) < Len(b)
      BY <2>3, <2>5, AdvancesOK
    <3>2. D(b) =
            IF c = <<>> THEN OK(<<v>>, c)
            ELSE IF D(c).status = "ok" THEN OK(<<v>> \o D(c).val, D(c).rest) ELSE D(c)
      BY <2>2, <3>1, ListGoesOn DEF D
    <3>3. Len(c) \in Nat
      BY BufferFacts
    <3>4. Len(c) <= Len(b)
      BY <2>1, <3>1, <3>3
    <3>5. Outcome(D(c), VarbindSeqs, Len(c))
      BY <1>1, <2>1, <3>1, <3>3
    <3>6. CASE c = <<>>
      <4>1. <<v>> \in VarbindSeqs
        BY DEF VarbindSeqs
      <4>2. QED
        BY <3>2, <3>4, <3>6, <4>1 DEF Outcome
    <3>7. CASE c # <<>> /\ D(c).status # "ok"
      <4>1. D(b) = D(c)
        BY <3>2, <3>7
      <4>2. QED
        BY <2>1, <3>3, <3>4, <3>5, <4>1, ShorterOutcome
    <3>8. CASE c # <<>> /\ D(c).status = "ok"
      <4>1. PICK w \in VarbindSeqs, d \in Buffer : D(c) = OK(w, d) /\ Len(d) <= Len(c)
        BY <3>5, <3>8, OutcomeOK
      <4>2. D(b) = OK(<<v>> \o w, d)
        BY <3>2, <3>8, <4>1, Status
      <4>3. <<v>> \o w \in VarbindSeqs
        BY DEF VarbindSeqs
      <4>4. Len(d) \in Nat
        BY BufferFacts
      <4>5. Len(d) <= Len(b)
        BY <2>1, <3>3, <3>4, <4>1, <4>4
      <4>6. QED
        BY <4>2, <4>3, <4>5 DEF Outcome
    <3>9. QED
      BY <3>6, <3>7, <3>8
  <2>6. QED
    BY <2>4, <2>5
<1> HIDE DEF S
<1>2. Nat \subseteq S
  BY <1>1, SetInduction, Zenon
<1>3. Len(bytes) \in Nat
  BY BufferFacts
<1>4. QED
  BY <1>2, <1>3 DEF S, D

-----------------------------------------------------------------------------
(***************************************************************************)
(* What decodeMsg returns, whatever the bytes.                             *)
(***************************************************************************)

\* and so does decodeVarbinds.
LEMMA decodeVarbindsType ==
  ASSUME NEW bytes \in Buffer
  PROVE  Outcome(decodeVarbinds(bytes), VarbindSeqs, Len(bytes))
<1> DEFINE r == decodeHeaderOf(SEQUENCE, bytes)
<1>1. Outcome(r, Nat, Len(bytes)) /\ Len(bytes) \in Nat /\ Len(bytes) <= Len(bytes)
  BY decodeHeaderOfOutcome, BufferFacts
<1>2. CASE r.status # "ok"
  <2>1. decodeVarbinds(bytes) = r
    BY <1>2 DEF decodeVarbinds, Then
  <2> HIDE DEF r
  <2>2. QED
    BY <1>1, <1>2, <2>1, Stops
<1>3. CASE r.status = "ok"
  <2>1. PICK n \in Nat, b \in Buffer : r = OK(n, b) /\ Len(b) <= Len(bytes)
    BY <1>1, <1>3, OutcomeOK
  <2>2. decodeVarbinds(bytes) = IF n # Len(b) THEN Error(b) ELSE decodeVarbindList[b]
    BY <2>1 DEF decodeVarbinds, Then, OK
  <2>3. Outcome(decodeVarbindList[b], VarbindSeqs, Len(bytes))
    BY <1>1, <2>1, decodeVarbindListType, OutcomeAfter
  <2>4. QED
    BY <2>1, <2>2, <2>3, OutcomeError
<1>4. QED
  BY <1>2, <1>3

\* Messages as they are decoded.
DecodedMessages ==
  {Message(version, community, pduType, id, errorVal, errorIdx, vbs) :
     version \in {0, 1}, community \in Buffer, pduType \in Bytes,
     id \in Nat, errorVal \in Int, errorIdx \in Int, vbs \in VarbindSeqs}

\* A message from its fields.
LEMMA InDecodedMessages ==
  ASSUME NEW version \in {0, 1}, NEW community \in Buffer, NEW pduType \in Bytes, NEW id \in Nat,
         NEW errorVal \in Int, NEW errorIdx \in Int, NEW vbs \in VarbindSeqs
  PROVE  Message(version, community, pduType, id, errorVal, errorIdx, vbs) \in DecodedMessages
BY DEF DecodedMessages

\* decode returns a message with the header it was given,
LEMMA decodeType ==
  ASSUME NEW version \in {0, 1}, NEW community \in Buffer, NEW pduType \in Bytes,
         NEW m, m.version = version, m.community = community, m.pduType = pduType,
         NEW bytes \in Buffer
  PROVE  Outcome(decode(m, bytes), DecodedMessages, Len(bytes))
<1> DEFINE r == decodeUint32WithHeader(bytes)
<1>1. Outcome(r, Nat, Len(bytes)) /\ Len(bytes) \in Nat /\ Len(bytes) <= Len(bytes)
  BY decodeUint32Type, BufferFacts
<1>2. CASE r.status # "ok"
  <2>1. decode(m, bytes) = r
    BY <1>2 DEF decode, Then
  <2> HIDE DEF r
  <2>2. QED
    BY <1>1, <1>2, <2>1, Stops
<1>3. CASE r.status = "ok"
  <2>1. PICK id \in Nat, b \in Buffer : r = OK(id, b) /\ Len(b) <= Len(bytes)
    BY <1>1, <1>3, OutcomeOK
  <2> DEFINE s == decodeInt32WithHeader(b)
  <2>2. decode(m, bytes) =
          Then(s, LAMBDA errorVal, r2 :
            IF errorVal > SnmpRequestErrorType_MAX THEN Error(r2)
            ELSE Then(decodeInt32WithHeader(r2), LAMBDA errorIdx, r3 :
                   Then(decodeVarbinds(r3), LAMBDA vbs, r4 :
                     OK(Message(version, community, pduType, id, errorVal, errorIdx, vbs), r4))))
    BY <2>1 DEF decode, Then, OK
  <2>3. Outcome(s, Int, Len(bytes))
    BY <1>1, <2>1, decodeIntegerWithHeaderType, OutcomeAfter DEF decodeInt32WithHeader
  <2>4. CASE s.status # "ok"
    <3>1. decode(m, bytes) = s
      BY <2>2, <2>4 DEF Then
    <3> HIDE DEF s
    <3>2. QED
      BY <1>1, <2>3, <2>4, <3>1, Stops
  <2>5. CASE s.status = "ok"
    <3>1. PICK errorVal \in Int, c \in Buffer : s = OK(errorVal, c) /\ Len(c) <= Len(bytes)
      BY <2>3, <2>5, OutcomeOK
    <3> DEFINE t == decodeInt32WithHeader(c)
    <3>2. decode(m, bytes) =
            IF errorVal > SnmpRequestErrorType_MAX THEN Error(c)
            ELSE Then(t, LAMBDA errorIdx, r3 :
                   Then(decodeVarbinds(r3), LAMBDA vbs, r4 :
                     OK(Message(version, community, pduType, id, errorVal, errorIdx, vbs), r4)))
      BY <2>2, <3>1 DEF Then, OK
    <3>3. Outcome(t, Int, Len(bytes))
      BY <1>1, <3>1, decodeIntegerWithHeaderType, OutcomeAfter DEF decodeInt32WithHeader
    <3>4. CASE errorVal > SnmpRequestErrorType_MAX
      BY <3>1, <3>2, <3>4, OutcomeError
    <3>5. CASE ~(errorVal > SnmpRequestErrorType_MAX) /\ t.status # "ok"
      <4>1. decode(m, bytes) = t
        BY <3>2, <3>5 DEF Then
      <4> HIDE DEF t
      <4>2. QED
        BY <1>1, <3>3, <3>5, <4>1, Stops
    <3>6. CASE ~(errorVal > SnmpRequestErrorType_MAX) /\ t.status = "ok"
      <4>1. PICK errorIdx \in Int, d \in Buffer : t = OK(errorIdx, d) /\ Len(d) <= Len(bytes)
        BY <3>3, <3>6, OutcomeOK
      <4> DEFINE u == decodeVarbinds(d)
      <4>2. decode(m, bytes) =
              Then(u, LAMBDA vbs, r4 :
                OK(Message(version, community, pduType, id, errorVal, errorIdx, vbs), r4))
        BY <3>2, <3>6, <4>1 DEF Then, OK
      <4>3. Outcome(u, VarbindSeqs, Len(bytes))
        BY <1>1, <4>1, decodeVarbindsType, OutcomeAfter
      <4>4. CASE u.status # "ok"
        <5>1. decode(m, bytes) = u
          BY <4>2, <4>4 DEF Then
        <5> HIDE DEF u
        <5>2. QED
          BY <1>1, <4>3, <4>4, <5>1, Stops
      <4>5. CASE u.status = "ok"
        <5>1. PICK vbs \in VarbindSeqs, e \in Buffer : u = OK(vbs, e) /\ Len(e) <= Len(bytes)
          BY <4>3, <4>5, OutcomeOK
        <5>2. decode(m, bytes) =
                OK(Message(version, community, pduType, id, errorVal, errorIdx, vbs), e)
          BY <4>2, <5>1 DEF Then, OK
        <5>3. QED
          BY <5>1, <5>2, InDecodedMessages DEF Outcome
      <4>6. QED
        BY <4>4, <4>5
    <3>7. QED
      BY <3>4, <3>5, <3>6
  <2>6. QED
    BY <2>4, <2>5
<1>4. QED
  BY <1>2, <1>3

\* after the community and the type of the PDU,
LEMMA decodeCommunityMessageType ==
  ASSUME NEW version \in {0, 1}, NEW bytes \in Buffer
  PROVE  Outcome(decodeCommunityMessage(version, bytes), DecodedMessages, Len(bytes))
<1> DEFINE r == decodeOctetStringWithHeader(bytes)
           D == decodeCommunityMessage(version, bytes)
<1>1. Outcome(r, Buffer, Len(bytes)) /\ Len(bytes) \in Nat /\ Len(bytes) <= Len(bytes)
  BY decodeOctetStringType, BufferFacts
<1>2. CASE r.status # "ok"
  <2>1. D = r
    BY <1>2 DEF decodeCommunityMessage, Then
  <2> HIDE DEF r, D
  <2>2. QED
    BY <1>1, <1>2, <2>1, Stops DEF D
<1>3. CASE r.status = "ok"
  <2>1. PICK community \in Buffer, b \in Buffer : r = OK(community, b) /\ Len(b) <= Len(bytes)
    BY <1>1, <1>3, OutcomeOK
  <2>2. CASE \E h \in Header, c \in Buffer : decodeHeader(b) = OK(h, c) /\ Len(c) < Len(b)
    <3>1. PICK h \in Header, c \in Buffer : decodeHeader(b) = OK(h, c) /\ Len(c) < Len(b)
      BY <2>2
    <3>2. Len(c) \in Nat /\ Len(b) \in Nat
      BY BufferFacts
    <3>3. Len(c) <= Len(bytes)
      BY <1>1, <2>1, <3>1, <3>2
    <3> DEFINE m == [version |-> version, community |-> community, pduType |-> h.type]
    <3>4. D = IF h.length # Len(c) \/ h.type \notin AcceptedPduTypes(version) THEN Error(c)
              ELSE IF h.type = V1_TRAP
              THEN OK(Message(version, community, h.type, 0, 0, 0, <<>>), c)
              ELSE decode(m, c)
      BY <2>1, <3>1 DEF decodeCommunityMessage, Then, OK
    <3>5. h.type \in Bytes
      BY DEF Header
    <3>6. Outcome(decode(m, c), DecodedMessages, Len(bytes))
      <4>1. m.version = version /\ m.community = community /\ m.pduType = h.type
        OBVIOUS
      <4> HIDE DEF m
      <4>2. Outcome(decode(m, c), DecodedMessages, Len(c))
        BY <3>5, <4>1, decodeType
      <4>3. QED
        BY <1>1, <3>3, <4>2, OutcomeAfter
    <3>7. Message(version, community, h.type, 0, 0, 0, <<>>) \in DecodedMessages
      <4>1. <<>> \in VarbindSeqs
        BY DEF VarbindSeqs
      <4>2. 0 \in Nat /\ 0 \in Int
        OBVIOUS
      <4>3. QED
        BY <3>5, <4>1, <4>2, InDecodedMessages
    <3> HIDE DEF m
    <3>8. D = Error(c) \/ D = OK(Message(version, community, h.type, 0, 0, 0, <<>>), c)
          \/ D = decode(m, c)
      BY <3>4
    <3> HIDE DEF D
    <3>9. QED
      BY <3>3, <3>6, <3>7, <3>8 DEF Outcome, D
  <2>3. CASE \E c \in Buffer : decodeHeader(b) = Error(c) /\ Len(c) <= Len(b)
    <3>1. PICK c \in Buffer : decodeHeader(b) = Error(c) /\ Len(c) <= Len(b)
      BY <2>3
    <3>2. D = Error(c)
      BY <2>1, <3>1 DEF decodeCommunityMessage, Then, OK, Error
    <3>3. Len(c) \in Nat /\ Len(b) \in Nat
      BY BufferFacts
    <3>4. Len(c) <= Len(bytes)
      BY <1>1, <2>1, <3>1, <3>3
    <3>5. QED
      BY <3>2, <3>4 DEF Outcome
  <2>4. CASE decodeHeader(b) = Panic
    <3>1. D = Panic
      BY <2>1, <2>4 DEF decodeCommunityMessage, Then, OK, Panic
    <3>2. QED
      BY <3>1 DEF Outcome
  <2>5. QED
    BY <2>2, <2>3, <2>4, decodeHeaderType
<1>4. QED
  BY <1>2, <1>3

\* Whatever bytes are received, decodeMsg returns a message whose fields have
\* their types, an error, or panics; no length in the bytes makes it read past
\* their end (decodeMsg and all it calls).
THEOREM decodeMsgType ==
  ASSUME NEW bytes \in Buffer
  PROVE  Outcome(decodeMsg(bytes), DecodedMessages, Len(bytes))
<1> DEFINE r == decodeHeaderOf(SEQUENCE, bytes)
<1>1. Outcome(r, Nat, Len(bytes)) /\ Len(bytes) \in Nat /\ Len(bytes) <= Len(bytes)
  BY decodeHeaderOfOutcome, BufferFacts
<1>2. CASE r.status # "ok"
  <2>1. decodeMsg(bytes) = r
    BY <1>2 DEF decodeMsg, Then
  <2> HIDE DEF r
  <2>2. QED
    BY <1>1, <1>2, <2>1, Stops
<1>3. CASE r.status = "ok"
  <2>1. PICK n \in Nat, b \in Buffer : r = OK(n, b) /\ Len(b) <= Len(bytes)
    BY <1>1, <1>3, OutcomeOK
  <2> DEFINE s == decodeIntegerWithHeader(b)
  <2>2. decodeMsg(bytes) =
          IF n # Len(b) THEN Error(b)
          ELSE Then(s, LAMBDA version, r2 :
                 IF version \notin {0, 1} THEN Error(r2) ELSE decodeCommunityMessage(version, r2))
    BY <2>1 DEF decodeMsg, Then, OK
  <2>3. Outcome(s, Int, Len(bytes))
    BY <1>1, <2>1, decodeIntegerWithHeaderType, OutcomeAfter
  <2>4. CASE n # Len(b)
    BY <2>1, <2>2, <2>4, OutcomeError
  <2>5. CASE n = Len(b) /\ s.status # "ok"
    <3>1. decodeMsg(bytes) = s
      BY <2>2, <2>5 DEF Then
    <3> HIDE DEF s
    <3>2. QED
      BY <1>1, <2>3, <2>5, <3>1, Stops
  <2>6. CASE n = Len(b) /\ s.status = "ok"
    <3>1. PICK version \in Int, c \in Buffer : s = OK(version, c) /\ Len(c) <= Len(bytes)
      BY <2>3, <2>6, OutcomeOK
    <3>2. decodeMsg(bytes) =
            IF version \notin {0, 1} THEN Error(c) ELSE decodeCommunityMessage(version, c)
      BY <2>2, <2>6, <3>1 DEF Then, OK
    <3>3. CASE version \notin {0, 1}
      BY <3>1, <3>2, <3>3, OutcomeError
    <3>4. CASE version \in {0, 1}
      <4>1. Outcome(decodeCommunityMessage(version, c), DecodedMessages, Len(bytes))
        BY <1>1, <3>1, <3>4, decodeCommunityMessageType, OutcomeAfter
      <4>2. QED
        BY <3>2, <3>4, <4>1
    <3>5. QED
      BY <3>3, <3>4
  <2>7. QED
    BY <2>4, <2>5, <2>6
<1>4. QED
  BY <1>2, <1>3

-----------------------------------------------------------------------------
(***************************************************************************)
(* The varbinds that are composed, and what their encoders return.         *)
(***************************************************************************)

\* What a varbind that is composed may hold.
ValuesSent(type) ==
  CASE type = INTEGER           -> {v \in Int : v \div Power256(3) \in -128 .. 127}
    [] type = OBJECT_IDENTIFIER -> Identifiers
    [] type = BIT_STRING        -> {b \in [bytes : Buffer, bitLength : Nat] : IsBitString(b)}
    [] type \in Nulls           -> {NoVal}
    [] OTHER                    -> Buffer

\* Varbinds of the types that are supported.
VarbindsSent ==
  UNION {[oid : Identifiers, type : {type}, val : ValuesSent(type)] : type \in DecodedTypes}

\* A varbind has its fields,
LEMMA SentVarbind ==
  ASSUME NEW vb \in VarbindsSent
  PROVE  /\ vb.oid \in Identifiers /\ vb.type \in DecodedTypes /\ vb.val \in ValuesSent(vb.type)
         /\ vb = Varbind(vb.oid, vb.type, vb.val)
<1>1. PICK type \in DecodedTypes : vb \in [oid : Identifiers, type : {type}, val : ValuesSent(type)]
  BY DEF VarbindsSent
<1>2. QED
  BY <1>1 DEF Varbind

\* and its fields make one.
LEMMA InVarbindsSent ==
  ASSUME NEW oid \in Identifiers, NEW type \in DecodedTypes, NEW val \in ValuesSent(type)
  PROVE  Varbind(oid, type, val) \in VarbindsSent
BY DEF Varbind, VarbindsSent

\* The values of each type,
LEMMA ValuesSentCases ==
  /\ ValuesSent(INTEGER) = {v \in Int : v \div Power256(3) \in -128 .. 127}
  /\ ValuesSent(OBJECT_IDENTIFIER) = Identifiers
  /\ ValuesSent(BIT_STRING) = {b \in [bytes : Buffer, bitLength : Nat] : IsBitString(b)}
  /\ ValuesSent(OCTET_STRING) = Buffer /\ ValuesSent(IP_ADDRESS) = Buffer
  /\ \A type \in Nulls : ValuesSent(type) = {NoVal}
BY TypesDiffer DEF ValuesSent

\* and the encoder it is given to.
LEMMA encodeValueCases ==
  ASSUME NEW vb
  PROVE  /\ vb.type = INTEGER => encodeValue(vb) = encodeInteger(vb.val)
         /\ vb.type = BIT_STRING => encodeValue(vb) = encodeBitString(vb.val)
         /\ vb.type = OCTET_STRING => encodeValue(vb) = encodeOctetString(vb.val)
         /\ vb.type = OBJECT_IDENTIFIER => encodeValue(vb) = encodeObjectIdentifier(vb.val)
         /\ vb.type = IP_ADDRESS => encodeValue(vb) = encodeIPv4Address(vb.val)
         /\ vb.type \in Nulls => encodeValue(vb) = Block(vb.type, <<>>)
BY TypesDiffer DEF encodeValue

\* How many bits of the last byte are unused.
Padding(val) == (8 - (val.bitLength % 8)) % 8

\* They are up to seven.
LEMMA PaddingType ==
  ASSUME NEW val, IsBitString(val)
  PROVE  /\ Padding(val) \in 0 .. 7 /\ Padding(val) \in Bytes
         /\ 8 * Len(val.bytes) - Padding(val) = val.bitLength
         /\ val.bytes \in Buffer /\ val.bitLength \in Nat
<1>1. PICK n \in Nat : n = val.bitLength
  BY DEF IsBitString
<1>2. Padding(val) = (8 - (n % 8)) % 8 /\ Len(val.bytes) = (n + 7) \div 8
  BY <1>1 DEF Padding, IsBitString
<1>3. (8 - (n % 8)) % 8 \in 0 .. 7 /\ 8 * ((n + 7) \div 8) - ((8 - (n % 8)) % 8) = n
  OBVIOUS
<1>4. \A k \in 0 .. 7 : k \in Bytes
  BY DEF Bytes
<1>5. QED
  BY <1>1, <1>2, <1>3, <1>4 DEF IsBitString, Buffer

\* A value that can be encoded is a chain of buffers,
LEMMA encodeValueType ==
  ASSUME NEW vb \in VarbindsSent, ValueEncodable(vb)
  PROVE  encodeValue(vb) \in Chain
<1>0. vb.type \in DecodedTypes /\ vb.val \in ValuesSent(vb.type)
  BY SentVarbind
<1>1. CASE vb.type = INTEGER
  BY <1>0, <1>1, ValuesSentCases, encodeValueCases, encodeIntegerType
<1>2. CASE vb.type = BIT_STRING
  <2>1. IsBitString(vb.val)
    BY <1>0, <1>2, ValuesSentCases
  <2>2. <<Padding(vb.val)>> \o vb.val.bytes \in Buffer
    BY <2>1, PaddingType, TwoBytes, BufferFacts
  <2>3. encodeValue(vb) = Block(BIT_STRING, <<<<Padding(vb.val)>> \o vb.val.bytes>>)
    BY <1>2, encodeValueCases DEF encodeBitString, Padding
  <2>4. QED
    BY <2>2, <2>3, OneBuffer, BlockType, BlockTypes
<1>3. CASE vb.type = OCTET_STRING
  <2>1. vb.val \in Buffer /\ encodeValue(vb) = Block(OCTET_STRING, <<vb.val>>)
    BY <1>0, <1>3, ValuesSentCases, encodeValueCases DEF encodeOctetString
  <2>2. QED
    BY <2>1, OneBuffer, BlockType, BlockTypes
<1>4. CASE vb.type = OBJECT_IDENTIFIER
  <2>1. vb.val \in Identifiers /\ Encodable(vb.val)
    BY <1>0, <1>4, ValuesSentCases DEF ValueEncodable
  <2>2. QED
    BY <1>4, <2>1, encodeValueCases, encodeObjectIdentifierType
<1>5. CASE vb.type = IP_ADDRESS
  <2>1. vb.val \in Buffer /\ encodeValue(vb) = Block(IP_ADDRESS, <<vb.val>>)
    BY <1>0, <1>5, ValuesSentCases, encodeValueCases DEF encodeIPv4Address
  <2>2. QED
    BY <2>1, OneBuffer, BlockType, BlockTypes
<1>6. CASE vb.type \in Nulls
  <2>1. vb.type \in Bytes
    BY <1>0, TypesDiffer
  <2>2. QED
    BY <1>6, <2>1, encodeValueCases, EmptyChain, BlockType
<1>7. QED
  BY <1>0, <1>1, <1>2, <1>3, <1>4, <1>5, <1>6 DEF DecodedTypes

\* and so is a varbind.
LEMMA encodeVarbindType ==
  ASSUME NEW vb \in VarbindsSent, VarbindEncodable(vb)
  PROVE  /\ encodeObjectIdentifier(vb.oid) \in Chain /\ encodeValue(vb) \in Chain
         /\ encodeObjectIdentifier(vb.oid) \o encodeValue(vb) \in Chain
         /\ encodeVarbind(vb) \in Chain
<1>1. encodeObjectIdentifier(vb.oid) \in Chain /\ encodeValue(vb) \in Chain
  BY SentVarbind, encodeObjectIdentifierType, encodeValueType DEF VarbindEncodable
<1>2. QED
  BY <1>1, ChainConcat, BlockType, BlockTypes DEF encodeVarbind

-----------------------------------------------------------------------------
(***************************************************************************)
(* An identifier in front of any bytes.                                    *)
(***************************************************************************)

\* An element of five digits is not plain.
LEMMA TooLongIsNotPlain ==
  ASSUME NEW oid \in Identifiers, Len(oid) > 2, TooLong(AfterSecond(oid))
  PROVE  ~PlainOid(oid)
<1>1. PICK i \in 1 .. Len(AfterSecond(oid)) : AfterSecond(oid)[i] \div Power128(4) > 0
  BY DEF TooLong
<1>2. i \in 1 .. Len(oid) - 2 /\ AfterSecond(oid)[i] = oid[i + 2]
  BY <1>1, AfterSecondFacts
<1>3. i + 2 \in 3 .. Len(oid) /\ oid[i + 2] \in Nat
  BY <1>2 DEF Identifiers
<1>4. \A x \in Nat : x \div Power128(4) > 0 => ~(x < Power128(4))
  BY SMT, Powers
<1>5. ~(oid[i + 2] < Power128(4))
  BY <1>1, <1>2, <1>3, <1>4
<1>6. QED
  BY <1>3, <1>5 DEF PlainOid

\* What is read of an identifier in front of rest.
IdentifierRead(r, oid, rest) ==
  \/ \E x \in Numbers : r = OK(x, rest) /\ (~CutOff(oid) => x = oid)
  \/ TooLong(AfterSecond(oid)) /\ \E b \in Buffer : r = Error(b) /\ Len(b) > Len(rest)

\* The first two elements are read back from one byte, if it is not cut off.
LEMMA FirstByteReadBack ==
  ASSUME NEW oid \in Identifiers, Encodable(oid), ~CutOff(oid)
  PROVE  FirstByte(oid) \div 40 = oid[1] /\ FirstByte(oid) % 40 = oid[2]
<1>1. oid[1] \in Nat /\ oid[2] \in Nat /\ oid[2] < 40 /\ ~(40 * oid[1] + oid[2] > 255)
  BY DEF Encodable, Identifiers, CutOff
<1>2. \A a \in Nat, b \in 0 .. 39 :
        ~(40 * a + b > 255) => /\ (40 * a + b) % 256 = 40 * a + b
                               /\ (40 * a + b) \div 40 = a /\ (40 * a + b) % 40 = b
  OBVIOUS
<1>3. oid[2] \in 0 .. 39
  BY <1>1
<1>4. /\ (40 * oid[1] + oid[2]) % 256 = 40 * oid[1] + oid[2]
      /\ (40 * oid[1] + oid[2]) \div 40 = oid[1] /\ (40 * oid[1] + oid[2]) % 40 = oid[2]
  BY <1>1, <1>2, <1>3, Zenon
<1>5. QED
  BY <1>4 DEF FirstByte

\* What is read of the contents of an identifier.
LEMMA IdentifierReadBack ==
  ASSUME NEW oid \in Identifiers, Encodable(oid), Len(oid) > 2, NEW rest \in Buffer
  PROVE  IdentifierRead(decodeObjectIdentifier(Len(Contents(oid)), Contents(oid) \o rest), oid, rest)
<1> DEFINE vs == AfterSecond(oid)
           F == Flat(vs)
           f == FirstByte(oid)
           n == Len(Contents(oid))
           bytes == Contents(oid) \o rest
           at == At(Len(F), Len(F), F \o rest)
           ids == decodeIdentifiers[at]
<1>1. /\ vs \in Identifiers /\ Len(vs) # 0 /\ Len(vs) \in Nat
      /\ oid = <<oid[1], oid[2]>> \o vs /\ ElementsOf(oid) = Elements(vs)
  BY AfterSecondFacts DEF Identifiers
<1>2. F \in Buffer /\ Len(F) \in Nat /\ Len(F) >= Len(vs)
  BY <1>1, ElementsAre, FlatIsLong
<1>3. f \in Bytes /\ <<f>> \in Buffer /\ Len(<<f>>) = 1
  BY encodeObjectIdentifierType, TwoBytes
<1>4. Contents(oid) = <<f>> \o F
  BY <1>1 DEF Contents, Flat
<1>5. n = 1 + Len(F) /\ bytes = <<f>> \o (F \o rest) /\ F \o rest \in Buffer
      /\ Contents(oid) \in Buffer
  <2>1. n = 1 + Len(F) /\ Contents(oid) \in Buffer
    BY <1>2, <1>3, <1>4, BufferFacts
  <2>2. (<<f>> \o F) \o rest = <<f>> \o (F \o rest)
    BY <1>2, <1>3, BufferAssociative
  <2>3. QED
    BY <1>2, <1>4, <2>1, <2>2, BufferFacts
<1>6. Len(bytes) = n + Len(rest) /\ n \in Nat /\ Len(rest) \in Nat
  BY <1>5, BufferFacts
<1> HIDE DEF vs, F, f, n, bytes
<1>7. ~(n > Len(bytes)) /\ ~(MaxElements(n) < 2) /\ MaxElements(n) - 2 = Len(F) /\ n - 1 = Len(F)
  BY <1>2, <1>5, <1>6 DEF MaxElements
<1>8. ReadByte(bytes) = OK(f, F \o rest)
  BY <1>3, <1>5, ReadByteBack
<1>9. decodeObjectIdentifier(n, bytes) =
        IF ids.status = "ok" THEN OK(<<f \div 40, f % 40>> \o ids.val, ids.rest) ELSE ids
  <2>1. At(MaxElements(n) - 2, n - 1, F \o rest) = at
    BY <1>7, Zenon
  <2>2. decodeObjectIdentifier(n, bytes) =
          Then(decodeIdentifiers[At(MaxElements(n) - 2, n - 1, F \o rest)], LAMBDA vals, end :
            OK(<<f \div 40, f % 40>> \o vals, end))
    BY <1>7, <1>8 DEF decodeObjectIdentifier, Then, OK
  <2>3. QED
    BY <2>1, <2>2 DEF Then
<1>10. ElementsRead(ids, vs, rest)
  BY <1>1, <1>2, IdentifiersReadBack DEF F
<1> HIDE DEF ids
<1>11. CASE ids = OK(vs, rest)
  <2> DEFINE x == <<f \div 40, f % 40>> \o vs
  <2>1. decodeObjectIdentifier(n, bytes) = OK(x, rest)
    BY <1>9, <1>11, Status
  <2>2. x \in Numbers
    <3>1. <<f \div 40, f % 40>> \in Numbers
      BY <1>3 DEF Bytes, Numbers
    <3>2. \A k \in Nat : k \in Int
      OBVIOUS
    <3>3. vs \in Numbers
      BY <1>1, <3>2 DEF Identifiers, Numbers
    <3>4. \A s, t \in Numbers : s \o t \in Numbers
      BY DEF Numbers
    <3>5. QED
      BY <3>1, <3>3, <3>4
  <2>3. ~CutOff(oid) => x = oid
    <3>1. ~CutOff(oid) => f \div 40 = oid[1] /\ f % 40 = oid[2]
      BY FirstByteReadBack DEF f
    <3>2. QED
      BY <1>1, <3>1, Zenon
  <2> HIDE DEF x
  <2>4. QED
    BY <2>1, <2>2, <2>3 DEF IdentifierRead, n, bytes
<1>12. CASE TooLong(vs) /\ \E b \in Buffer : ids = Error(b) /\ Len(b) > Len(rest)
  <2>1. PICK b \in Buffer : ids = Error(b) /\ Len(b) > Len(rest)
    BY <1>12
  <2>2. decodeObjectIdentifier(n, bytes) = Error(b)
    BY <1>9, <2>1, Status
  <2>3. QED
    BY <1>12, <2>1, <2>2 DEF IdentifierRead, n, bytes, vs
<1>13. QED
  BY <1>10, <1>11, <1>12 DEF ElementsRead

\* An identifier of more than two elements is received as it was sent, or not at all
\* if an element takes more than four digits, but for a first byte that is cut off.
THEOREM IdentifierWithHeaderReadBack ==
  ASSUME NEW oid \in Identifiers, Encodable(oid), Len(oid) > 2, Len(Contents(oid)) < 127,
         NEW rest \in Buffer
  PROVE  IdentifierRead(decodeObjectIdentifierWithHeader(
                          FlattenSeq(encodeObjectIdentifier(oid)) \o rest), oid, rest)
<1> DEFINE c == FlattenSeq(encodeObjectIdentifier(oid)) \o rest
<1>1. decodeHeaderOf(OBJECT_IDENTIFIER, c) = OK(Len(Contents(oid)), Contents(oid) \o rest)
  <2>1. /\ Contents(oid) \in Buffer /\ OBJECT_IDENTIFIER \in Bytes
        /\ FlattenSeq(encodeObjectIdentifier(oid)) = ShortForm(OBJECT_IDENTIFIER, Contents(oid))
    BY EncodedIdentifier, BlockTypes
  <2>2. decodeHeaderOf(OBJECT_IDENTIFIER, ShortForm(OBJECT_IDENTIFIER, Contents(oid)) \o rest) =
          OK(Len(Contents(oid)), Contents(oid) \o rest)
    BY <2>1, HeaderReadBack
  <2>3. QED
    BY <2>1, <2>2, Zenon
<1>2. decodeObjectIdentifierWithHeader(c) =
        decodeObjectIdentifier(Len(Contents(oid)), Contents(oid) \o rest)
  BY <1>1 DEF decodeObjectIdentifierWithHeader, Then, OK
<1>3. QED
  BY <1>2, IdentifierReadBack

-----------------------------------------------------------------------------
(***************************************************************************)
(* A value in front of any bytes.                                          *)
(***************************************************************************)

\* What is received of a value when all of it is.
ReceivedVal(vb) == IF vb.type = IP_ADDRESS THEN LongAddress(vb.val) ELSE vb.val

\* A value that loses nothing when it is encoded.
ValueKept(vb) == vb.type = OBJECT_IDENTIFIER => ~CutOff(vb.val)

\* A value that both sides support.
PlainValue(vb) ==
  /\ vb.type = OBJECT_IDENTIFIER => PlainOid(vb.val)
  /\ vb.type = IP_ADDRESS => Len(vb.val) = 4

\* What is read of the contents of a value in front of rest.
ContentsRead(r, vb, rest) ==
  \/ \E x : r = OK(x, rest) /\ (ValueKept(vb) => x = ReceivedVal(vb))
  \/ ~PlainValue(vb) /\ \E b \in Buffer : r = Error(b) /\ Len(b) > Len(rest)

\* The contents of a value that takes less than 127 bytes.
ValueForm(vb, d) ==
  /\ d \in Buffer /\ Len(d) < 127
  /\ FlattenSeq(encodeValue(vb)) = ShortForm(vb.type, d)
  /\ \A rest \in Buffer : ContentsRead(decodeValueOf(vb.type, Len(d), d \o rest), vb, rest)

\* Of each type of value there are contents that are in short form and are read
\* back.  An integer,
LEMMA IntegerForm ==
  ASSUME NEW vb, vb.type = INTEGER, vb.val \in ValuesSent(INTEGER)
  PROVE  \E d : ValueForm(vb, d)
<1>1. vb.val \in Int /\ vb.val \div Power256(3) \in -128 .. 127
  BY ValuesSentCases
<1>2. PICK d \in Buffer :
        /\ Len(d) \in 1 .. 4
        /\ FlattenSeq(encodeInteger(vb.val)) = <<INTEGER, Len(d)>> \o d
        /\ Number(256, extendSign(d[1]), Tail(d)) = vb.val
  BY <1>1, EncodedInteger
<1>3. Len(d) < 127
  <2>1. \A k \in 1 .. 4 : k < 127
    OBVIOUS
  <2>2. QED
    BY <1>2, <2>1, Zenon
<1>4. FlattenSeq(encodeValue(vb)) = ShortForm(vb.type, d)
  BY <1>2, encodeValueCases DEF ShortForm
<1>5. ASSUME NEW rest \in Buffer
      PROVE  ContentsRead(decodeValueOf(vb.type, Len(d), d \o rest), vb, rest)
  <2>1. decodeInteger(Len(d), d \o rest) = OK(vb.val, rest)
    BY <1>2, IntegerContents
  <2>2. decodeValueOf(vb.type, Len(d), d \o rest) = OK(vb.val, rest)
    BY <2>1, decodeValueOfCases
  <2>3. ReceivedVal(vb) = vb.val
    BY TypesDiffer DEF ReceivedVal
  <2>4. QED
    BY <2>2, <2>3 DEF ContentsRead
<1>6. QED
  BY <1>3, <1>4, <1>5 DEF ValueForm

\* a string,
LEMMA OctetStringForm ==
  ASSUME NEW vb, vb.type = OCTET_STRING, vb.val \in ValuesSent(OCTET_STRING),
         Len(FlattenSeq(encodeValue(vb))) < 127
  PROVE  \E d : ValueForm(vb, d)
<1> DEFINE d == vb.val
<1>1. d \in Buffer /\ encodeValue(vb) = Block(OCTET_STRING, <<d>>)
  BY ValuesSentCases, encodeValueCases DEF encodeOctetString
<1>2. Len(d) < 127 /\ FlattenSeq(encodeValue(vb)) = ShortForm(vb.type, d)
  BY <1>1, FormOfBlock, BlockTypes
<1>3. ASSUME NEW rest \in Buffer
      PROVE  ContentsRead(decodeValueOf(vb.type, Len(d), d \o rest), vb, rest)
  <2>1. decodeValueOf(vb.type, Len(d), d \o rest) = OK(d, rest)
    BY <1>1, ReadBack, decodeValueOfCases
  <2>2. ReceivedVal(vb) = d
    BY TypesDiffer DEF ReceivedVal
  <2>3. QED
    BY <2>1, <2>2 DEF ContentsRead
<1>4. QED
  BY <1>1, <1>2, <1>3 DEF ValueForm

\* a bit string,
LEMMA BitStringForm ==
  ASSUME NEW vb, vb.type = BIT_STRING, vb.val \in ValuesSent(BIT_STRING),
         Len(FlattenSeq(encodeValue(vb))) < 127
  PROVE  \E d : ValueForm(vb, d)
<1> DEFINE p == Padding(vb.val)
           s == vb.val.bytes
           d == <<p>> \o s
<1>1. IsBitString(vb.val) /\ vb.val = [bytes |-> vb.val.bytes, bitLength |-> vb.val.bitLength]
  BY ValuesSentCases DEF IsBitString
<1>2. p \in 0 .. 7 /\ p \in Bytes /\ 8 * Len(s) - p = vb.val.bitLength /\ s \in Buffer
  BY <1>1, PaddingType
<1>3. encodeValue(vb) = Block(BIT_STRING, <<d>>)
  BY encodeValueCases DEF encodeBitString, Padding
<1> HIDE DEF p, s
<1>4. d \in Buffer /\ Len(d) = 1 + Len(s) /\ Len(s) \in Nat
  <2>1. <<p>> \in Buffer /\ Len(<<p>>) = 1
    BY <1>2, TwoBytes
  <2>2. QED
    BY <1>2, <2>1, BufferFacts
<1>5. Len(d) < 127 /\ FlattenSeq(encodeValue(vb)) = ShortForm(vb.type, d)
  BY <1>3, <1>4, FormOfBlock, BlockTypes
<1>6. ASSUME NEW rest \in Buffer
      PROVE  ContentsRead(decodeValueOf(vb.type, Len(d), d \o rest), vb, rest)
  <2>1. <<p>> \in Buffer /\ d \o rest = <<p>> \o (s \o rest) /\ s \o rest \in Buffer
    <3>1. <<p>> \in Buffer
      BY <1>2, TwoBytes
    <3>2. (<<p>> \o s) \o rest = <<p>> \o (s \o rest)
      BY <1>2, <3>1, BufferAssociative
    <3>3. QED
      BY <1>2, <3>1, <3>2, BufferFacts
  <2>2. ReadByte(d \o rest) = OK(p, s \o rest)
    BY <1>2, <2>1, ReadByteBack
  <2>3. Read(Len(d) - 1, s \o rest) = OK(s, rest)
    <3>1. Len(d) - 1 = Len(s)
      BY <1>4
    <3>2. Read(Len(s), s \o rest) = OK(s, rest)
      BY <1>2, ReadBack
    <3>3. QED
      BY <3>1, <3>2, Zenon
  <2>4. ~(Len(d) < 1) /\ ~(p > 7) /\ 8 * (Len(d) - 1) - p = 8 * Len(s) - p
    BY <1>2, <1>4
  <2> HIDE DEF d
  <2>5. decodeBitString(Len(d), d \o rest) = OK([bytes |-> s, bitLength |-> BitLength(Len(d), p)], rest)
    BY <2>2, <2>3, <2>4 DEF decodeBitString, Then, OK
  <2>6. [bytes |-> s, bitLength |-> BitLength(Len(d), p)] = vb.val
    BY <1>1, <1>2, <2>4, Zenon DEF BitLength, s
  <2>7. decodeValueOf(vb.type, Len(d), d \o rest) = OK(vb.val, rest)
    BY <2>5, <2>6, decodeValueOfCases
  <2>8. ReceivedVal(vb) = vb.val
    BY TypesDiffer DEF ReceivedVal
  <2>9. QED
    BY <2>7, <2>8 DEF ContentsRead
<1>7. QED
  BY <1>4, <1>5, <1>6 DEF ValueForm

\* an identifier, perhaps with an error that is dropped,
LEMMA IdentifierForm ==
  ASSUME NEW vb, vb.type = OBJECT_IDENTIFIER, vb.val \in ValuesSent(OBJECT_IDENTIFIER),
         Encodable(vb.val), Len(vb.val) > 2, Len(FlattenSeq(encodeValue(vb))) < 127
  PROVE  \E d : ValueForm(vb, d)
<1> DEFINE d == Contents(vb.val)
<1>1. vb.val \in Identifiers
  BY ValuesSentCases
<1>2. d \in Buffer /\ encodeValue(vb) = Block(OBJECT_IDENTIFIER, <<d>>)
  BY <1>1, encodeValueCases, encodeObjectIdentifierType DEF Contents
<1> HIDE DEF d
<1>3. Len(d) < 127 /\ FlattenSeq(encodeValue(vb)) = ShortForm(vb.type, d)
  BY <1>2, FormOfBlock, BlockTypes
<1>4. TooLong(AfterSecond(vb.val)) => ~PlainOid(vb.val)
  BY <1>1, TooLongIsNotPlain
<1>5. ASSUME NEW rest \in Buffer
      PROVE  ContentsRead(decodeValueOf(vb.type, Len(d), d \o rest), vb, rest)
  <2>1. IdentifierRead(decodeObjectIdentifier(Len(d), d \o rest), vb.val, rest)
    BY <1>1, IdentifierReadBack DEF d
  <2>2. decodeValueOf(vb.type, Len(d), d \o rest) = decodeObjectIdentifier(Len(d), d \o rest)
    BY decodeValueOfCases
  <2>3. ReceivedVal(vb) = vb.val /\ (ValueKept(vb) => ~CutOff(vb.val))
        /\ (PlainValue(vb) => PlainOid(vb.val))
    BY TypesDiffer DEF ReceivedVal, ValueKept, PlainValue
  <2>4. QED
    BY <1>4, <2>1, <2>2, <2>3 DEF IdentifierRead, ContentsRead
<1>6. QED
  BY <1>2, <1>3, <1>5 DEF ValueForm

\* an address, in its long form,
LEMMA AddressForm ==
  ASSUME NEW vb, vb.type = IP_ADDRESS, vb.val \in ValuesSent(IP_ADDRESS),
         IsIPv4(vb.val), Len(FlattenSeq(encodeValue(vb))) < 127
  PROVE  \E d : ValueForm(vb, d)
<1> DEFINE d == vb.val
<1>1. d \in Buffer /\ encodeValue(vb) = Block(IP_ADDRESS, <<d>>)
  BY ValuesSentCases, encodeValueCases DEF encodeIPv4Address
<1>2. Len(d) < 127 /\ FlattenSeq(encodeValue(vb)) = ShortForm(vb.type, d)
  BY <1>1, FormOfBlock, BlockTypes
<1>3. ASSUME NEW rest \in Buffer
      PROVE  ContentsRead(decodeValueOf(vb.type, Len(d), d \o rest), vb, rest)
  <2>1. decodeValueOf(vb.type, Len(d), d \o rest) = decodeIPv4Address(Len(d), d \o rest)
    BY decodeValueOfCases
  <2>2. CASE Len(d) = 4
    <3>1. Read(4, d \o rest) = OK(d, rest)
      BY <1>1, <2>2, ReadBack
    <3>2. decodeIPv4Address(Len(d), d \o rest) = OK(Mapped(d), rest)
      BY <2>2, <3>1 DEF decodeIPv4Address, Then, OK
    <3>3. ReceivedVal(vb) = Mapped(d)
      BY <2>2 DEF ReceivedVal, LongAddress
    <3>4. QED
      BY <2>1, <3>2, <3>3 DEF ContentsRead
  <2>3. CASE Len(d) # 4
    <3>1. decodeIPv4Address(Len(d), d \o rest) = Error(d \o rest)
      BY <2>3 DEF decodeIPv4Address
    <3>2. Len(d) = 16
      BY <2>3 DEF IsIPv4
    <3>3. d \o rest \in Buffer /\ Len(d \o rest) = 16 + Len(rest) /\ Len(rest) \in Nat
      BY <1>1, <3>2, BufferFacts
    <3>4. Len(d \o rest) > Len(rest)
      BY <3>3
    <3>5. ~PlainValue(vb)
      BY <2>3 DEF PlainValue
    <3>6. QED
      BY <2>1, <3>1, <3>3, <3>4, <3>5 DEF ContentsRead
  <2>4. QED
    BY <2>2, <2>3
<1>4. QED
  BY <1>1, <1>2, <1>3 DEF ValueForm

\* and the types without a value.
LEMMA NullForm ==
  ASSUME NEW vb, vb.type \in Nulls, vb.val \in ValuesSent(vb.type)
  PROVE  \E d : ValueForm(vb, d)
<1>1. vb.val = NoVal /\ encodeValue(vb) = Block(vb.type, <<>>)
  BY ValuesSentCases, encodeValueCases
<1>2. <<>> \in Buffer /\ Len(<<>>) = 0 /\ Len(<<>>) < 127 /\ vb.type \in Bytes
  BY EmptyBuffer, TypesDiffer DEF DecodedTypes
<1>3. FlattenSeq(encodeValue(vb)) = ShortForm(vb.type, <<>>)
  BY <1>1, <1>2, EmptyChain, FlattenEmpty, ShortFormOf
<1>4. ASSUME NEW rest \in Buffer
      PROVE  ContentsRead(decodeValueOf(vb.type, Len(<<>>), <<>> \o rest), vb, rest)
  <2>1. <<>> \o rest = rest
    BY BufferFacts
  <2>2. decodeValueOf(vb.type, Len(<<>>), rest) = OK(NoVal, rest)
    BY decodeValueOfCases
  <2>3. ReceivedVal(vb) = NoVal
    BY <1>1, TypesDiffer DEF ReceivedVal
  <2>4. QED
    BY <2>1, <2>2, <2>3 DEF ContentsRead
<1>5. QED
  BY <1>2, <1>3, <1>4 DEF ValueForm

\* Identifiers of more than two elements.
LongNames(vb) == \A oid \in Names(vb) : Len(oid) > 2

\* A value of any type.
LEMMA SomeForm ==
  ASSUME NEW vb \in VarbindsSent, ValueEncodable(vb), LongNames(vb),
         Len(FlattenSeq(encodeValue(vb))) < 127
  PROVE  \E d : ValueForm(vb, d)
<1>1. vb.type \in DecodedTypes /\ vb.val \in ValuesSent(vb.type)
  BY SentVarbind
<1>2. CASE vb.type = INTEGER
  BY <1>1, <1>2, IntegerForm
<1>3. CASE vb.type = BIT_STRING
  BY <1>1, <1>3, BitStringForm
<1>4. CASE vb.type = OCTET_STRING
  BY <1>1, <1>4, OctetStringForm
<1>5. CASE vb.type = OBJECT_IDENTIFIER
  <2>1. Encodable(vb.val) /\ Len(vb.val) > 2
    BY <1>5 DEF ValueEncodable, LongNames, Names
  <2>2. QED
    BY <1>1, <1>5, <2>1, IdentifierForm
<1>6. CASE vb.type = IP_ADDRESS
  <2>1. IsIPv4(vb.val)
    BY <1>6 DEF ValueEncodable
  <2>2. QED
    BY <1>1, <1>6, <2>1, AddressForm
<1>7. CASE vb.type \in Nulls
  BY <1>1, <1>7, NullForm
<1>8. QED
  BY <1>1, <1>2, <1>3, <1>4, <1>5, <1>6, <1>7 DEF DecodedTypes

\* What is read of a value in front of rest.
ValueRead(r, vb, rest) ==
  \/ \E x : r = OK([type |-> vb.type, val |-> x], rest) /\ (ValueKept(vb) => x = ReceivedVal(vb))
  \/ /\ ~PlainValue(vb)
     /\ \E x : \E b \in Buffer :
          r = OK([type |-> vb.type, val |-> x], b) /\ Len(b) > Len(rest)

\* A value in front of any bytes is received as it was sent, with the bytes
\* left that followed it; or, if it is not plain, bytes of its own are left.
LEMMA ValueReadBack ==
  ASSUME NEW vb \in VarbindsSent, ValueEncodable(vb), LongNames(vb),
         Len(FlattenSeq(encodeValue(vb))) < 127, NEW rest \in Buffer
  PROVE  ValueRead(decodeValue(FlattenSeq(encodeValue(vb)) \o rest), vb, rest)
<1>1. PICK d : ValueForm(vb, d)
  BY SomeForm
<1>2. /\ d \in Buffer /\ Len(d) < 127
      /\ FlattenSeq(encodeValue(vb)) = ShortForm(vb.type, d)
      /\ ContentsRead(decodeValueOf(vb.type, Len(d), d \o rest), vb, rest)
  BY <1>1 DEF ValueForm
<1>3. vb.type \in DecodedTypes /\ vb.type \in Bytes
  BY SentVarbind, TypesDiffer
<1> DEFINE c == ShortForm(vb.type, d) \o rest
           r == decodeValueOf(vb.type, Len(d), d \o rest)
<1>4. decodeHeader(c) = OK([type |-> vb.type, length |-> Len(d)], d \o rest)
  BY <1>2, <1>3, HeaderReadBack
<1>5. decodeValue(c) =
        Then(Unreported(vb.type, r), LAMBDA val, left : OK([type |-> vb.type, val |-> val], left))
  BY <1>3, <1>4 DEF decodeValue, Then, OK
<1> HIDE DEF c, r
<1>6. CASE \E x : r = OK(x, rest) /\ (ValueKept(vb) => x = ReceivedVal(vb))
  <2>1. PICK x : r = OK(x, rest) /\ (ValueKept(vb) => x = ReceivedVal(vb))
    BY <1>6
  <2>2. Unreported(vb.type, r) = OK(x, rest)
    BY <2>1, Status DEF Unreported
  <2>3. decodeValue(c) = OK([type |-> vb.type, val |-> x], rest)
    BY <1>5, <2>2 DEF Then, OK
  <2>4. QED
    BY <1>2, <2>1, <2>3 DEF ValueRead, c
<1>7. CASE ~PlainValue(vb) /\ \E b \in Buffer : r = Error(b) /\ Len(b) > Len(rest)
  <2>1. PICK b \in Buffer : r = Error(b) /\ Len(b) > Len(rest)
    BY <1>7
  <2>2. \E x : Unreported(vb.type, r) = OK(x, b)
    BY <2>1, Status DEF Unreported
  <2>3. PICK x : Unreported(vb.type, r) = OK(x, b)
    BY <2>2
  <2>4. decodeValue(c) = OK([type |-> vb.type, val |-> x], b)
    BY <1>5, <2>3 DEF Then, OK
  <2>5. QED
    BY <1>2, <1>7, <2>1, <2>4 DEF ValueRead, c
<1>8. QED
  BY <1>2, <1>6, <1>7 DEF ContentsRead, r

-----------------------------------------------------------------------------
(***************************************************************************)
(* A varbind in front of any bytes, and a list of varbinds.                *)
(***************************************************************************)

\* No first byte is cut off.
NamesKept(vb) == \A oid \in Names(vb) : ~CutOff(oid)

\* What is read of a varbind in front of rest.
VarbindRead(r, vb, rest) ==
  \/ vb.type = INTEGER /\ r = Panic
  \/ ~PlainVarbind(vb) /\ \E b : r = Error(b)
  \/ \E got : r = OK(got, rest) /\ (NamesKept(vb) => SameVarbind(vb, got))

\* A varbind in front of any bytes: an integer ends the program, one that is
\* not plain may be an error, and any other outcome is the varbind that was
\* sent with the bytes left that followed it.
LEMMA VarbindReadBack ==
  ASSUME NEW vb \in VarbindsSent, VarbindEncodable(vb), LongNames(vb),
         Len(FlattenSeq(encodeVarbind(vb))) < 127, NEW rest \in Buffer
  PROVE  VarbindRead(decodeVarbind(FlattenSeq(encodeVarbind(vb)) \o rest), vb, rest)
<1> DEFINE O == FlattenSeq(encodeObjectIdentifier(vb.oid))
           V == FlattenSeq(encodeValue(vb))
           d == FlattenSeq(encodeObjectIdentifier(vb.oid) \o encodeValue(vb))
           c == FlattenSeq(encodeVarbind(vb)) \o rest
<1>1. vb.oid \in Identifiers /\ Encodable(vb.oid) /\ ValueEncodable(vb) /\ Len(vb.oid) > 2
  BY SentVarbind DEF VarbindEncodable, LongNames, Names
<1>2. /\ encodeObjectIdentifier(vb.oid) \in Chain /\ encodeValue(vb) \in Chain
      /\ encodeObjectIdentifier(vb.oid) \o encodeValue(vb) \in Chain
  BY encodeVarbindType
<1>3. O \in Buffer /\ V \in Buffer /\ d = O \o V /\ d \in Buffer
  BY <1>2, FlattenType, FlattenConcat
<1>4. Len(d) < 127 /\ FlattenSeq(encodeVarbind(vb)) = ShortForm(SEQUENCE, d)
  <2>1. Len(d) + 2 <= Len(FlattenSeq(encodeVarbind(vb))) /\ Len(d) \in Nat
        /\ Len(FlattenSeq(encodeVarbind(vb))) \in Nat
    BY <1>2, ShorterInside, BlockTypes DEF encodeVarbind
  <2>2. Len(d) < 127
    BY <2>1
  <2>3. QED
    BY <1>2, <2>2, ShortFormOf, BlockTypes DEF encodeVarbind
<1>5. decodeHeaderOf(SEQUENCE, c) = OK(Len(d), d \o rest)
  <2>1. decodeHeaderOf(SEQUENCE, ShortForm(SEQUENCE, d) \o rest) = OK(Len(d), d \o rest)
    BY <1>3, <1>4, HeaderReadBack, BlockTypes
  <2>2. QED
    BY <1>4, <2>1, Zenon
<1>6. d \o rest = O \o (V \o rest) /\ V \o rest \in Buffer /\ d \o rest \in Buffer
  <2>1. (O \o V) \o rest = O \o (V \o rest)
    BY <1>3, BufferAssociative
  <2>2. V \o rest \in Buffer /\ d \o rest \in Buffer
    BY <1>3, BufferFacts
  <2>3. QED
    BY <1>3, <2>1, <2>2, Zenon
<1>7. Len(d) = Len(O) + Len(V) /\ Len(O) \in Nat /\ Len(V) \in Nat
  BY <1>3, BufferFacts
<1>8. Len(O) < 127 /\ Len(V) < 127
  BY <1>4, <1>7
<1>9. Len(Contents(vb.oid)) < 127
  <2>1. Contents(vb.oid) \in Buffer
        /\ encodeObjectIdentifier(vb.oid) = Block(OBJECT_IDENTIFIER, <<Contents(vb.oid)>>)
    BY <1>1, encodeObjectIdentifierType DEF Contents
  <2>2. QED
    BY <1>8, <2>1, FormOfBlock, BlockTypes
<1>10. IdentifierRead(decodeObjectIdentifierWithHeader(O \o (V \o rest)), vb.oid, V \o rest)
  BY <1>1, <1>6, <1>9, IdentifierWithHeaderReadBack
<1>11. ValueRead(decodeValue(V \o rest), vb, rest)
  BY <1>1, <1>8, ValueReadBack
<1>12. Len(d \o rest) = Len(d) + Len(rest) /\ Len(rest) \in Nat /\ Len(d) \in Nat
  BY <1>3, BufferFacts
<1> DEFINE r == decodeObjectIdentifierWithHeader(O \o (V \o rest))
           w == decodeValue(V \o rest)
           b == d \o rest
<1>13. decodeVarbind(c) =
         Then(r, LAMBDA oid, left :
           Then(decodeValue(left), LAMBDA value, end :
             IF value.type = INTEGER THEN Panic
             ELSE IF Len(b) - Len(end) # Len(d) THEN Error(end)
             ELSE OK(Varbind(oid, value.type, value.val), end)))
  BY <1>5, <1>6 DEF decodeVarbind, Then, OK
<1> HIDE DEF O, V, d, c, r, w, b
<1>14. CASE TooLong(AfterSecond(vb.oid)) /\ \E e \in Buffer : r = Error(e)
  <2>1. PICK e \in Buffer : r = Error(e)
    BY <1>14
  <2>2. decodeVarbind(c) = Error(e)
    BY <1>13, <2>1 DEF Then, Error
  <2>3. ~PlainVarbind(vb)
    BY <1>1, <1>14, TooLongIsNotPlain DEF PlainVarbind
  <2>4. QED
    BY <2>2, <2>3 DEF VarbindRead, c
<1>15. ASSUME NEW oid, r = OK(oid, V \o rest), ~CutOff(vb.oid) => oid = vb.oid
       PROVE  VarbindRead(decodeVarbind(c), vb, rest)
  <2>1. decodeVarbind(c) =
          Then(w, LAMBDA value, end :
            IF value.type = INTEGER THEN Panic
            ELSE IF Len(b) - Len(end) # Len(d) THEN Error(end)
            ELSE OK(Varbind(oid, value.type, value.val), end))
    BY <1>13, <1>15 DEF Then, OK, w
  <2>2. ASSUME NEW x, NEW end, w = OK([type |-> vb.type, val |-> x], end)
        PROVE  decodeVarbind(c) =
                 IF vb.type = INTEGER THEN Panic
                 ELSE IF Len(b) - Len(end) # Len(d) THEN Error(end)
                 ELSE OK(Varbind(oid, vb.type, x), end)
    <3> DEFINE value == [type |-> vb.type, val |-> x]
    <3>1. value.type = vb.type /\ value.val = x
      OBVIOUS
    <3> HIDE DEF value
    <3>2. decodeVarbind(c) =
            IF value.type = INTEGER THEN Panic
            ELSE IF Len(b) - Len(end) # Len(d) THEN Error(end)
            ELSE OK(Varbind(oid, value.type, value.val), end)
      BY <2>1, <2>2 DEF Then, OK, value
    <3>3. QED
      BY <3>1, <3>2
  <2>3. CASE vb.type = INTEGER
    <3>1. PICK x, end : w = OK([type |-> vb.type, val |-> x], end)
      BY <1>11 DEF ValueRead, w
    <3>2. decodeVarbind(c) = Panic
      BY <2>2, <2>3, <3>1
    <3>3. QED
      BY <2>3, <3>2 DEF VarbindRead, c
  <2>4. ASSUME vb.type # INTEGER, NEW x,
                w = OK([type |-> vb.type, val |-> x], rest), ValueKept(vb) => x = ReceivedVal(vb)
         PROVE  VarbindRead(decodeVarbind(c), vb, rest)
    <3>2. Len(b) - Len(rest) = Len(d)
      BY <1>12 DEF b
    <3> DEFINE got == Varbind(oid, vb.type, x)
    <3>3. decodeVarbind(c) = OK(got, rest)
      BY <2>2, <2>4, <3>2
    <3>4. NamesKept(vb) => ~CutOff(vb.oid) /\ ValueKept(vb)
      BY DEF NamesKept, Names, ValueKept
    <3>5. NamesKept(vb) => SameVarbind(vb, got)
      BY <1>15, <2>4, <3>4 DEF SameVarbind, ReceivedVal, Varbind
    <3> HIDE DEF got
    <3>6. QED
      BY <3>3, <3>5 DEF VarbindRead, c
  <2>5. CASE /\ vb.type # INTEGER /\ ~PlainValue(vb)
             /\ \E x : \E e \in Buffer :
                  w = OK([type |-> vb.type, val |-> x], e) /\ Len(e) > Len(rest)
    <3>1. PICK x : \E e \in Buffer : w = OK([type |-> vb.type, val |-> x], e) /\ Len(e) > Len(rest)
      BY <2>5
    <3>2. PICK e \in Buffer : w = OK([type |-> vb.type, val |-> x], e) /\ Len(e) > Len(rest)
      BY <3>1
    <3>3. Len(e) \in Nat
      BY BufferFacts
    <3>4. Len(b) - Len(e) # Len(d)
      BY <1>12, <3>2, <3>3 DEF b
    <3>5. decodeVarbind(c) = Error(e)
      BY <2>2, <2>5, <3>2, <3>4
    <3>6. ~PlainVarbind(vb)
      BY <2>5 DEF PlainVarbind, PlainValue
    <3>7. QED
      BY <3>5, <3>6 DEF VarbindRead, c
  <2>6. QED
    BY <1>11, <2>3, <2>4, <2>5 DEF ValueRead, w
<1>16. QED
  <2>1. CASE \E oid \in Numbers : r = OK(oid, V \o rest) /\ (~CutOff(vb.oid) => oid = vb.oid)
    BY <1>15, <2>1 DEF c
  <2>2. QED
    BY <1>10, <1>14, <2>1 DEF IdentifierRead, r, c

\* The varbinds that encodeVarbind does not refuse.
SendableVarbinds == {vb \in VarbindsSent : VarbindEncodable(vb)}

\* Lists of varbinds that can be encoded.
Sendable == Seq(SendableVarbinds)

\* Such a list is a chain of buffers,
LEMMA encodeVarbindsType ==
  ASSUME NEW vbs \in Sendable
  PROVE  /\ [i \in DOMAIN vbs |-> encodeVarbind(vbs[i])] \in Chains
         /\ encodeVarbinds(vbs) \in Chain
<1>1. ASSUME NEW i \in 1 .. Len(vbs) PROVE encodeVarbind(vbs[i]) \in Chain
  <2>1. vbs[i] \in VarbindsSent /\ VarbindEncodable(vbs[i])
    BY DEF Sendable, SendableVarbinds
  <2>2. QED
    BY <2>1, encodeVarbindType
<1>2. DOMAIN vbs = 1 .. Len(vbs) /\ Len(vbs) \in Nat
  BY DEF Sendable
<1>3. [i \in DOMAIN vbs |-> encodeVarbind(vbs[i])] \in Seq(Chain)
  BY <1>1, <1>2
<1>4. QED
  BY <1>3, FlattenChains DEF encodeVarbinds, Chains

\* the first varbind and then the others.
LEMMA FirstVarbind ==
  ASSUME NEW vbs \in Sendable, Len(vbs) # 0
  PROVE  /\ vbs[1] \in SendableVarbinds /\ Tail(vbs) \in Sendable
         /\ Len(Tail(vbs)) = Len(vbs) - 1 /\ Len(vbs) - 1 \in Nat
         /\ \A i \in 1 .. Len(vbs) - 1 : Tail(vbs)[i] = vbs[i + 1]
         /\ encodeVarbinds(vbs) = encodeVarbind(vbs[1]) \o encodeVarbinds(Tail(vbs))
<1> DEFINE ws == Tail(vbs)
           e == encodeVarbind(vbs[1])
           s == [i \in DOMAIN vbs |-> encodeVarbind(vbs[i])]
           t == [i \in DOMAIN ws |-> encodeVarbind(ws[i])]
           u == <<e>> \o t
<1>1. /\ vbs[1] \in SendableVarbinds /\ ws \in Sendable /\ Len(ws) = Len(vbs) - 1
      /\ Len(vbs) - 1 \in Nat /\ Len(vbs) \in Nat /\ 1 \in 1 .. Len(vbs)
      /\ \A i \in 1 .. Len(vbs) - 1 : ws[i] = vbs[i + 1]
      /\ DOMAIN vbs = 1 .. Len(vbs) /\ DOMAIN ws = 1 .. Len(vbs) - 1
  BY DEF Sendable
<1> HIDE DEF ws
<1>2. s \in Chains /\ t \in Chains
  BY <1>1, encodeVarbindsType
<1>3. /\ Len(s) = Len(vbs) /\ \A i \in 1 .. Len(vbs) : s[i] = encodeVarbind(vbs[i])
      /\ Len(t) = Len(vbs) - 1 /\ \A i \in 1 .. Len(vbs) - 1 : t[i] = encodeVarbind(vbs[i + 1])
  BY <1>1
<1>4. e \in Chain
  BY <1>1, encodeVarbindType DEF SendableVarbinds
<1> HIDE DEF s, t, e
<1>5. u \in Seq(Chain) /\ Len(u) = Len(vbs) /\ u[1] = e
      /\ \A i \in 2 .. Len(vbs) : u[i] = t[i - 1]
  BY <1>1, <1>2, <1>3, <1>4 DEF Chains
<1> HIDE DEF u
<1>6. ASSUME NEW i \in 1 .. Len(vbs) PROVE s[i] = u[i]
  <2>1. CASE i = 1
    BY <1>1, <1>3, <1>5, <2>1 DEF e
  <2>2. CASE i # 1
    <3>1. i \in 2 .. Len(vbs) /\ i - 1 \in 1 .. Len(vbs) - 1 /\ (i - 1) + 1 = i
      BY <1>1, <2>2
    <3>2. QED
      BY <1>3, <1>5, <3>1
  <2>3. QED
    BY <2>1, <2>2
<1>7. s = u
  BY <1>2, <1>3, <1>5, <1>6, SameSeq DEF Chains
<1>8. FlattenSeq(s) = e \o FlattenSeq(t)
  <2>1. <<e>> \in Chains
    BY <1>4 DEF Chains
  <2>2. QED
    BY <1>2, <1>4, <1>7, <2>1, FlattenChains, Zenon DEF u
<1>9. QED
  BY <1>1, <1>8 DEF encodeVarbinds, s, t, e, ws

\* No varbind is encoded as nothing.
LEMMA VarbindTakesBytes ==
  ASSUME NEW vb \in SendableVarbinds, Len(FlattenSeq(encodeVarbind(vb))) < 127
  PROVE  FlattenSeq(encodeVarbind(vb)) \in Buffer /\ FlattenSeq(encodeVarbind(vb)) # <<>>
<1> DEFINE chain == encodeObjectIdentifier(vb.oid) \o encodeValue(vb)
           d == FlattenSeq(chain)
<1>1. chain \in Chain /\ encodeVarbind(vb) = Block(SEQUENCE, chain)
  BY encodeVarbindType DEF SendableVarbinds, encodeVarbind
<1> HIDE DEF chain
<1>2. d \in Buffer /\ Len(d) < 127
  <2>1. d \in Buffer /\ Len(d) \in Nat /\ Len(FlattenSeq(Block(SEQUENCE, chain))) \in Nat
        /\ Len(d) + 2 <= Len(FlattenSeq(Block(SEQUENCE, chain)))
    BY <1>1, ShorterInside, BlockTypes
  <2>2. QED
    BY <1>1, <2>1
<1>3. FlattenSeq(encodeVarbind(vb)) = ShortForm(SEQUENCE, d)
  BY <1>1, <1>2, ShortFormOf, BlockTypes
<1> HIDE DEF d
<1>4. ShortForm(SEQUENCE, d) \in Buffer /\ Len(ShortForm(SEQUENCE, d)) = Len(d) + 2 /\ Len(d) \in Nat
  BY <1>2, ShortFormType, BlockTypes, BufferFacts
<1>5. Len(ShortForm(SEQUENCE, d)) # 0
  BY <1>4
<1>6. QED
  BY <1>3, <1>4, <1>5, EmptyBuffer

\* Each varbind is as it was sent.
SameVarbinds(vbs, got) ==
  Len(got) = Len(vbs) /\ \A i \in 1 .. Len(vbs) : SameVarbind(vbs[i], got[i])

\* What is read of a list of varbinds.
ListRead(r, vbs) ==
  \/ r = Panic /\ \E i \in 1 .. Len(vbs) : vbs[i].type = INTEGER
  \/ (\E b : r = Error(b)) /\ \E i \in 1 .. Len(vbs) : ~PlainVarbind(vbs[i])
  \/ \E got \in VarbindSeqs :
       r = OK(got, <<>>) /\ ((\A i \in 1 .. Len(vbs) : NamesKept(vbs[i])) => SameVarbinds(vbs, got))

\* One varbind more.
LEMMA OneMoreRead ==
  ASSUME NEW vbs \in Sendable, Len(vbs) # 0, NEW f, NEW bytes \in Buffer,
         NEW vb \in DecodedVarbinds, NEW rest \in Buffer, rest # <<>>,
         NamesKept(vbs[1]) => SameVarbind(vbs[1], vb), decodeVarbind(bytes) = OK(vb, rest),
         ListRead(f[rest], Tail(vbs))
  PROVE  ListRead(ListStep(f, bytes), vbs)
<1> DEFINE ws == Tail(vbs)
           r == f[rest]
           S == ListStep(f, bytes)
<1>1. /\ Len(ws) = Len(vbs) - 1 /\ Len(vbs) - 1 \in Nat /\ Len(vbs) \in Nat
      /\ \A i \in 1 .. Len(ws) : ws[i] = vbs[i + 1] /\ i + 1 \in 1 .. Len(vbs)
      /\ 1 \in 1 .. Len(vbs)
  <2>1. Len(vbs) \in Nat
    BY DEF Sendable
  <2>2. QED
    BY <2>1, FirstVarbind
<1>2. S = IF r.status = "ok" THEN OK(<<vb>> \o r.val, r.rest) ELSE r
  BY ListGoesOn
<1>3. ListRead(r, ws)
  OBVIOUS
<1> HIDE DEF ws, r, S
<1>4. CASE r = Panic /\ \E i \in 1 .. Len(ws) : ws[i].type = INTEGER
  <2>1. S = Panic
    BY <1>2, <1>4, Status
  <2>2. \E i \in 1 .. Len(vbs) : vbs[i].type = INTEGER
    BY <1>1, <1>4
  <2>3. QED
    BY <2>1, <2>2 DEF ListRead, S
<1>5. CASE (\E b : r = Error(b)) /\ \E i \in 1 .. Len(ws) : ~PlainVarbind(ws[i])
  <2>1. \E b : S = Error(b)
    BY <1>2, <1>5, Status
  <2>2. \E i \in 1 .. Len(vbs) : ~PlainVarbind(vbs[i])
    BY <1>1, <1>5
  <2>3. QED
    BY <2>1, <2>2 DEF ListRead, S
<1>6. CASE \E got \in VarbindSeqs :
             r = OK(got, <<>>) /\ ((\A i \in 1 .. Len(ws) : NamesKept(ws[i])) => SameVarbinds(ws, got))
  <2>1. PICK got \in VarbindSeqs :
          r = OK(got, <<>>) /\ ((\A i \in 1 .. Len(ws) : NamesKept(ws[i])) => SameVarbinds(ws, got))
    BY <1>6
  <2> DEFINE all == <<vb>> \o got
  <2>2. S = OK(all, <<>>)
    BY <1>2, <2>1, Status
  <2>3. /\ all \in VarbindSeqs /\ Len(all) = Len(got) + 1 /\ Len(got) \in Nat /\ all[1] = vb
        /\ \A i \in 1 .. Len(got) : all[i + 1] = got[i]
    BY DEF VarbindSeqs
  <2> HIDE DEF all
  <2>4. ASSUME \A i \in 1 .. Len(vbs) : NamesKept(vbs[i]) PROVE SameVarbinds(vbs, all)
    <3>1. Len(got) = Len(ws) /\ \A i \in 1 .. Len(ws) : SameVarbind(ws[i], got[i])
      BY <1>1, <2>1, <2>4 DEF SameVarbinds
    <3>2. Len(all) = Len(vbs)
      BY <1>1, <2>3, <3>1
    <3>3. SameVarbind(vbs[1], all[1])
      BY <1>1, <2>3, <2>4
    <3>4. ASSUME NEW i \in 1 .. Len(vbs), i # 1 PROVE SameVarbind(vbs[i], all[i])
      <4>1. PICK k \in 1 .. Len(ws) : i = k + 1
        <5>1. i - 1 \in 1 .. Len(ws) /\ i = (i - 1) + 1
          BY <1>1, <3>4
        <5>2. QED
          BY <5>1
      <4>2. vbs[i] = ws[k] /\ all[i] = got[k]
        BY <1>1, <2>3, <3>1, <4>1
      <4>3. QED
        BY <3>1, <4>2
    <3>5. QED
      BY <3>2, <3>3, <3>4 DEF SameVarbinds
  <2>5. QED
    BY <2>2, <2>3, <2>4 DEF ListRead, S
<1>7. QED
  BY <1>3, <1>4, <1>5, <1>6 DEF ListRead

\* Every name of every varbind has more than two elements.
AllLong(vbs) == \A i \in 1 .. Len(vbs) : LongNames(vbs[i])

\* What is read of a list: by induction on how many varbinds there are.
LEMMA ListReadBack ==
  ASSUME NEW vbs \in Sendable, Len(vbs) # 0, AllLong(vbs),
         Len(FlattenSeq(encodeVarbinds(vbs))) < 127
  PROVE  ListRead(decodeVarbindList[FlattenSeq(encodeVarbinds(vbs))], vbs)
<1> DEFINE F(s) == FlattenSeq(encodeVarbinds(s))
           S == {n \in Nat : \A s \in Sendable :
                   Len(s) = n /\ n # 0 /\ AllLong(s) /\ Len(F(s)) < 127 =>
                     ListRead(decodeVarbindList[F(s)], s)}
<1>1. ASSUME NEW n \in Nat, \A m \in Nat : m < n => m \in S PROVE n \in S
  <2>1. SUFFICES ASSUME NEW s \in Sendable, Len(s) = n, n # 0, AllLong(s), Len(F(s)) < 127
                 PROVE  ListRead(decodeVarbindList[F(s)], s)
    OBVIOUS
  <2> DEFINE e == FlattenSeq(encodeVarbind(s[1]))
             t == Tail(s)
             rest == F(t)
             r == decodeVarbind(e \o rest)
  <2>2. /\ s[1] \in SendableVarbinds /\ t \in Sendable /\ Len(t) = n - 1 /\ n - 1 \in Nat
        /\ \A i \in 1 .. n - 1 : t[i] = s[i + 1]
        /\ encodeVarbinds(s) = encodeVarbind(s[1]) \o encodeVarbinds(t)
    BY <2>1, FirstVarbind
  <2>3. encodeVarbind(s[1]) \in Chain /\ encodeVarbinds(t) \in Chain
    BY <2>2, encodeVarbindType, encodeVarbindsType DEF SendableVarbinds
  <2>4. e \in Buffer /\ rest \in Buffer /\ F(s) = e \o rest
    BY <2>2, <2>3, FlattenType, FlattenConcat
  <2>5. /\ e \o rest \in Buffer /\ Len(e \o rest) = Len(e) + Len(rest)
        /\ Len(e) \in Nat /\ Len(rest) \in Nat
    BY <2>4, BufferFacts
  <2>6. Len(e) < 127 /\ Len(rest) < 127
    BY <2>1, <2>4, <2>5
  <2>7. decodeVarbindList[F(s)] = ListStep(decodeVarbindList, e \o rest)
    BY <2>4, <2>5, VarbindListFunction
  <2>8. LongNames(s[1]) /\ AllLong(t) /\ 1 \in 1 .. Len(s)
    <3>1. 1 \in 1 .. Len(s) /\ \A i \in 1 .. n - 1 : i + 1 \in 1 .. Len(s)
      BY <2>1
    <3>2. QED
      BY <2>1, <2>2, <3>1 DEF AllLong
  <2>9. VarbindRead(r, s[1], rest)
    BY <2>2, <2>4, <2>6, <2>8, VarbindReadBack DEF SendableVarbinds
  <2>10. Advances(r, DecodedVarbinds, Len(e \o rest))
    BY <2>5, decodeVarbindType
  <2>11. rest # <<>> => n - 1 # 0
    <3>1. SUFFICES ASSUME n - 1 = 0 PROVE rest = <<>>
      OBVIOUS
    <3>2. encodeVarbinds(t) = <<>>
      <4>1. DOMAIN t = {}
        <5>1. Len(t) = 0 /\ t \in Sendable
          BY <2>2, <3>1
        <5> HIDE DEF t
        <5>2. QED
          BY <5>1 DEF Sendable
      <4>2. [i \in DOMAIN t |-> encodeVarbind(t[i])] = <<>>
        BY <4>1
      <4>3. QED
        BY <4>2, FlattenEmpty DEF encodeVarbinds
    <3>3. QED
      BY <3>2, FlattenEmpty
  <2>12. rest = <<>> => n - 1 = 0
    <3>1. SUFFICES ASSUME n - 1 # 0 PROVE rest # <<>>
      OBVIOUS
    <3> DEFINE a == FlattenSeq(encodeVarbind(t[1]))
               b == F(Tail(t))
    <3>2. /\ t[1] \in SendableVarbinds /\ Tail(t) \in Sendable
          /\ encodeVarbinds(t) = encodeVarbind(t[1]) \o encodeVarbinds(Tail(t))
      BY <2>2, <3>1, FirstVarbind
    <3>3. encodeVarbind(t[1]) \in Chain /\ encodeVarbinds(Tail(t)) \in Chain
      BY <3>2, encodeVarbindType, encodeVarbindsType DEF SendableVarbinds
    <3>4. a \in Buffer /\ b \in Buffer /\ rest = a \o b
      BY <3>2, <3>3, FlattenType, FlattenConcat
    <3>5. Len(a \o b) = Len(a) + Len(b) /\ Len(a) \in Nat /\ Len(b) \in Nat
      BY <3>4, BufferFacts
    <3> HIDE DEF a, b, rest
    <3>6. Len(a) < 127
      BY <2>6, <3>4, <3>5
    <3>7. a # <<>>
      BY <3>2, <3>6, VarbindTakesBytes DEF a
    <3>8. Len(a) > 0
      BY <3>4, <3>7, BufferFacts
    <3>9. Len(rest) # 0
      BY <3>4, <3>5, <3>8
    <3>10. QED
      BY <3>9, EmptyBuffer
  <2> HIDE DEF e, t, rest, r, F
  <2>13. CASE s[1].type = INTEGER /\ r = Panic
    <3>1. decodeVarbindList[F(s)] = Panic
      BY <2>7, <2>13, ListStops, Status DEF r
    <3>2. QED
      BY <2>8, <2>13, <3>1 DEF ListRead
  <2>14. CASE ~PlainVarbind(s[1]) /\ \E b : r = Error(b)
    <3>1. \E b : decodeVarbindList[F(s)] = Error(b)
      BY <2>7, <2>14, ListStops, Status DEF r
    <3>2. QED
      BY <2>8, <2>14, <3>1 DEF ListRead
  <2>15. CASE \E got : r = OK(got, rest) /\ (NamesKept(s[1]) => SameVarbind(s[1], got))
    <3>1. PICK got : r = OK(got, rest) /\ (NamesKept(s[1]) => SameVarbind(s[1], got))
      BY <2>15
    <3>2. got \in DecodedVarbinds
      <4>1. \E v \in DecodedVarbinds, b \in Buffer : r = OK(v, b) /\ Len(b) < Len(e \o rest)
        BY <2>10, <3>1, AdvancesOK, Status
      <4>2. r.val = got
        BY <3>1, Status
      <4>3. QED
        BY <4>1, <4>2, Status
    <3>3. CASE rest = <<>>
      <4> DEFINE one == <<got>>
      <4>1. decodeVarbindList[F(s)] = OK(one, <<>>)
        BY <2>7, <3>1, <3>3, ListGoesOn DEF r
      <4>2. one \in VarbindSeqs /\ Len(one) = 1 /\ one[1] = got
        BY <3>2 DEF VarbindSeqs
      <4>3. Len(s) = 1
        BY <2>1, <2>12, <3>3
      <4> HIDE DEF one
      <4>4. ASSUME \A i \in 1 .. Len(s) : NamesKept(s[i]) PROVE SameVarbinds(s, one)
        <5>1. SameVarbind(s[1], one[1])
          BY <2>8, <3>1, <4>2, <4>4
        <5>2. \A i \in 1 .. Len(s) : i = 1
          BY <4>3
        <5>3. QED
          BY <4>2, <4>3, <5>1, <5>2 DEF SameVarbinds
      <4>5. QED
        BY <4>1, <4>2, <4>4 DEF ListRead
    <3>4. CASE rest # <<>>
      <4>1. ListRead(decodeVarbindList[rest], t)
        <5>1. n - 1 \in S
          <6>1. n - 1 < n
            OBVIOUS
          <6>2. QED
            BY <1>1, <2>2, <6>1
        <5>2. n - 1 # 0 /\ Len(F(t)) < 127
          BY <2>6, <2>11, <3>4 DEF rest
        <5>3. QED
          BY <2>2, <2>8, <5>1, <5>2 DEF rest
      <4>2. Len(s) # 0
        BY <2>1
      <4> HIDE DEF S
      <4>3. ListRead(ListStep(decodeVarbindList, e \o rest), s)
        BY <2>4, <2>5, <3>1, <3>2, <3>4, <4>1, <4>2, OneMoreRead DEF r, t
      <4>4. QED
        BY <2>7, <4>3
    <3>5. QED
      BY <3>3, <3>4
  <2>16. QED
    BY <2>9, <2>13, <2>14, <2>15 DEF VarbindRead
<1> HIDE DEF S
<1>2. Nat \subseteq S
  BY <1>1, SetInduction, Zenon
<1>3. Len(vbs) \in S
  BY <1>2 DEF Sendable
<1>4. QED
  BY <1>3 DEF S

-----------------------------------------------------------------------------
(***************************************************************************)
(* A message.                                                              *)
(***************************************************************************)

\* The types of PDU that are sent.
SentPduTypes == {GET_REQUEST, GET_NEXT_REQUEST, SET_REQUEST, RESPONSE}

\* What is composed, of the varbinds in X.
Composed(X) ==
  [version : {0, 1}, community : Buffer, pduType : SentPduTypes, id : Uint31,
   errorVal : 0 .. SnmpRequestErrorType_MAX, errorIdx : Int32, varbinds : Seq(X)]

\* Messages that can be encoded.
SendableMessages == Composed(SendableVarbinds)

\* The integers of a message have at most four bytes.
LEMMA FourBytes ==
  /\ \A v \in Int32 : v \in Int /\ v \div Power256(3) \in -128 .. 127
  /\ \A v \in Uint31 : v \in Int /\ v \in Nat /\ v \div Power256(3) \in -128 .. 127
  /\ \A v \in 0 .. SnmpRequestErrorType_MAX : v \in Int /\ v \div Power256(3) \in -128 .. 127
  /\ \A v \in {0, 1} : v \in Int /\ v \div Power256(3) \in -128 .. 127
<1>1. Power256(3) = 16777216
  BY Powers
<1>2. \A v \in Int32 : v \in Int /\ v \div 16777216 \in -128 .. 127
  BY SMT DEF Int32
<1>3. \A v \in Uint31 : v \in Int /\ v \in Nat /\ v \div 16777216 \in -128 .. 127
  BY SMT DEF Uint31
<1>4. \A v \in 0 .. 18 : v \in Int /\ v \div 16777216 \in -128 .. 127
  BY SMT
<1>5. \A v \in {0, 1} : v \in 0 .. 18
  OBVIOUS
<1>6. QED
  BY <1>1, <1>2, <1>3, <1>4, <1>5 DEF SnmpRequestErrorType_MAX

\* The bytes of a number in a message.
IntegerBytes(v) == FlattenSeq(encodeInteger(v))

\* An integer in a header is read back in front of any bytes.
LEMMA IntegerBytesRead ==
  ASSUME NEW v \in Int, v \div Power256(3) \in -128 .. 127
  PROVE  /\ IntegerBytes(v) \in Buffer
         /\ \A rest \in Buffer : decodeIntegerWithHeader(IntegerBytes(v) \o rest) = OK(v, rest)
<1>1. encodeInteger(v) \in Chain
  BY encodeIntegerType
<1>2. QED
  BY <1>1, FlattenType, IntegerReadBack DEF IntegerBytes

\* The bytes of the list of varbinds,
VarbindBytes(m) == FlattenSeq(encodeVarbinds(m.varbinds))

\* The bytes inside the block of the PDU and inside that of the message.
PduBytes(m) ==
  IntegerBytes(m.id) \o (IntegerBytes(m.errorVal) \o (IntegerBytes(m.errorIdx)
    \o ShortForm(SEQUENCE, VarbindBytes(m))))

\* and of the message within its block.
MessageBytes(m) ==
  IntegerBytes(m.version) \o (ShortForm(OCTET_STRING, m.community)
    \o ShortForm(m.pduType, PduBytes(m)))

\* Each field of a message can be encoded.
LEMMA ComposedFields ==
  ASSUME NEW m \in SendableMessages
  PROVE  /\ IntegerBytes(m.version) \in Buffer /\ IntegerBytes(m.id) \in Buffer
         /\ IntegerBytes(m.errorVal) \in Buffer /\ IntegerBytes(m.errorIdx) \in Buffer
         /\ encodeInteger(m.version) \in Chain /\ encodeInteger(m.id) \in Chain
         /\ encodeInteger(m.errorVal) \in Chain /\ encodeInteger(m.errorIdx) \in Chain
         /\ m.community \in Buffer /\ encodeOctetString(m.community) \in Chain
         /\ m.pduType \in Bytes /\ m.varbinds \in Sendable /\ encodeVarbinds(m.varbinds) \in Chain
<1>1. /\ m.version \in {0, 1} /\ m.community \in Buffer /\ m.pduType \in SentPduTypes
      /\ m.id \in Uint31 /\ m.errorVal \in 0 .. SnmpRequestErrorType_MAX /\ m.errorIdx \in Int32
      /\ m.varbinds \in Sendable
  BY DEF SendableMessages, Composed, Sendable
<1>2. m.version \in Int /\ m.id \in Int /\ m.errorVal \in Int /\ m.errorIdx \in Int
  BY <1>1, FourBytes
<1>3. /\ encodeInteger(m.version) \in Chain /\ encodeInteger(m.id) \in Chain
      /\ encodeInteger(m.errorVal) \in Chain /\ encodeInteger(m.errorIdx) \in Chain
  BY <1>2, encodeIntegerType
<1>4. /\ IntegerBytes(m.version) \in Buffer /\ IntegerBytes(m.id) \in Buffer
      /\ IntegerBytes(m.errorVal) \in Buffer /\ IntegerBytes(m.errorIdx) \in Buffer
  BY <1>3, FlattenType DEF IntegerBytes
<1>5. encodeOctetString(m.community) \in Chain
  BY <1>1, OneBuffer, BlockType, BlockTypes DEF encodeOctetString
<1>6. m.pduType \in Bytes
  BY <1>1 DEF SentPduTypes, GET_REQUEST, GET_NEXT_REQUEST, SET_REQUEST, RESPONSE, Bytes
<1>7. encodeVarbinds(m.varbinds) \in Chain
  BY <1>1, encodeVarbindsType
<1>8. QED
  BY <1>1, <1>3, <1>4, <1>5, <1>6, <1>7

\* The blocks of a message, the last one inside the others.
VarbindsBlock(m) == Block(SEQUENCE, encodeVarbinds(m.varbinds))

\* The block of the PDU within the message.
PduBlock(m) == Block(m.pduType, PduControlFields(m) \o VarbindsBlock(m))

\* encode writes a chain of buffers.
LEMMA encodeType ==
  ASSUME NEW m \in SendableMessages
  PROVE  /\ VarbindsBlock(m) \in Chain /\ PduControlFields(m) \in Chain
         /\ PduControlFields(m) \o VarbindsBlock(m) \in Chain
         /\ PduBlock(m) \in Chain /\ HeaderFields(m) \in Chain
         /\ HeaderFields(m) \o PduBlock(m) \in Chain
         /\ encode(m) \in Chain /\ encode(m) = Block(SEQUENCE, HeaderFields(m) \o PduBlock(m))
<1>1. VarbindsBlock(m) \in Chain
  BY ComposedFields, BlockType, BlockTypes DEF VarbindsBlock
<1>2. encodeInteger(m.id) \o encodeInteger(m.errorVal) \in Chain
  BY ComposedFields, ChainConcat
<1>3. PduControlFields(m) \in Chain
  BY <1>2, ComposedFields, ChainConcat DEF PduControlFields
<1>4. PduControlFields(m) \o VarbindsBlock(m) \in Chain
  BY <1>1, <1>3, ChainConcat
<1>5. PduBlock(m) \in Chain
  BY <1>4, ComposedFields, BlockType DEF PduBlock
<1>6. HeaderFields(m) \in Chain
  BY ComposedFields, ChainConcat DEF HeaderFields
<1>7. HeaderFields(m) \o PduBlock(m) \in Chain
  BY <1>5, <1>6, ChainConcat
<1>8. encode(m) = Block(SEQUENCE, HeaderFields(m) \o PduBlock(m))
  BY DEF encode, PduBlock, VarbindsBlock
<1>9. QED
  BY <1>1, <1>3, <1>4, <1>5, <1>6, <1>7, <1>8, BlockType, BlockTypes

\* A message is short when its contents are.
ShortMessage(m) ==
  /\ Len(VarbindBytes(m)) < 127 /\ Len(PduBytes(m)) < 127 /\ Len(m.community) < 127
  /\ Len(MessageBytes(m)) < 127
  /\ VarbindBytes(m) \in Buffer /\ PduBytes(m) \in Buffer /\ MessageBytes(m) \in Buffer
  /\ FlattenSeq(encode(m)) = ShortForm(SEQUENCE, MessageBytes(m))

\* If the message is short, so is all that it holds.
LEMMA ShortMessages ==
  ASSUME NEW m \in SendableMessages, Len(FlattenSeq(encode(m))) - 2 < 127
  PROVE  ShortMessage(m)
<1> DEFINE B == FlattenSeq(HeaderFields(m) \o PduBlock(m))
           C == FlattenSeq(encodeOctetString(m.community))
           Q == FlattenSeq(PduBlock(m))
           P == FlattenSeq(PduControlFields(m) \o VarbindsBlock(m))
           W == FlattenSeq(VarbindsBlock(m))
           V == VarbindBytes(m)
           i1 == IntegerBytes(m.version)
           i2 == IntegerBytes(m.id)
           i3 == IntegerBytes(m.errorVal)
           i4 == IntegerBytes(m.errorIdx)
<1>1. /\ B \in Buffer /\ C \in Buffer /\ Q \in Buffer /\ P \in Buffer /\ W \in Buffer /\ V \in Buffer
      /\ i1 \in Buffer /\ i2 \in Buffer /\ i3 \in Buffer /\ i4 \in Buffer
  BY ComposedFields, encodeType, FlattenType DEF VarbindBytes
<1>2. B = (i1 \o C) \o Q
  <2>1. FlattenSeq(HeaderFields(m)) = i1 \o C
    BY ComposedFields, FlattenConcat DEF HeaderFields, IntegerBytes
  <2>2. B = FlattenSeq(HeaderFields(m)) \o Q
    BY encodeType, FlattenConcat
  <2>3. QED
    BY <2>1, <2>2
<1>3. P = ((i2 \o i3) \o i4) \o W
  <2>1. encodeInteger(m.id) \o encodeInteger(m.errorVal) \in Chain
    BY ComposedFields, ChainConcat
  <2>2. FlattenSeq(encodeInteger(m.id) \o encodeInteger(m.errorVal)) = i2 \o i3
    BY ComposedFields, FlattenConcat DEF IntegerBytes
  <2>3. FlattenSeq(PduControlFields(m)) = (i2 \o i3) \o i4
    BY <2>1, <2>2, ComposedFields, FlattenConcat DEF PduControlFields, IntegerBytes
  <2>4. P = FlattenSeq(PduControlFields(m)) \o W
    BY encodeType, FlattenConcat
  <2>5. QED
    BY <2>3, <2>4
<1> HIDE DEF B, C, Q, P, W, V, i1, i2, i3, i4
<1>4. B = i1 \o (C \o Q)
  <2>1. (i1 \o C) \o Q = i1 \o (C \o Q)
    <3>1. i1 \in Buffer /\ C \in Buffer /\ Q \in Buffer
      BY <1>1
    <3>2. QED
      BY <3>1, BufferAssociative, Zenon
  <2>2. QED
    BY <1>2, <2>1, Zenon
<1>5. P = i2 \o (i3 \o (i4 \o W))
  <2>1. i2 \o i3 \in Buffer /\ i4 \o W \in Buffer
    BY <1>1, BufferFacts
  <2> DEFINE k == i2 \o i3
             l == i4 \o W
  <2>2. k \in Buffer /\ l \in Buffer
    BY <2>1
  <2>3. i2 \in Buffer /\ i3 \in Buffer /\ i4 \in Buffer /\ W \in Buffer
    BY <1>1
  <2>4. (i2 \o i3) \o l = i2 \o (i3 \o l)
    <3>1. i2 \in Buffer /\ i3 \in Buffer /\ l \in Buffer
      BY <2>2, <2>3
    <3> HIDE DEF l
    <3>2. QED
      BY <3>1, BufferAssociative, Zenon
  <2>5. (k \o i4) \o W = k \o (i4 \o W)
    <3>1. k \in Buffer /\ i4 \in Buffer /\ W \in Buffer
      BY <2>2, <2>3
    <3> HIDE DEF k
    <3>2. QED
      BY <3>1, BufferAssociative, Zenon
  <2>6. QED
    BY <1>3, <2>4, <2>5, Zenon
<1>6. C \o Q \in Buffer /\ i4 \o W \in Buffer /\ i3 \o (i4 \o W) \in Buffer
  BY <1>1, BufferFacts
<1> USE DEF B
<1>7. Len(B) < 127 /\ FlattenSeq(encode(m)) = ShortForm(SEQUENCE, B)
  <2>1. HeaderFields(m) \o PduBlock(m) \in Chain
        /\ encode(m) = Block(SEQUENCE, HeaderFields(m) \o PduBlock(m))
    BY encodeType
  <2>2. /\ Len(B) \in Nat /\ Len(FlattenSeq(encode(m))) \in Nat
        /\ Len(B) + 2 <= Len(FlattenSeq(encode(m)))
    BY <2>1, ShorterInside, BlockTypes
  <2>3. Len(B) < 127
    BY <2>2
  <2>4. QED
    BY <2>1, <2>3, ShortFormOf, BlockTypes
<1> HIDE DEF B
<1>8. Len(C) < 127 /\ Len(Q) < 127
  <2>1. Len(C \o Q) < 127
    BY <1>1, <1>4, <1>6, <1>7, LongerThanParts
  <2>2. QED
    BY <1>1, <2>1, LongerThanParts
<1>9. C = ShortForm(OCTET_STRING, m.community) /\ Len(m.community) < 127
  BY <1>8, ComposedFields, FormOfBlock, BlockTypes DEF C, encodeOctetString
<1>10. Len(P) < 127 /\ Q = ShortForm(m.pduType, P)
  <2>1. Len(P) < 127
    BY <1>8, ComposedFields, encodeType, LongerOutside DEF P, Q, PduBlock
  <2>2. QED
    BY <2>1, ComposedFields, encodeType, ShortFormOf DEF P, Q, PduBlock
<1>11. Len(W) < 127
  <2>1. Len(i3 \o (i4 \o W)) < 127
    BY <1>1, <1>5, <1>6, <1>10, LongerThanParts
  <2>2. Len(i4 \o W) < 127
    BY <1>1, <1>6, <2>1, LongerThanParts
  <2>3. QED
    BY <1>1, <2>2, LongerThanParts
<1>12. Len(V) < 127 /\ W = ShortForm(SEQUENCE, V)
  <2>1. Len(V) < 127
    BY <1>11, ComposedFields, LongerOutside, BlockTypes DEF V, W, VarbindsBlock, VarbindBytes
  <2>2. QED
    BY <2>1, ComposedFields, ShortFormOf, BlockTypes DEF V, W, VarbindsBlock, VarbindBytes
<1>13. P = PduBytes(m)
  BY <1>5, <1>12 DEF PduBytes, V, i2, i3, i4
<1>14. B = MessageBytes(m)
  BY <1>4, <1>9, <1>10, <1>13 DEF MessageBytes, i1
<1>15. QED
  BY <1>1, <1>7, <1>9, <1>10, <1>12, <1>13, <1>14 DEF ShortMessage, V

\* A request id is received as it was sent.
LEMMA Uint32ReadBack ==
  ASSUME NEW v \in Uint31, NEW rest \in Buffer
  PROVE  decodeUint32WithHeader(IntegerBytes(v) \o rest) = OK(v, rest)
<1>1. decodeIntegerWithHeader(IntegerBytes(v) \o rest) = OK(v, rest)
  BY FourBytes, IntegerBytesRead
<1>2. ~(v < 0)
  BY FourBytes
<1>3. QED
  BY <1>1, <1>2 DEF decodeUint32WithHeader, Then, OK

\* The message that is received with the varbinds of r.
WithVarbinds(m, r) ==
  Then(r, LAMBDA vbs, rest :
    OK(Message(m.version, m.community, m.pduType, m.id, m.errorVal, m.errorIdx, vbs), rest))

\* A PDU is received with its fields as they were sent, and the varbinds that
\* decodeVarbindList makes of their bytes,
LEMMA PduReadBack ==
  ASSUME NEW m \in SendableMessages, ShortMessage(m),
         NEW h, h.version = m.version, h.community = m.community, h.pduType = m.pduType
  PROVE  decode(h, PduBytes(m)) = WithVarbinds(m, decodeVarbindList[VarbindBytes(m)])
<1> DEFINE w == ShortForm(SEQUENCE, VarbindBytes(m))
           r2 == IntegerBytes(m.errorIdx) \o w
           r1 == IntegerBytes(m.errorVal) \o r2
<1>1. /\ m.id \in Uint31 /\ m.errorVal \in 0 .. SnmpRequestErrorType_MAX /\ m.errorIdx \in Int32
  BY DEF SendableMessages, Composed
<1>2. VarbindBytes(m) \in Buffer /\ Len(VarbindBytes(m)) < 127
  BY DEF ShortMessage
<1>3. w \in Buffer
  BY <1>2, ShortFormType, BlockTypes
<1>4. r2 \in Buffer
  BY <1>3, ComposedFields, BufferFacts
<1>5. r1 \in Buffer
  BY <1>4, ComposedFields, BufferFacts
<1>6. decodeUint32WithHeader(PduBytes(m)) = OK(m.id, r1)
  BY <1>1, <1>5, Uint32ReadBack DEF PduBytes
<1>7. decodeInt32WithHeader(r1) = OK(m.errorVal, r2)
  <2>1. m.errorVal \in Int /\ m.errorVal \div Power256(3) \in -128 .. 127
    BY <1>1, FourBytes
  <2>2. QED
    BY <1>4, <2>1, IntegerBytesRead DEF decodeInt32WithHeader
<1>8. decodeInt32WithHeader(r2) = OK(m.errorIdx, w)
  <2>1. m.errorIdx \in Int /\ m.errorIdx \div Power256(3) \in -128 .. 127
    BY <1>1, FourBytes
  <2>2. QED
    BY <1>3, <2>1, IntegerBytesRead DEF decodeInt32WithHeader
<1>9. decodeVarbinds(w) = decodeVarbindList[VarbindBytes(m)]
  <2>1. decodeHeaderOf(SEQUENCE, w) = OK(Len(VarbindBytes(m)), VarbindBytes(m))
    BY <1>2, LastHeader, BlockTypes
  <2>2. QED
    BY <2>1 DEF decodeVarbinds, Then, OK
<1>10. ~(m.errorVal > SnmpRequestErrorType_MAX)
  BY <1>1 DEF SnmpRequestErrorType_MAX
<1> HIDE DEF w, r1, r2
<1>11. decode(h, PduBytes(m)) =
         Then(decodeInt32WithHeader(r1), LAMBDA errorVal, r3 :
           IF errorVal > SnmpRequestErrorType_MAX THEN Error(r3)
           ELSE Then(decodeInt32WithHeader(r3), LAMBDA errorIdx, r4 :
                  Then(decodeVarbinds(r4), LAMBDA vbs, r5 :
                    OK(Message(h.version, h.community, h.pduType, m.id, errorVal, errorIdx, vbs),
                       r5))))
  BY <1>6 DEF decode, Then, OK
<1>12. decode(h, PduBytes(m)) =
         Then(decodeInt32WithHeader(r2), LAMBDA errorIdx, r4 :
           Then(decodeVarbinds(r4), LAMBDA vbs, r5 :
             OK(Message(h.version, h.community, h.pduType, m.id, m.errorVal, errorIdx, vbs), r5)))
  BY <1>7, <1>10, <1>11 DEF Then, OK
<1>13. decode(h, PduBytes(m)) =
         Then(decodeVarbinds(w), LAMBDA vbs, r5 :
           OK(Message(h.version, h.community, h.pduType, m.id, m.errorVal, m.errorIdx, vbs), r5))
  BY <1>8, <1>12 DEF Then, OK
<1>14. QED
  BY <1>9, <1>13 DEF WithVarbinds, Then

\* Of a message in short form, decodeMsg takes every field as encode wrote it,
\* and what is left to ask is what decodeVarbindList makes of the bytes of the
\* varbinds (encode and decodeMsg).
THEOREM MessageReadBack ==
  ASSUME NEW m \in SendableMessages, ShortMessage(m)
  PROVE  decodeMsg(FlattenSeq(encode(m))) = WithVarbinds(m, decodeVarbindList[VarbindBytes(m)])
<1> DEFINE M == MessageBytes(m)
           P == PduBytes(m)
           p == ShortForm(m.pduType, P)
           c == ShortForm(OCTET_STRING, m.community) \o p
           h == [version |-> m.version, community |-> m.community, pduType |-> m.pduType]
<1>1. /\ M \in Buffer /\ Len(M) < 127 /\ P \in Buffer /\ Len(P) < 127 /\ Len(m.community) < 127
      /\ FlattenSeq(encode(m)) = ShortForm(SEQUENCE, M)
  BY DEF ShortMessage
<1>2. m.community \in Buffer /\ m.pduType \in Bytes
  BY ComposedFields
<1>3. p \in Buffer
  BY <1>1, <1>2, ShortFormType
<1>4. c \in Buffer
  <2>1. ShortForm(OCTET_STRING, m.community) \in Buffer
    BY <1>1, <1>2, ShortFormType, BlockTypes
  <2>2. QED
    BY <1>3, <2>1, BufferFacts
<1>5. decodeHeaderOf(SEQUENCE, ShortForm(SEQUENCE, M)) = OK(Len(M), M)
  BY <1>1, LastHeader, BlockTypes
<1>6. m.version \in {0, 1}
  BY DEF SendableMessages, Composed
<1>7. decodeIntegerWithHeader(M) = OK(m.version, c)
  BY <1>4, <1>6, FourBytes, IntegerBytesRead DEF MessageBytes
<1>8. decodeOctetStringWithHeader(c) = OK(m.community, p)
  BY <1>1, <1>2, <1>3, OctetStringReadBack
<1>9. decodeHeader(p) = OK([type |-> m.pduType, length |-> Len(P)], P)
  BY <1>1, <1>2, LastHeader
<1>10. m.pduType \in AcceptedPduTypes(m.version) /\ m.pduType # V1_TRAP
  <2>1. m.pduType \in SentPduTypes
    BY DEF SendableMessages, Composed
  <2>2. QED
    BY <2>1 DEF SentPduTypes, AcceptedPduTypes, GET_REQUEST, GET_NEXT_REQUEST, SET_REQUEST,
                RESPONSE, V1_TRAP
<1>11. decode(h, P) = WithVarbinds(m, decodeVarbindList[VarbindBytes(m)])
  <2>1. h.version = m.version /\ h.community = m.community /\ h.pduType = m.pduType
    OBVIOUS
  <2> HIDE DEF h
  <2>2. QED
    BY <2>1, PduReadBack
<1> HIDE DEF M, P, p, c
<1>12. decodeMsg(ShortForm(SEQUENCE, M)) = decodeCommunityMessage(m.version, c)
  BY <1>5, <1>6, <1>7 DEF decodeMsg, Then, OK
<1>13. decodeCommunityMessage(m.version, c) = decode(h, P)
  <2> DEFINE pdu == [type |-> m.pduType, length |-> Len(P)]
  <2>1. pdu.type = m.pduType /\ pdu.length = Len(P)
    OBVIOUS
  <2>2. decodeHeader(p) = OK(pdu, P)
    BY <1>9
  <2> HIDE DEF pdu
  <2>3. decodeCommunityMessage(m.version, c) =
          Then(decodeHeader(p), LAMBDA q, r2 :
            LET g == [version |-> m.version, community |-> m.community, pduType |-> q.type]
            IN IF q.length # Len(r2) \/ q.type \notin AcceptedPduTypes(m.version) THEN Error(r2)
               ELSE IF q.type = V1_TRAP
               THEN OK(Message(m.version, m.community, q.type, 0, 0, 0, <<>>), r2)
               ELSE decode(g, r2))
    BY <1>8 DEF decodeCommunityMessage, Then, OK
  <2>4. QED
    BY <1>10, <2>1, <2>2, <2>3 DEF Then, OK
<1>14. QED
  BY <1>1, <1>11, <1>12, <1>13

\* The message with the varbinds that were received.
WithGot(m, got) ==
  Message(m.version, m.community, m.pduType, m.id, m.errorVal, m.errorIdx, got)

\* What is read of a message.
MessageRead(r, m) ==
  \/ r.status = "panic" /\ \E i \in 1 .. Len(m.varbinds) : m.varbinds[i].type = INTEGER
  \/ r.status = "error" /\ \E i \in 1 .. Len(m.varbinds) : ~PlainVarbind(m.varbinds[i])
  \/ /\ r.status = "ok"
     /\ (\A i \in 1 .. Len(m.varbinds) : NamesKept(m.varbinds[i])) => SameMessage(m, r.val)

\* It is the same message if they are the same varbinds.
LEMMA SameMessages ==
  ASSUME NEW m \in SendableMessages, NEW got, SameVarbinds(m.varbinds, got)
  PROVE  SameMessage(m, WithGot(m, got))
<1> DEFINE g == WithGot(m, got)
<1>1. /\ g.version = m.version /\ g.community = m.community /\ g.pduType = m.pduType
      /\ g.id = m.id /\ g.errorVal = m.errorVal /\ g.errorIdx = m.errorIdx /\ g.varbinds = got
  BY DEF WithGot, Message
<1>2. DOMAIN m.varbinds = 1 .. Len(m.varbinds)
  BY ComposedFields DEF Sendable
<1> HIDE DEF g
<1>3. QED
  BY <1>1, <1>2 DEF SameMessage, SameVarbinds, g

\* What is received of a message of one varbind or more: a panic, an error or
\* the message that was sent.
LEMMA FilledMessageRead ==
  ASSUME NEW m \in SendableMessages, Len(FlattenSeq(encode(m))) - 2 < 127,
         Len(m.varbinds) # 0, AllLong(m.varbinds)
  PROVE  MessageRead(decodeMsg(FlattenSeq(encode(m))), m)
<1> DEFINE r == decodeMsg(FlattenSeq(encode(m)))
           l == decodeVarbindList[VarbindBytes(m)]
           vbs == m.varbinds
<1>1. ShortMessage(m)
  BY ShortMessages
<1>2. r = WithVarbinds(m, l)
  BY <1>1, MessageReadBack
<1>3. ListRead(l, vbs)
  <2>1. vbs \in Sendable /\ Len(FlattenSeq(encodeVarbinds(vbs))) < 127
    BY <1>1, ComposedFields DEF ShortMessage, VarbindBytes
  <2>2. QED
    BY <2>1, ListReadBack DEF VarbindBytes
<1> HIDE DEF r, l
<1>4. CASE l = Panic /\ \E i \in 1 .. Len(vbs) : vbs[i].type = INTEGER
  <2>1. r.status = "panic"
    BY <1>2, <1>4, Status DEF WithVarbinds, Then
  <2>2. QED
    BY <1>4, <2>1 DEF MessageRead, r
<1>5. CASE (\E b : l = Error(b)) /\ \E i \in 1 .. Len(vbs) : ~PlainVarbind(vbs[i])
  <2>1. r.status = "error"
    BY <1>2, <1>5, Status DEF WithVarbinds, Then
  <2>2. QED
    BY <1>5, <2>1 DEF MessageRead, r
<1>6. CASE \E got \in VarbindSeqs :
        l = OK(got, <<>>) /\ ((\A i \in 1 .. Len(vbs) : NamesKept(vbs[i])) => SameVarbinds(vbs, got))
  <2>1. PICK got \in VarbindSeqs :
        l = OK(got, <<>>) /\ ((\A i \in 1 .. Len(vbs) : NamesKept(vbs[i])) => SameVarbinds(vbs, got))
    BY <1>6
  <2>2. r = OK(WithGot(m, got), <<>>)
    BY <1>2, <2>1 DEF WithVarbinds, Then, OK, WithGot
  <2>3. r.status = "ok" /\ r.val = WithGot(m, got)
    BY <2>2, Status
  <2>4. (\A i \in 1 .. Len(vbs) : NamesKept(vbs[i])) => SameMessage(m, r.val)
    BY <2>1, <2>3, SameMessages
  <2>5. QED
    BY <2>3, <2>4 DEF MessageRead, r
<1>7. QED
  BY <1>3, <1>4, <1>5, <1>6 DEF ListRead

\* A message without varbinds is an error.
LEMMA EmptyMessageRead ==
  ASSUME NEW m \in SendableMessages, Len(FlattenSeq(encode(m))) - 2 < 127, m.varbinds = <<>>
  PROVE  decodeMsg(FlattenSeq(encode(m))).status = "error"
<1>1. decodeMsg(FlattenSeq(encode(m))) = WithVarbinds(m, decodeVarbindList[VarbindBytes(m)])
  BY ShortMessages, MessageReadBack
<1>2. VarbindBytes(m) = <<>>
  <2>1. [i \in DOMAIN <<>> |-> encodeVarbind(<<>>[i])] = <<>>
    OBVIOUS
  <2>2. encodeVarbinds(<<>>) = <<>>
    BY <2>1, FlattenEmpty DEF encodeVarbinds
  <2>3. QED
    BY <2>2, FlattenEmpty DEF VarbindBytes
<1>3. decodeVarbind(<<>>) = Error(<<>>)
  <2>1. decodeHeaderOf(SEQUENCE, <<>>) = Error(<<>>)
    BY DEF decodeHeaderOf, decodeHeader, ReadByte, Then, Error
  <2>2. decodeHeaderOf(SEQUENCE, <<>>).status # "ok"
    BY <2>1, Status
  <2>3. decodeVarbind(<<>>) = decodeHeaderOf(SEQUENCE, <<>>)
    BY <2>2 DEF decodeVarbind, Then
  <2>4. QED
    BY <2>1, <2>3
<1>4. decodeVarbindList[<<>>] = Error(<<>>)
  BY <1>3, VarbindListFunction, EmptyBuffer, ListStops, Status
<1>5. WithVarbinds(m, Error(<<>>)) = Error(<<>>)
  BY Status DEF WithVarbinds, Then
<1>6. QED
  BY <1>1, <1>2, <1>4, <1>5, Status

-----------------------------------------------------------------------------
(***************************************************************************)
(* The states of the codec: composition.                                   *)
(***************************************************************************)

\* The messages that are composed, whether or not they can be encoded.
ComposedMessages == Composed(VarbindsSent)

\* Buffers in the pool are empty.
EmptyBuffers == Seq({<<>>})

\* The inductive invariant: the message and the buffers are of their types, the
\* buffers in the pool are empty, and the wire carries what encode writes of a
\* message that can be encoded.
CodecInv ==
  /\ phase \in {"compose", "refused", "sent", "received", "panicked"}
  /\ msg \in ComposedMessages /\ Len(msg.varbinds) <= MaxVarbinds
  /\ BitsInv
  /\ freeList \in EmptyBuffers /\ Len(freeList) <= PoolSize
  /\ phase \in {"sent", "received"} => Unencodable(msg) = {} /\ wire = FlattenSeq(encode(msg))
  /\ phase \notin {"sent", "received"} => wire = <<>>
  /\ received = IF phase = "received" THEN decodeMsg(wire) ELSE Nothing

\* A new message has no varbinds.
LEMMA NewMessageType ==
  ASSUME NEW header \in Headers
  PROVE  NewMessage(header) \in ComposedMessages /\ Len(NewMessage(header).varbinds) <= MaxVarbinds
<1>1. /\ header.version \in {0, 1} /\ header.community \in Buffer /\ header.pduType \in SentPduTypes
      /\ header.id \in Uint31 /\ header.errorVal \in 0 .. SnmpRequestErrorType_MAX
      /\ header.errorIdx \in Int32
  BY MessageAssumption DEF Buffer, SentPduTypes
<1>2. <<>> \in Seq(VarbindsSent)
  OBVIOUS
<1>3. NewMessage(header) \in ComposedMessages
  BY <1>1, <1>2 DEF NewMessage, Message, ComposedMessages, Composed
<1>4. NewMessage(header).varbinds = <<>>
  BY DEF NewMessage, Message
<1>5. QED
  BY <1>3, <1>4, MessageAssumption

\* At first there is no message.
LEMMA InitCodecInv == Init => CodecInv
<1> SUFFICES ASSUME Init PROVE CodecInv
  OBVIOUS
<1>1. msg \in ComposedMessages /\ Len(msg.varbinds) <= MaxVarbinds
  BY NewMessageType DEF Init
<1>2. BitsInv
  BY BitsInit
<1>3. freeList \in EmptyBuffers /\ Len(freeList) <= PoolSize
  BY MessageAssumption DEF Init, EmptyBuffers
<1>4. phase = "compose" /\ wire = <<>> /\ received = Nothing
  BY DEF Init
<1>5. QED
  BY <1>1, <1>2, <1>3, <1>4 DEF CodecInv

\* A message that can be encoded.
LEMMA Encodables ==
  ASSUME NEW m \in ComposedMessages, Unencodable(m) = {}
  PROVE  m \in SendableMessages
<1>1. m.varbinds \in Seq(VarbindsSent)
  BY DEF ComposedMessages, Composed
<1>2. \A i \in 1 .. Len(m.varbinds) : m.varbinds[i] \in SendableVarbinds
  BY <1>1 DEF Unencodable, SendableVarbinds
<1>3. m.varbinds \in Seq(SendableVarbinds)
  BY <1>1, <1>2
<1>4. QED
  BY <1>3 DEF ComposedMessages, Composed, SendableMessages

\* A message with one varbind more,
LEMMA AddedVarbind ==
  ASSUME NEW m \in ComposedMessages, NEW vb \in VarbindsSent
  PROVE  /\ [m EXCEPT !.varbinds = Append(@, vb)] \in ComposedMessages
         /\ Len([m EXCEPT !.varbinds = Append(@, vb)].varbinds) = Len(m.varbinds) + 1
         /\ Len(m.varbinds) \in Nat
<1>1. m.varbinds \in Seq(VarbindsSent)
  BY DEF ComposedMessages, Composed
<1>2. /\ Append(m.varbinds, vb) \in Seq(VarbindsSent)
      /\ Len(Append(m.varbinds, vb)) = Len(m.varbinds) + 1 /\ Len(m.varbinds) \in Nat
  BY <1>1
<1> DEFINE s == Append(m.varbinds, vb)
           n == [m EXCEPT !.varbinds = s]
<1> HIDE DEF s
<1>3. n \in ComposedMessages /\ n.varbinds = s
  <2>1. s \in Seq(VarbindsSent)
    BY <1>2 DEF s
  <2>2. QED
    BY <2>1 DEF ComposedMessages, Composed
<1>4. QED
  BY <1>2, <1>3 DEF s

\* when it is added,
LEMMA AddVarbindStep ==
  ASSUME CodecInv, NEW vb \in VarbindsSent, AddVarbind(vb)
  PROVE  /\ phase' = "compose" /\ msg' \in ComposedMessages /\ Len(msg'.varbinds) <= MaxVarbinds
         /\ UNCHANGED <<wire, freeList, received>> /\ phase = "compose"
<1>1. /\ phase = "compose" /\ phase' = "compose" /\ Len(msg.varbinds) < MaxVarbinds
      /\ msg' = [msg EXCEPT !.varbinds = Append(@, vb)] /\ UNCHANGED <<wire, freeList, received>>
  BY DEF AddVarbind
<1>2. /\ msg' \in ComposedMessages /\ Len(msg'.varbinds) = Len(msg.varbinds) + 1
      /\ Len(msg.varbinds) \in Nat
  BY <1>1, AddedVarbind DEF CodecInv
<1>3. QED
  BY <1>1, <1>2, MessageAssumption

\* What the constructors of varbinds make.
LEMMA AddedValues ==
  ASSUME CodecInv, NEW oid \in Oids
  PROVE  /\ \A type \in Nulls : Varbind(oid, type, <<>>) \in VarbindsSent
         /\ \A val \in OctetStrings : Varbind(oid, OCTET_STRING, val) \in VarbindsSent
         /\ \A val \in Integers32 : Varbind(oid, INTEGER, val) \in VarbindsSent
         /\ bits # NoBits => Varbind(oid, BIT_STRING, bits) \in VarbindsSent
         /\ \A val \in Addresses : Varbind(oid, IP_ADDRESS, val) \in VarbindsSent
         /\ \A val \in OidValues : Varbind(oid, OBJECT_IDENTIFIER, val) \in VarbindsSent
<1>1. \A s \in Seq(Uint31) : s \in Identifiers
  <2>1. \A k \in Uint31 : k \in Nat
    BY FourBytes
  <2>2. SUFFICES ASSUME NEW s \in Seq(Uint31) PROVE s \in Seq(Nat)
    BY DEF Identifiers
  <2>3. Len(s) \in Nat /\ s \in [1 .. Len(s) -> Uint31]
    OBVIOUS
  <2>4. s \in [1 .. Len(s) -> Nat]
    BY <2>1, <2>3
  <2>5. QED
    BY <2>3, <2>4
<1>2. oid \in Identifiers /\ OidValues \subseteq Identifiers
  BY <1>1, MessageAssumption
<1>3. /\ Nulls \subseteq DecodedTypes /\ OCTET_STRING \in DecodedTypes /\ INTEGER \in DecodedTypes
      /\ BIT_STRING \in DecodedTypes /\ IP_ADDRESS \in DecodedTypes
      /\ OBJECT_IDENTIFIER \in DecodedTypes
  BY DEF DecodedTypes
<1>4. \A type \in Nulls : <<>> \in ValuesSent(type)
  BY ValuesSentCases DEF NoVal
<1>5. OctetStrings \subseteq ValuesSent(OCTET_STRING) /\ Addresses \subseteq ValuesSent(IP_ADDRESS)
  BY ValuesSentCases, MessageAssumption DEF Buffer
<1>6. Integers32 \subseteq ValuesSent(INTEGER)
  BY ValuesSentCases, MessageAssumption, FourBytes
<1>7. bits # NoBits => bits \in ValuesSent(BIT_STRING)
  <2>1. SUFFICES ASSUME bits # NoBits PROVE bits \in ValuesSent(BIT_STRING)
    OBVIOUS
  <2>2. IsBitString(bits)
    BY <2>1 DEF CodecInv, BitsInv
  <2>3. bits \in [bytes : Buffer, bitLength : Nat]
    BY <2>2 DEF IsBitString, Buffer
  <2>4. QED
    BY <2>2, <2>3, ValuesSentCases
<1>8. OidValues \subseteq ValuesSent(OBJECT_IDENTIFIER)
  BY <1>2, ValuesSentCases
<1>9. QED
  BY <1>2, <1>3, <1>4, <1>5, <1>6, <1>7, <1>8, InVarbindsSent

\* by any of the calls that add one.
LEMMA CompositionStep ==
  ASSUME CodecInv, NEW oid \in Oids,
         \/ AddNull(oid) \/ AddInteger(oid) \/ AddOctetString(oid)
         \/ AddBitString(oid) \/ AddObjectIdentifier(oid) \/ AddIPv4Address(oid)
  PROVE  \E vb \in VarbindsSent : AddVarbind(vb)
BY AddedValues DEF AddNull, AddInteger, AddOctetString, AddBitString, AddObjectIdentifier,
   AddIPv4Address

-----------------------------------------------------------------------------
(***************************************************************************)
(* The states of the codec: the pool of buffers.                           *)
(***************************************************************************)

\* Buffers that are put back are reset, and no more than the pool takes are
\* kept (putBuffers),
LEMMA PutBack ==
  ASSUME NEW pool \in EmptyBuffers, Len(pool) <= PoolSize, NEW chain, Len(chain) \in Nat
  PROVE  /\ putBuffers(pool, chain) \in EmptyBuffers
         /\ Len(putBuffers(pool, chain)) <= PoolSize
<1>1. Len(pool) \in Nat /\ PoolSize \in Nat
  BY MessageAssumption DEF EmptyBuffers
<1>2. PICK a \in Nat : a = Len(chain)
  OBVIOUS
<1>3. PICK b \in Nat : b = PoolSize - Len(pool)
  <2>1. PoolSize - Len(pool) \in Nat
    BY <1>1
  <2>2. QED
    BY <2>1
<1>4. PICK k \in Nat : k = Min({a, b}) /\ k <= a /\ k <= b
  BY MinOfTwo
<1> DEFINE more == [i \in 1 .. k |-> <<>>]
<1>5. putBuffers(pool, chain) = pool \o more
  BY <1>2, <1>3, <1>4 DEF putBuffers, Reset
<1>6. more \in EmptyBuffers /\ Len(more) = k
  BY DEF EmptyBuffers
<1> HIDE DEF more
<1>7. pool \o more \in EmptyBuffers /\ Len(pool \o more) = Len(pool) + k
  BY <1>6 DEF EmptyBuffers
<1>8. Len(pool) + k <= PoolSize
  BY <1>1, <1>3, <1>4
<1>9. QED
  BY <1>5, <1>7, <1>8

\* when a chain is destroyed.
LEMMA PoolAfter ==
  ASSUME CodecInv, NEW chain, Len(chain) \in Nat
  PROVE  destroy(chain) \in EmptyBuffers /\ Len(destroy(chain)) <= PoolSize
<1> DEFINE pool == SubSeq(freeList, Len(chain) + 1, Len(freeList))
<1>1. freeList \in EmptyBuffers /\ Len(freeList) <= PoolSize /\ PoolSize \in Nat
  BY MessageAssumption DEF CodecInv
<1>2. PICK n \in Nat : n = Len(chain)
  OBVIOUS
<1>3. pool \in EmptyBuffers /\ Len(pool) <= Len(freeList) /\ Len(pool) \in Nat /\ Len(freeList) \in Nat
  <2>1. /\ SubSeq(freeList, n + 1, Len(freeList)) \in EmptyBuffers
        /\ Len(SubSeq(freeList, n + 1, Len(freeList))) <= Len(freeList)
        /\ Len(freeList) \in Nat
    BY <1>1 DEF EmptyBuffers
  <2>2. QED
    BY <1>2, <2>1 DEF EmptyBuffers
<1> HIDE DEF pool
<1>4. Len(pool) <= PoolSize
  BY <1>1, <1>3
<1>5. QED
  BY <1>3, <1>4, PutBack DEF destroy, pool

\* The buffers that are taken are empty, so they hold what is written to them.
LEMMA WrittenAsIs ==
  ASSUME CodecInv, NEW chain \in Chain
  PROVE  Written(chain) = chain
<1>1. freeList \in Seq({<<>>}) /\ chain \in Seq(Buffer)
  BY DEF CodecInv, EmptyBuffers, Chain
<1>2. DOMAIN chain = 1 .. Len(chain) /\ Len(chain) \in Nat
  BY <1>1
<1>3. ASSUME NEW i \in 1 .. Len(chain) PROVE getBuffer(i) \o chain[i] = chain[i]
  <2>1. getBuffer(i) = <<>>
    BY <1>1, <1>2 DEF getBuffer
  <2>2. chain[i] \in Buffer
    BY <1>1
  <2>3. <<>> \o chain[i] = chain[i]
    BY <2>2, BufferFacts
  <2>4. QED
    BY <2>1, <2>3, Zenon
<1>4. Written(chain) = [i \in 1 .. Len(chain) |-> chain[i]]
  BY <1>2, <1>3 DEF Written
<1>5. QED
  BY <1>1, <1>2, <1>4

\* What has been written of a message when one of its varbinds is refused.
LEMMA AbandonedType ==
  ASSUME NEW m \in ComposedMessages, Unencodable(m) # {}
  PROVE  Abandoned(m) \in Chain
<1> DEFINE vbs == m.varbinds
           first == Min(Unencodable(m))
           before == SubSeq(vbs, 1, first - 1)
           vb == vbs[first]
           name == IF Encodable(vb.oid) THEN encodeObjectIdentifier(vb.oid) ELSE <<>>
<1>1. vbs \in Seq(VarbindsSent)
  BY DEF ComposedMessages, Composed
<1>2. first \in 1 .. Len(vbs) /\ \A i \in 1 .. Len(vbs) : i < first => VarbindEncodable(vbs[i])
  <2>1. Unencodable(m) \in SUBSET Nat /\ Unencodable(m) = {i \in 1 .. Len(vbs) : ~VarbindEncodable(vbs[i])}
    BY <1>1 DEF Unencodable
  <2>2. first \in Unencodable(m) /\ \A x \in Unencodable(m) : first <= x
    BY <2>1, Least
  <2> HIDE DEF first
  <2>3. QED
    BY <1>1, <2>1, <2>2
<1> HIDE DEF first
<1>3. before \in Sendable
  <2>1. before \in Seq(VarbindsSent) /\ Len(before) = first - 1
        /\ \A i \in 1 .. first - 1 : before[i] = vbs[i] /\ i \in 1 .. Len(vbs) /\ i < first
    BY <1>1, <1>2
  <2> HIDE DEF before
  <2>2. \A i \in 1 .. Len(before) : before[i] \in SendableVarbinds
    BY <1>1, <1>2, <2>1 DEF SendableVarbinds
  <2>3. QED
    BY <2>1, <2>2 DEF Sendable
<1> HIDE DEF before
<1>4. encodeVarbinds(before) \in Chain
  BY <1>3, encodeVarbindsType
<1>5. name \in Chain
  <2>1. vb \in VarbindsSent
    BY <1>1, <1>2
  <2>2. vb.oid \in Identifiers
    BY <2>1, SentVarbind
  <2>3. QED
    BY <2>2, encodeObjectIdentifierType, EmptyChain
<1> HIDE DEF name, vb
<1> DEFINE e == [m EXCEPT !.varbinds = <<>>]
<1>6. e \in SendableMessages
  <2>1. <<>> \in Seq(SendableVarbinds)
    OBVIOUS
  <2>2. QED
    BY <2>1 DEF ComposedMessages, Composed, SendableMessages
<1>7. /\ e.version = m.version /\ e.community = m.community /\ e.pduType = m.pduType /\ e.id = m.id
      /\ e.errorVal = m.errorVal /\ e.errorIdx = m.errorIdx
  BY DEF ComposedMessages, Composed
<1> HIDE DEF e
<1>8. HeaderFields(m) \in Chain /\ PduControlFields(m) \in Chain /\ m.pduType \in Bytes
  BY <1>6, <1>7, encodeType, ComposedFields DEF HeaderFields, PduControlFields
<1>9. <<<<SEQUENCE>>>> \in Chain /\ <<<<m.pduType>>>> \in Chain
  BY <1>8, BlockTypes, TwoBytes, OneBuffer
<1> DEFINE s == <<<<SEQUENCE>>>>
           p == <<<<m.pduType>>>>
           h == HeaderFields(m)
           c == PduControlFields(m)
           w == encodeVarbinds(before)
<1>10. Abandoned(m) = s \o h \o p \o c \o s \o w \o s \o name
  BY DEF Abandoned, first, before, vb, name
<1>11. s \in Chain /\ h \in Chain /\ p \in Chain /\ c \in Chain /\ w \in Chain
  BY <1>4, <1>8, <1>9
<1> HIDE DEF s, p, h, c, w
<1>12. s \o h \o p \o c \in Chain
  <2>1. s \o h \in Chain
    BY <1>11, ChainConcat
  <2>2. (s \o h) \o p \in Chain
    BY <1>11, <2>1, ChainConcat
  <2>3. QED
    BY <1>11, <2>2, ChainConcat
<1>13. (s \o h \o p \o c) \o s \o w \in Chain
  <2>1. (s \o h \o p \o c) \o s \in Chain
    BY <1>11, <1>12, ChainConcat
  <2>2. QED
    BY <1>11, <2>1, ChainConcat
<1>14. ((s \o h \o p \o c) \o s \o w) \o s \in Chain
  BY <1>11, <1>13, ChainConcat
<1>15. QED
  BY <1>5, <1>10, <1>14, ChainConcat

\* A message that can be encoded is sent,
LEMMA TransmitStep ==
  ASSUME CodecInv, Transmit
  PROVE  CodecInv'
<1>1. /\ phase = "compose" /\ phase' = "sent" /\ Unencodable(msg) = {}
      /\ wire' = FlattenSeq(Written(encode(msg))) /\ freeList' = destroy(Drained(encode(msg)))
      /\ UNCHANGED <<msg, bits, chosen, received>>
  BY DEF Transmit
<1>2. encode(msg) \in Chain
  BY <1>1, Encodables, encodeType DEF CodecInv
<1>3. Written(encode(msg)) = encode(msg)
  BY <1>2, WrittenAsIs
<1>4. Len(Drained(encode(msg))) \in Nat
  <2>1. ASSUME NEW chain \in Chain PROVE Len(Drained(chain)) \in Nat
    BY DEF Chain, Drained
  <2>2. QED
    BY <1>2, <2>1
<1>5. freeList' \in EmptyBuffers /\ Len(freeList') <= PoolSize
  BY <1>1, <1>4, PoolAfter
<1>6. BitsInv'
  BY <1>1 DEF CodecInv, BitsInv
<1>7. wire' = FlattenSeq(encode(msg'))
  BY <1>1, <1>3
<1>8. received' = Nothing
  BY <1>1 DEF CodecInv
<1>9. QED
  BY <1>1, <1>5, <1>6, <1>7, <1>8 DEF CodecInv

\* one that cannot is refused and its buffers are put back,
LEMMA EncodeFailsStep ==
  ASSUME CodecInv, EncodeFails
  PROVE  CodecInv'
<1>1. /\ phase = "compose" /\ phase' = "refused" /\ Unencodable(msg) # {}
      /\ freeList' = destroy(Written(Abandoned(msg)))
      /\ UNCHANGED <<msg, bits, chosen, wire, received>>
  BY DEF EncodeFails
<1>2. Abandoned(msg) \in Chain
  BY <1>1, AbandonedType DEF CodecInv
<1>3. Len(Written(Abandoned(msg))) \in Nat
  <2>1. Written(Abandoned(msg)) \in Chain
    BY <1>2, WrittenAsIs
  <2>2. QED
    BY <2>1 DEF Chain
<1>4. freeList' \in EmptyBuffers /\ Len(freeList') <= PoolSize
  BY <1>1, <1>3, PoolAfter
<1>5. BitsInv'
  BY <1>1 DEF CodecInv, BitsInv
<1>6. QED
  BY <1>1, <1>4, <1>5 DEF CodecInv

\* and every step keeps the invariant.
LEMMA CodecStep == CodecInv /\ [Next]_vars => CodecInv'
<1> SUFFICES ASSUME CodecInv, [Next]_vars PROVE CodecInv'
  OBVIOUS
<1>1. BitsInv'
  BY BitsStep DEF CodecInv
<1>2. CASE UNCHANGED vars
  BY <1>1, <1>2 DEF vars, CodecInv
<1>3. ASSUME NEW header \in Headers, Compose(header) PROVE CodecInv'
  <2>1. /\ phase' = "compose" /\ msg' = NewMessage(header) /\ wire' = <<>> /\ received' = Nothing
        /\ freeList' = freeList
    BY <1>3 DEF Compose
  <2>2. msg' \in ComposedMessages /\ Len(msg'.varbinds) <= MaxVarbinds
    BY <2>1, NewMessageType
  <2>3. QED
    BY <1>1, <2>1, <2>2 DEF CodecInv
<1>4. ASSUME \/ \E numBits \in BitLengths : NewBits(numBits)
             \/ \E bitIdx \in BitIndices : SetBit(bitIdx) \/ ClearBit(bitIdx) \/ IndexPanics(bitIdx)
      PROVE  CodecInv'
  <2>1. /\ phase = "compose" /\ phase' \in {"compose", "panicked"}
        /\ UNCHANGED <<msg, wire, freeList, received>>
    BY <1>4 DEF NewBits, SetBit, ClearBit, IndexPanics, Accepted
  <2>2. QED
    BY <1>1, <2>1 DEF CodecInv
<1>5. ASSUME NEW oid \in Oids,
             \/ AddNull(oid) \/ AddInteger(oid) \/ AddOctetString(oid)
             \/ AddBitString(oid) \/ AddObjectIdentifier(oid) \/ AddIPv4Address(oid)
      PROVE  CodecInv'
  <2>1. /\ phase' = "compose" /\ msg' \in ComposedMessages /\ Len(msg'.varbinds) <= MaxVarbinds
        /\ UNCHANGED <<wire, freeList, received>> /\ phase = "compose"
    <3>1. PICK vb \in VarbindsSent : AddVarbind(vb)
      BY <1>5, CompositionStep
    <3>2. QED
      BY <3>1, AddVarbindStep
  <2>2. QED
    BY <1>1, <2>1 DEF CodecInv
<1>6. CASE Receive
  <2>1. /\ phase = "sent" /\ phase' = "received" /\ received' = decodeMsg(wire')
        /\ UNCHANGED <<msg, wire, freeList>>
    BY <1>6 DEF Receive
  <2>2. QED
    BY <1>1, <2>1 DEF CodecInv
<1>7. QED
  BY <1>2, <1>3, <1>4, <1>5, <1>6, TransmitStep, EncodeFailsStep DEF Next

\* The invariant holds in every state.
LEMMA CodecAlways == Spec => []CodecInv
BY InitCodecInv, CodecStep, PTL DEF Spec

-----------------------------------------------------------------------------
(***************************************************************************)
(* What is received.                                                       *)
(***************************************************************************)

\* A received message is what decodeMsg makes of a message that could be encoded.
LEMMA WhatIsReceived ==
  ASSUME CodecInv
  PROVE  /\ received.status \in {"ok", "error", "panic"} => phase = "received"
         /\ phase = "received" =>
              /\ msg \in SendableMessages /\ wire = FlattenSeq(encode(msg)) /\ wire \in Buffer
              /\ received = decodeMsg(wire)
<1>1. received.status \in {"ok", "error", "panic"} => phase = "received"
  <2>1. Nothing.status \notin {"ok", "error", "panic"}
    BY DEF Nothing
  <2>2. QED
    BY <2>1 DEF CodecInv
<1>2. ASSUME phase = "received"
      PROVE  /\ msg \in SendableMessages /\ wire = FlattenSeq(encode(msg)) /\ wire \in Buffer
             /\ received = decodeMsg(wire)
  <2>1. msg \in SendableMessages /\ wire = FlattenSeq(encode(msg)) /\ received = decodeMsg(wire)
    BY <1>2, Encodables DEF CodecInv
  <2>2. QED
    BY <2>1, encodeType, FlattenType
<1>3. QED
  BY <1>1, <1>2

\* The padding of a bit string that is decoded.
LEMMA DecodedVarbindFits ==
  ASSUME NEW vb \in DecodedVarbinds, vb.type = BIT_STRING, vb.val # NoBits
  PROVE  8 * Len(vb.val.bytes) - vb.val.bitLength \in 0 .. 7
<1>1. vb.val \in TypedValues(BIT_STRING)
  BY DEF DecodedVarbinds
<1>2. Fits(vb.val)
  BY <1>1, TypesDiffer DEF TypedValues, FittingBits
<1>3. QED
  BY <1>2 DEF Fits

\* Bytes are sent, the pool keeps no more buffers than it has room for, and
\* whatever was encoded, the padding of a bit string that is received is up to
\* seven bits (encode, putBuffers, decodeMsg).
THEOREM CodecTypeCorrect == Spec => []TypeOK
<1>1. CodecInv => TypeOK
  <2> SUFFICES ASSUME CodecInv PROVE TypeOK
    OBVIOUS
  <2>1. wire \in Buffer
    <3>1. CASE phase \in {"sent", "received"}
      BY <3>1, Encodables, encodeType, FlattenType DEF CodecInv
    <3>2. CASE phase \notin {"sent", "received"}
      BY <3>2, EmptyBuffer DEF CodecInv
    <3>3. QED
      BY <3>1, <3>2
  <2>2. \A i \in DOMAIN wire : wire[i] \in Bytes
    BY <2>1 DEF Buffer
  <2>3. CASE phase # "received"
    <3>1. received = Nothing /\ received.status = "none"
      BY <2>3 DEF CodecInv, Nothing
    <3>2. ReceivedVarbinds = {}
      BY <3>1 DEF ReceivedVarbinds
    <3>3. QED
      BY <2>2, <2>3, <3>1, <3>2 DEF TypeOK, CodecInv
  <2>4. CASE phase = "received"
    <3>1. Outcome(received, DecodedMessages, Len(wire))
      BY <2>1, <2>4, decodeMsgType DEF CodecInv
    <3>2. received.status \in {"ok", "error", "panic"}
      BY <3>1, Status DEF Outcome
    <3>3. ASSUME NEW vb \in ReceivedVarbinds, vb.type = BIT_STRING, vb.val # NoBits
          PROVE  8 * Len(vb.val.bytes) - vb.val.bitLength \in 0 .. 7
      <4>1. received.status = "ok"
        BY DEF ReceivedVarbinds
      <4>2. PICK m \in DecodedMessages, b \in Buffer : received = OK(m, b)
        BY <3>1, <4>1, OutcomeOK
      <4>3. received.val = m
        BY <4>2, Status
      <4>4. m.varbinds \in VarbindSeqs
        BY DEF DecodedMessages, Message
      <4>5. vb \in DecodedVarbinds
        BY <4>1, <4>3, <4>4 DEF ReceivedVarbinds, VarbindSeqs
      <4>6. QED
        BY <3>3, <4>5, DecodedVarbindFits
    <3>4. QED
      BY <2>2, <2>4, <3>2, <3>3 DEF TypeOK, CodecInv
  <2>5. QED
    BY <2>3, <2>4
<1>2. QED
  BY <1>1, CodecAlways, PTL

\* A message without varbinds is never received (decodeVarbinds).
THEOREM EmptyNeverReceived == Spec => []EmptyIsRefused
<1>1. CodecInv => EmptyIsRefused
  <2> SUFFICES ASSUME CodecInv, phase = "received", msg.varbinds = <<>>, Short
               PROVE  received.status = "error"
    BY DEF EmptyIsRefused
  <2>1. msg \in SendableMessages /\ wire = FlattenSeq(encode(msg)) /\ received = decodeMsg(wire)
    BY WhatIsReceived
  <2>2. QED
    BY <2>1, EmptyMessageRead DEF Short
<1>2. QED
  BY <1>1, CodecAlways, PTL

\* What is received of a short message of varbinds whose names are long.
LEMMA ReceivedRead ==
  ASSUME CodecInv, phase = "received", Short, AllLong(msg.varbinds)
  PROVE  /\ msg \in SendableMessages
         /\ DOMAIN msg.varbinds = 1 .. Len(msg.varbinds)
         /\ msg.varbinds = <<>> => received.status = "error"
         /\ msg.varbinds # <<>> => MessageRead(received, msg)
<1>1. msg \in SendableMessages /\ wire = FlattenSeq(encode(msg)) /\ received = decodeMsg(wire)
  BY WhatIsReceived
<1>2. msg.varbinds \in Sendable
  BY <1>1, ComposedFields
<1>3. DOMAIN msg.varbinds = 1 .. Len(msg.varbinds) /\ (msg.varbinds # <<>> => Len(msg.varbinds) # 0)
  BY <1>2 DEF Sendable
<1>4. QED
  BY <1>1, <1>3, EmptyMessageRead, FilledMessageRead DEF Short

\* A short message is received as it was sent or not at all, with the known
\* exceptions of a first byte that is cut off and of identifiers of two
\* elements (encode and decodeMsg): for any number of varbinds and any values.
THEOREM NeverTakenForAnother == Spec => []NeverMistaken
<1>1. CodecInv => NeverMistaken
  <2> SUFFICES ASSUME CodecInv, phase = "received", received.status = "ok", Short,
                      \A i \in DOMAIN msg.varbinds : \A oid \in Names(msg.varbinds[i]) :
                        ~CutOff(oid) /\ Len(oid) > 2
               PROVE  SameMessage(msg, received.val)
    BY DEF NeverMistaken
  <2>1. DOMAIN msg.varbinds = 1 .. Len(msg.varbinds)
    BY WhatIsReceived, ComposedFields DEF Sendable
  <2>2. AllLong(msg.varbinds)
    BY <2>1 DEF AllLong, LongNames
  <2>3. \A i \in 1 .. Len(msg.varbinds) : NamesKept(msg.varbinds[i])
    BY <2>1 DEF NamesKept
  <2>4. MessageRead(received, msg)
    BY <2>2, ReceivedRead, Status
  <2>5. QED
    BY <2>3, <2>4, Status DEF MessageRead
<1>2. QED
  BY <1>1, CodecAlways, PTL

\* A short message ends the program that receives it only through an integer or
\* an identifier of two elements (decodeVarbind, decodeObjectIdentifier): no
\* other message that this library composes does.
THEOREM KnownPanics == Spec => []PanicsAreKnown
<1>1. CodecInv => PanicsAreKnown
  <2> SUFFICES ASSUME CodecInv, received.status = "panic", Short,
                      \A i \in DOMAIN msg.varbinds : \A oid \in Names(msg.varbinds[i]) : Len(oid) # 2
               PROVE  \E i \in DOMAIN msg.varbinds : msg.varbinds[i].type = INTEGER
    BY DEF PanicsAreKnown
  <2>1. phase = "received" /\ msg \in SendableMessages
    BY WhatIsReceived
  <2>2. msg.varbinds \in Sendable
    BY <2>1, ComposedFields
  <2>3. AllLong(msg.varbinds)
    <3>1. SUFFICES ASSUME NEW i \in 1 .. Len(msg.varbinds), NEW oid \in Names(msg.varbinds[i])
                   PROVE  Len(oid) > 2
      BY DEF AllLong, LongNames
    <3>2. msg.varbinds[i] \in VarbindsSent /\ VarbindEncodable(msg.varbinds[i])
      BY <2>2 DEF Sendable, SendableVarbinds
    <3>3. oid \in Identifiers /\ Encodable(oid)
      <4>1. CASE oid = msg.varbinds[i].oid
        BY <3>2, <4>1, SentVarbind DEF VarbindEncodable
      <4>2. CASE msg.varbinds[i].type = OBJECT_IDENTIFIER /\ oid = msg.varbinds[i].val
        BY <3>2, <4>2, SentVarbind, ValuesSentCases DEF VarbindEncodable, ValueEncodable
      <4>3. QED
        BY <4>1, <4>2 DEF Names
    <3>4. Len(oid) \in Nat /\ Len(oid) >= 2
      BY <3>3 DEF Identifiers, Encodable
    <3>5. Len(oid) # 2
      BY <2>2 DEF Sendable
    <3>6. \A k \in Nat : k >= 2 /\ k # 2 => k > 2
      OBVIOUS
    <3>7. QED
      BY <3>4, <3>5, <3>6, Zenon
  <2>4. DOMAIN msg.varbinds = 1 .. Len(msg.varbinds) /\ MessageRead(received, msg)
    BY <2>1, <2>3, ReceivedRead, Status
  <2>5. QED
    BY <2>4, Status DEF MessageRead
<1>2. QED
  BY <1>1, CodecAlways, PTL

\* The names of a varbind that both sides support.
LEMMA PlainNames ==
  ASSUME NEW vb \in VarbindsSent, PlainVarbind(vb)
  PROVE  LongNames(vb) /\ NamesKept(vb) /\ vb.type # INTEGER
<1>1. ASSUME NEW oid \in Identifiers, PlainOid(oid) PROVE Len(oid) > 2 /\ ~CutOff(oid)
  <2>1. Len(oid) \in Nat /\ Len(oid) >= 3
    BY <1>1 DEF Identifiers, PlainOid
  <2>2. oid[1] \in Nat /\ oid[2] \in Nat
    BY <2>1 DEF Identifiers
  <2>3. 40 * oid[1] + oid[2] < 256
    BY <1>1 DEF PlainOid
  <2>4. QED
    BY <2>1, <2>2, <2>3 DEF CutOff
<1>2. \A oid \in Names(vb) : oid \in Identifiers /\ PlainOid(oid)
  BY SentVarbind, ValuesSentCases DEF Names, PlainVarbind
<1>3. QED
  BY <1>1, <1>2 DEF LongNames, NamesKept, PlainVarbind

\* A short message of varbinds that both sides support is received exactly as
\* it was composed (encode and decodeMsg): for any number of them and any
\* values.
THEOREM PlainIsReceived == Spec => []RoundTrip
<1>1. CodecInv => RoundTrip
  <2> SUFFICES ASSUME CodecInv, phase = "received", PlainMessage, Short
               PROVE  received.status = "ok" /\ SameMessage(msg, received.val)
    BY DEF RoundTrip
  <2>1. msg.varbinds \in Sendable
    BY WhatIsReceived, ComposedFields
  <2>2. \A i \in 1 .. Len(msg.varbinds) : PlainVarbind(msg.varbinds[i]) /\ msg.varbinds[i] \in VarbindsSent
    BY <2>1 DEF Sendable, SendableVarbinds, PlainMessage
  <2>3. \A i \in 1 .. Len(msg.varbinds) :
          /\ LongNames(msg.varbinds[i]) /\ NamesKept(msg.varbinds[i])
          /\ msg.varbinds[i].type # INTEGER
    BY <2>2, PlainNames
  <2>4. AllLong(msg.varbinds)
    BY <2>3 DEF AllLong
  <2>5. MessageRead(received, msg)
    BY <2>4, ReceivedRead DEF PlainMessage
  <2>6. QED
    BY <2>2, <2>3, <2>5 DEF MessageRead
<1>2. QED
  BY <1>1, CodecAlways, PTL
=============================================================================
