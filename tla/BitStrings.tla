----------------------------- MODULE BitStrings -----------------------------
(***************************************************************************)
(* The operations on single bits of a BitString (bitstring.go).  A bit     *)
(* string is its bytes, as numbers, and the number of bits in use; bit 0   *)
(* is the highest one of the first byte.                                   *)
(***************************************************************************)
EXTENDS Integers, Sequences

NewBitString(numBits) ==
  [bytes |-> [i \in 1 .. (numBits + 7) \div 8 |-> 0], bitLength |-> numBits]

\* What IsSet, Set and Clear refuse.  They accept the index after the last bit.
OutOfRange(val, bitIdx) == bitIdx < 0 \/ bitIdx > val.bitLength

\* Indexing beyond the bytes ends the program.
BeyondBytes(val, bitIdx) == ~OutOfRange(val, bitIdx) /\ bitIdx \div 8 >= Len(val.bytes)

\* The weight of a bit in its byte, 1 << (7 - bitIdx % 8).
Weight(bitIdx) == <<128, 64, 32, 16, 8, 4, 2, 1>>[(bitIdx % 8) + 1]

Bit(byte, bitIdx) == (byte \div Weight(bitIdx)) % 2

IsSet(val, bitIdx) ==
  ~OutOfRange(val, bitIdx) /\ Bit(val.bytes[bitIdx \div 8 + 1], bitIdx) = 1

\* Mutation: the byte is assigned instead of or-ed.
SetOnlyThis(val, bitIdx) == [val EXCEPT !.bytes[bitIdx \div 8 + 1] = Weight(bitIdx)]

Set(val, bitIdx) ==
  [val EXCEPT !.bytes[bitIdx \div 8 + 1] = @ + (1 - Bit(@, bitIdx)) * Weight(bitIdx)]

Clear(val, bitIdx) ==
  [val EXCEPT !.bytes[bitIdx \div 8 + 1] = @ - Bit(@, bitIdx) * Weight(bitIdx)]
=============================================================================
