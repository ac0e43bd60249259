\* One long octet string is enough.
SPECIFICATION Spec
CONSTANTS
  Headers <- SomeHeaders
  Oids <- SomeOids
  Integers32 <- SomeIntegers
  OctetStrings <- SomeOctetStrings
  OidValues <- SomeOidValues
  Addresses <- SomeAddresses
  BitLengths <- SomeBitLengths
  BitIndices <- SomeBitIndices
  PoolSize = 8
  MaxVarbinds = 1
INVARIANT
  AnyLengthIsDecoded
CHECK_DEADLOCK FALSE
