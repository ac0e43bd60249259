\* Messages of up to two varbinds, composed, encoded and decoded; each ends when it is received or refused.
SPECIFICATION Spec
CONSTANTS
  Headers <- SomeHeaders
  Oids <- SomeOids
  Integers32 <- SomeIntegers
  OctetStrings <- SomeOctetStrings
  OidValues <- SomeOidValues
  Addresses <- SomeAddresses
  BitLengths <- SomeBitLengths
  BitIndices <- SomeBitIndices
  PoolSize = 8
  MaxVarbinds = 2
INVARIANTS
  TypeOK
  BitsAreThoseSet
  RoundTrip
  NeverMistaken
  PanicsAreKnown
  EmptyIsRefused
CHECK_DEADLOCK FALSE
