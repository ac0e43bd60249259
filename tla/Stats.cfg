\* Counting, asking and rolling over, from contexts made at and after the start of a quarter.
SPECIFICATION Spec
CONSTANTS
  u1 = u1
  u2 = u2
  s1 = s1
  s2 = s2
  Users = {u1, u2}
  StatTypes = {s1, s2}
  NumBins = 3
  Quarter = 2
  StatCap = 2
  AskBins = {0, 1, 3}
  MaxCounts = 3
  MaxTicks = 7
  StartOffsets = {0, 1}
  NoBin = NoBin
  NoAnswer = NoAnswer
SYMMETRY Symmetry
INVARIANTS
  TypeOK
  EveryCountOnce
  BinsAreConsecutive
  NoLongBin
  PastQuartersAreThere
CHECK_DEADLOCK FALSE
