-------------------------- MODULE StatTrackerProofs --------------------------
(***************************************************************************)
(* Proofs about the statistics, for any number of bins of any length, of   *)
(* users and of kinds of statistics: every notification is in the bin of   *)
(* the quarter of an hour it was received in, and the bins are those of    *)
(* consecutive quarters.                                                   *)
(*                                                                         *)
(* The bins are a window that slides over the quarters: bin b is quarter   *)
(* rollovers - b.  Both results follow from what is in the window.         *)
(***************************************************************************)
EXTENDS StatTracker, TLAPS, FiniteSetTheorems

USE StatAssumption

-----------------------------------------------------------------------------

\* A bin, and how much it can hold, which follows from what has been counted.
AnyBin == [Stats : [StatTypes -> Nat], NumSeconds : Nat]

Types ==
  /\ bins \in [Bins -> AnyBin \union {NoBin}]
  /\ nextRollover \in 0 .. Quarter
  /\ increments \in Seq(StatTypes) /\ Len(increments) <= StatCap
  /\ trackerPc \in {"select", "crashed", "stopped"}
  /\ asking \in [Users -> AskBins \union {NoBin}]
  /\ answers \in [Users -> StatsBins \union {NoAnswer}]
  /\ ticks \in 0 .. MaxTicks /\ counts \in 0 .. MaxCounts
  /\ rollovers \in 0 .. MaxTicks
  /\ taken \in Seq(StatTypes \X (0 .. MaxTicks))

\* Which bins there are, and how long each is.
WindowInv ==
  /\ \A b \in Bins : bins[b] # NoBin <=> b <= rollovers
  /\ \A b \in Bins \ {0} : b < rollovers => bins[b].NumSeconds = Quarter
  /\ \A b \in Bins : bins[b] # NoBin => bins[b].NumSeconds <= ticks
  /\ rollovers <= ticks
  /\ rollovers > 0 => nextRollover = Quarter

\* How the bins keep up with the clock, unless the first one never rolls over.
ClockInv ==
  nextRollover # 0 =>
    /\ bins[0].NumSeconds < nextRollover
    /\ \A b \in Bins : bins[b] # NoBin => bins[b].NumSeconds <= Quarter
    /\ ticks <= rollovers * Quarter + bins[0].NumSeconds

\* What the bins show.
CountInv ==
  /\ EveryCountOnce
  /\ \A n \in 1 .. Len(taken) : taken[n][2] <= rollovers

StatInv == Types /\ WindowInv /\ ClockInv /\ CountInv

-----------------------------------------------------------------------------

LEMMA BinType ==
  /\ 0 \in Bins /\ 1 \in Bins /\ Bins \subseteq Nat
  /\ \A b \in Bins \ {0} : b - 1 \in Bins /\ b >= 1
BY DEF Bins

LEMMA NoBinIsNone == NoBin \notin AnyBin
BY DEF AnyBin

LEMMA NewBin == newStatsBin \in AnyBin
BY DEF newStatsBin, AnyBin

\* The current bin is there.
LEMMA CurrentBin ==
  ASSUME Types, WindowInv
  PROVE  bins[0] \in AnyBin /\ bins[0] # NoBin
<1>1. 0 <= rollovers
  BY DEF Types
<1>2. bins[0] # NoBin
  BY <1>1, BinType DEF WindowInv
<1>3. QED
  BY <1>2, BinType DEF Types

LEMMA ReceivedFinite ==
  ASSUME Types, NEW b, NEW t
  PROVE  /\ IsFiniteSet(ReceivedIn(b, t))
         /\ Cardinality(ReceivedIn(b, t)) \in Nat
         /\ Cardinality(ReceivedIn(b, t)) <= Len(taken)
<1>1. Len(taken) \in Nat
  BY DEF Types
<1>2. IsFiniteSet(1 .. Len(taken)) /\ Cardinality(1 .. Len(taken)) = Len(taken)
  <2>1. PICK k \in Nat : k = Len(taken)
    BY <1>1
  <2>2. IsFiniteSet(1 .. k) /\ Cardinality(1 .. k) = IF 1 > k THEN 0 ELSE k - 1 + 1
    BY FS_Interval
  <2>3. (IF 1 > k THEN 0 ELSE k - 1 + 1) = k
    OBVIOUS
  <2>4. QED
    BY <2>1, <2>2, <2>3
<1>3. ReceivedIn(b, t) \in SUBSET (1 .. Len(taken))
  BY DEF ReceivedIn
<1>4. QED
  BY <1>2, <1>3, FS_Subset, FS_CardinalityType

\* No bin shows more than has been counted or is longer than the clock has run.
LEMMA BinsAreBounded ==
  ASSUME StatInv, NEW b \in Bins, bins[b] # NoBin
  PROVE  bins[b] \in StatsBins
<1>1. bins[b] \in AnyBin
  BY DEF StatInv, Types
<1>2. bins[b].NumSeconds \in 0 .. MaxTicks
  BY <1>1 DEF AnyBin, StatInv, WindowInv, Types
<1>3. ASSUME NEW t \in StatTypes PROVE bins[b].Stats[t] \in 0 .. MaxCounts
  <2>1. bins[b].Stats[t] = Cardinality(ReceivedIn(b, t))
    BY DEF StatInv, CountInv, EveryCountOnce
  <2>2. Cardinality(ReceivedIn(b, t)) \in Nat /\ Cardinality(ReceivedIn(b, t)) <= Len(taken)
    BY ReceivedFinite DEF StatInv
  <2>3. Len(taken) <= counts /\ counts <= MaxCounts /\ counts \in Nat /\ Len(taken) \in Nat
    BY DEF StatInv, CountInv, EveryCountOnce, Types
  <2>4. QED
    BY <2>1, <2>2, <2>3
<1>4. QED
  BY <1>1, <1>2, <1>3 DEF AnyBin, StatsBins

-----------------------------------------------------------------------------

LEMMA StatInit == Init => StatInv
<1> SUFFICES ASSUME Init PROVE StatInv
  OBVIOUS
<1>1. Types
  <2>1. newStatsBin \in AnyBin
    BY NewBin
  <2>2. bins \in [Bins -> AnyBin \union {NoBin}]
    BY <2>1 DEF Init
  <2>3. nextRollover \in 0 .. Quarter
    BY DEF Init
  <2>4. QED
    BY <2>2, <2>3 DEF Init, Types
<1>2. /\ bins[0] # NoBin /\ bins[0].NumSeconds = 0
      /\ \A t \in StatTypes : bins[0].Stats[t] = 0
  BY BinType, NewBin, NoBinIsNone DEF Init, newStatsBin
<1>3. \A b \in Bins : bins[b] # NoBin <=> b = 0
  BY <1>2 DEF Init
<1>4. rollovers = 0 /\ ticks = 0 /\ taken = <<>> /\ increments = <<>> /\ counts = 0
  BY DEF Init
<1>5. WindowInv
  <2>1. \A b \in Bins : b = 0 <=> b <= rollovers
    BY <1>4, BinType
  <2>2. \A b \in Bins : ~(b < rollovers)
    BY <1>4, BinType
  <2>3. QED
    BY <1>2, <1>3, <1>4, <2>1, <2>2 DEF WindowInv
<1>6. ClockInv
  BY <1>1, <1>2, <1>3, <1>4 DEF ClockInv, Types
<1>7. CountInv
  <2>1. ASSUME NEW b \in Bins, NEW t \in StatTypes, bins[b] # NoBin
        PROVE  bins[b].Stats[t] = Cardinality(ReceivedIn(b, t))
    <3>1. ReceivedIn(b, t) = {}
      BY <1>4 DEF ReceivedIn
    <3>2. QED
      BY <1>2, <1>3, <2>1, <3>1, FS_EmptySet
  <2>2. QED
    BY <1>4, <2>1 DEF CountInv, EveryCountOnce
<1>8. QED
  BY <1>1, <1>5, <1>6, <1>7 DEF StatInv

\* Steps that leave bins and clock alone.
LEMMA StatKept ==
  ASSUME StatInv, Types',
         UNCHANGED <<bins, nextRollover, ticks, rollovers, taken>>,
         counts' = Len(increments') + Len(taken)
  PROVE  StatInv'
<1>1. \A b \in Bins, t \in StatTypes : ReceivedIn(b, t)' = ReceivedIn(b, t)
  BY DEF ReceivedIn
<1>2. EveryCountOnce'
  BY <1>1 DEF StatInv, CountInv, EveryCountOnce
<1>3. QED
  BY <1>2 DEF StatInv, WindowInv, ClockInv, CountInv

LEMMA StatCalls ==
  ASSUME StatInv,
         \/ \E t \in StatTypes : incrementStat(t)
         \/ \E u \in Users : (\E b \in AskBins : Ask(u, b)) \/ Answer(u) \/ AnswerMissing(u)
         \/ Stop
         \/ UNCHANGED vars
  PROVE  StatInv'
<1> USE DEF StatInv
<1>1. counts = Len(increments) + Len(taken) /\ Len(taken) \in Nat
  BY DEF CountInv, EveryCountOnce, Types
<1>2. ASSUME NEW t \in StatTypes, incrementStat(t) PROVE StatInv'
  <2>1. Types'
    BY <1>2 DEF incrementStat, Types
  <2>2. Len(increments') = Len(increments) + 1 /\ counts' = counts + 1
    BY <1>2 DEF incrementStat, Types
  <2>3. Len(increments) \in Nat
    BY DEF Types
  <2>4. counts' = Len(increments') + Len(taken)
    BY <1>1, <2>2, <2>3
  <2>5. QED
    BY <1>2, <2>1, <2>4, StatKept DEF incrementStat
<1>3. ASSUME NEW u \in Users, NEW b \in AskBins, Ask(u, b) PROVE StatInv'
  <2>1. Types'
    BY <1>3 DEF Ask, Types
  <2>2. QED
    BY <1>1, <1>3, <2>1, StatKept DEF Ask
<1>4. ASSUME NEW u \in Users, Answer(u) PROVE StatInv'
  <2>1. bins[asking[u]] \in StatsBins
    BY <1>4, BinsAreBounded DEF Answer
  <2>2. Types'
    BY <1>4, <2>1 DEF Answer, Types
  <2>3. QED
    BY <1>1, <1>4, <2>2, StatKept DEF Answer
<1>5. ASSUME NEW u \in Users, AnswerMissing(u) PROVE StatInv'
  <2>1. Types'
    BY <1>5 DEF AnswerMissing, Types
  <2>2. QED
    BY <1>1, <1>5, <2>1, StatKept DEF AnswerMissing
<1>6. CASE Stop
  <2>1. Types'
    BY <1>6 DEF Stop, Types
  <2>2. QED
    BY <1>1, <1>6, <2>1, StatKept DEF Stop
<1>7. CASE UNCHANGED vars
  <2>1. Types'
    BY <1>7 DEF vars, Types
  <2>2. QED
    BY <1>1, <1>7, <2>1, StatKept DEF vars
<1>8. QED
  BY <1>2, <1>3, <1>4, <1>5, <1>6, <1>7

\* A notification is received: it is one more in the current bin.
LEMMA StatCount ==
  ASSUME StatInv, CountStat
  PROVE  StatInv'
<1>1. PICK t \in StatTypes : t = Head(increments)
  BY DEF CountStat, StatInv, Types
<1>2. /\ bins' = [bins EXCEPT ![0].Stats[t] = @ + 1]
      /\ increments # <<>> /\ increments' = Tail(increments)
      /\ taken' = Append(taken, <<t, rollovers>>)
      /\ UNCHANGED <<nextRollover, trackerPc, asking, answers, ticks, counts, rollovers>>
  BY <1>1 DEF CountStat, AddStat
<1>3. /\ bins \in [Bins -> AnyBin \union {NoBin}] /\ bins[0] \in AnyBin /\ bins[0] # NoBin
      /\ taken \in Seq(StatTypes \X (0 .. MaxTicks)) /\ rollovers \in 0 .. MaxTicks
      /\ increments \in Seq(StatTypes)
  BY CurrentBin DEF StatInv, Types
<1>4. /\ bins'[0] \in AnyBin /\ bins'[0].NumSeconds = bins[0].NumSeconds
      /\ bins'[0].Stats[t] = bins[0].Stats[t] + 1
      /\ \A s \in StatTypes \ {t} : bins'[0].Stats[s] = bins[0].Stats[s]
  <2>1. PICK c \in AnyBin : c = bins[0]
    BY <1>3
  <2>2. bins'[0] = [c EXCEPT !.Stats[t] = @ + 1]
    BY <1>2, <1>3, <2>1, BinType
  <2>3. c.Stats \in [StatTypes -> Nat] /\ c.NumSeconds \in Nat
    BY DEF AnyBin
  <2>4. /\ bins'[0].Stats = [c.Stats EXCEPT ![t] = @ + 1]
        /\ bins'[0].NumSeconds = c.NumSeconds
    BY <2>2 DEF AnyBin
  <2>5. [c.Stats EXCEPT ![t] = @ + 1] \in [StatTypes -> Nat]
    BY <2>3
  <2>6. bins'[0] \in AnyBin
    BY <2>2, <2>3, <2>5 DEF AnyBin
  <2>7. QED
    BY <2>1, <2>3, <2>4, <2>6
<1>5. \A b \in Bins \ {0} : bins'[b] = bins[b]
  BY <1>2, <1>3
<1>6. bins'[0] # NoBin
  BY <1>4, NoBinIsNone
<1>7. Types'
  <2>1. bins' \in [Bins -> AnyBin \union {NoBin}]
    BY <1>2, <1>3, <1>4, <1>5
  <2>2. taken' \in Seq(StatTypes \X (0 .. MaxTicks))
    BY <1>2, <1>3
  <2>3. increments' \in Seq(StatTypes) /\ Len(increments') = Len(increments) - 1
    BY <1>2, <1>3
  <2>4. QED
    BY <1>2, <2>1, <2>2, <2>3 DEF StatInv, Types
<1>8. \A b \in Bins : (bins'[b] # NoBin <=> bins[b] # NoBin)
                      /\ bins'[b].NumSeconds = bins[b].NumSeconds
  BY <1>3, <1>4, <1>5, <1>6
<1>9. WindowInv' /\ ClockInv'
  BY <1>2, <1>8, BinType DEF StatInv, WindowInv, ClockInv
<1>10. /\ Len(taken) \in Nat /\ Len(taken') = Len(taken) + 1
       /\ taken'[Len(taken) + 1] = <<t, rollovers>>
       /\ \A n \in 1 .. Len(taken) : taken'[n] = taken[n]
  BY <1>2, <1>3
<1>11. EveryCountOnce'
  <2>1. counts' = Len(increments') + Len(taken')
    <3>1. counts = Len(increments) + Len(taken)
      BY DEF StatInv, CountInv, EveryCountOnce
    <3>2. Len(increments') = Len(increments) - 1 /\ Len(increments) \in Nat
      BY <1>2, <1>3
    <3>3. QED
      BY <1>2, <1>10, <3>1, <3>2
  <2>2. ASSUME NEW b \in Bins, NEW s \in StatTypes, bins'[b] # NoBin
        PROVE  bins'[b].Stats[s] = Cardinality(ReceivedIn(b, s)')
    <3>1. bins[b].Stats[s] = Cardinality(ReceivedIn(b, s))
      BY <1>8, <2>2 DEF StatInv, CountInv, EveryCountOnce
    <3>2. CASE b = 0 /\ s = t
      <4>1. ReceivedIn(b, s)' = ReceivedIn(b, s) \union {Len(taken) + 1}
        BY <1>2, <1>3, <1>10, <3>2 DEF ReceivedIn
      <4>2. Len(taken) + 1 \notin ReceivedIn(b, s)
        BY <1>10 DEF ReceivedIn
      <4>3. Cardinality(ReceivedIn(b, s)') = Cardinality(ReceivedIn(b, s)) + 1
        BY <4>1, <4>2, ReceivedFinite, FS_AddElement DEF StatInv
      <4>4. QED
        BY <1>4, <3>1, <3>2, <4>3
    <3>3. CASE ~(b = 0 /\ s = t)
      <4>1. <<t, rollovers>> # <<s, rollovers - b>>
        <5>1. b # 0 => rollovers # rollovers - b
          BY <1>3, BinType
        <5>2. QED
          BY <3>3, <5>1
      <4>2. ReceivedIn(b, s)' = ReceivedIn(b, s)
        BY <1>2, <1>10, <4>1 DEF ReceivedIn
      <4>3. bins'[b].Stats[s] = bins[b].Stats[s]
        BY <1>4, <1>5, <3>3
      <4>4. QED
        BY <3>1, <4>2, <4>3
    <3>4. QED
      BY <3>2, <3>3
  <2>3. QED
    BY <2>1, <2>2 DEF EveryCountOnce
<1>12. \A n \in 1 .. Len(taken') : taken'[n][2] <= rollovers'
  <2>1. ASSUME NEW n \in 1 .. Len(taken') PROVE taken'[n][2] <= rollovers'
    <3>1. CASE n = Len(taken) + 1
      BY <1>2, <1>3, <1>10, <3>1
    <3>2. CASE n # Len(taken) + 1
      BY <1>2, <1>10, <3>2 DEF StatInv, CountInv
    <3>3. QED
      BY <3>1, <3>2
  <2>2. QED
    BY <2>1
<1>13. QED
  BY <1>7, <1>9, <1>11, <1>12 DEF StatInv, CountInv

-----------------------------------------------------------------------------
(***************************************************************************)
(* The ticker: the current bin gets longer, and rolls over when it is full.*)
(***************************************************************************)

Longer(bin) == [bin EXCEPT !.NumSeconds = @ + 1]

Full == bins[0].NumSeconds + 1 = nextRollover

LEMMA LongerBin ==
  ASSUME NEW c \in AnyBin
  PROVE  /\ Longer(c) \in AnyBin /\ Longer(c).NumSeconds = c.NumSeconds + 1
         /\ Longer(c).Stats = c.Stats /\ c.NumSeconds \in Nat
BY DEF Longer, AnyBin

\* What a tick does to the clock and the bins, with the conditions that decide.
LEMMA TickBins ==
  ASSUME StatInv, Tick
  PROVE  /\ ticks' = ticks + 1 /\ ticks' <= MaxTicks
         /\ UNCHANGED <<increments, trackerPc, asking, answers, counts, taken>>
         /\ Full => /\ bins' = Shift(Longer(bins[0]))
                    /\ nextRollover' = Quarter /\ rollovers' = rollovers + 1
         /\ ~Full => /\ bins' = [bins EXCEPT ![0] = Longer(bins[0])]
                     /\ UNCHANGED <<nextRollover, rollovers>>
<1>1. bins[0] \in AnyBin
  BY CurrentBin DEF StatInv
<1>2. Longer(bins[0]).NumSeconds = bins[0].NumSeconds + 1
  BY <1>1, LongerBin
<1>3. ticks' = ticks + 1 /\ ticks' <= MaxTicks
  BY DEF Tick, StatInv, Types
<1>4. QED
  BY <1>2, <1>3 DEF Tick, Longer, Full, RolloverAfterFirst

LEMMA StatTickOn ==
  ASSUME StatInv, Tick, ~Full
  PROVE  StatInv'
<1>1. /\ ticks' = ticks + 1 /\ ticks' <= MaxTicks
      /\ UNCHANGED <<increments, trackerPc, asking, answers, counts, taken>>
      /\ bins' = [bins EXCEPT ![0] = Longer(bins[0])]
      /\ UNCHANGED <<nextRollover, rollovers>>
  BY TickBins
<1>2. /\ bins \in [Bins -> AnyBin \union {NoBin}] /\ bins[0] \in AnyBin /\ bins[0] # NoBin
      /\ ticks \in 0 .. MaxTicks /\ nextRollover \in 0 .. Quarter /\ rollovers \in Nat
  BY CurrentBin DEF StatInv, Types
<1>3. /\ bins'[0] \in AnyBin /\ bins'[0].NumSeconds = bins[0].NumSeconds + 1
      /\ bins'[0].Stats = bins[0].Stats /\ bins[0].NumSeconds \in Nat
      /\ \A b \in Bins \ {0} : bins'[b] = bins[b]
  BY <1>1, <1>2, LongerBin, BinType
<1>4. bins'[0] # NoBin
  BY <1>3, NoBinIsNone
<1>5. Types'
  <2>1. bins' \in [Bins -> AnyBin \union {NoBin}]
    BY <1>1, <1>2, <1>3
  <2>2. ticks' \in 0 .. MaxTicks
    BY <1>1, <1>2
  <2>3. QED
    BY <1>1, <2>1, <2>2 DEF StatInv, Types
<1>6. \A b \in Bins : bins[b] # NoBin => bins[b].NumSeconds \in Nat
  BY <1>2 DEF AnyBin
<1>7. WindowInv'
  <2>1. \A b \in Bins : bins'[b] # NoBin <=> b <= rollovers'
    BY <1>1, <1>2, <1>3, <1>4 DEF StatInv, WindowInv
  <2>2. \A b \in Bins \ {0} : b < rollovers' => bins'[b].NumSeconds = Quarter
    BY <1>1, <1>3 DEF StatInv, WindowInv
  <2>3. ASSUME NEW b \in Bins, bins'[b] # NoBin PROVE bins'[b].NumSeconds <= ticks'
    <3>1. CASE b = 0
      BY <1>1, <1>2, <1>3, <3>1 DEF StatInv, WindowInv
    <3>2. CASE b # 0
      <4>1. bins'[b] = bins[b] /\ bins[b].NumSeconds <= ticks /\ bins[b].NumSeconds \in Nat
        BY <1>3, <1>6, <2>3, <3>2 DEF StatInv, WindowInv
      <4>2. QED
        BY <1>1, <1>2, <4>1
    <3>3. QED
      BY <3>1, <3>2
  <2>4. rollovers' <= ticks' /\ (rollovers' > 0 => nextRollover' = Quarter)
    BY <1>1, <1>2 DEF StatInv, WindowInv
  <2>5. QED
    BY <2>1, <2>2, <2>3, <2>4 DEF WindowInv
<1>8. ClockInv'
  <2>1. SUFFICES ASSUME nextRollover # 0 PROVE
          /\ bins'[0].NumSeconds < nextRollover'
          /\ \A b \in Bins : bins'[b] # NoBin => bins'[b].NumSeconds <= Quarter
          /\ ticks' <= rollovers' * Quarter + bins'[0].NumSeconds
    BY <1>1 DEF ClockInv
  <2>2. bins[0].NumSeconds < nextRollover
    BY <2>1 DEF StatInv, ClockInv
  <2>3. bins'[0].NumSeconds < nextRollover
    BY <1>2, <1>3, <2>2 DEF Full
  <2>4. \A b \in Bins : bins'[b] # NoBin => bins'[b].NumSeconds <= Quarter
    BY <1>2, <1>3, <2>1, <2>3 DEF StatInv, ClockInv
  <2>5. ticks' <= rollovers' * Quarter + bins'[0].NumSeconds
    <3>1. PICK q \in Nat : q = rollovers * Quarter
      BY <1>2
    <3>2. ticks <= q + bins[0].NumSeconds
      BY <2>1, <3>1 DEF StatInv, ClockInv
    <3>3. ticks' <= q + bins'[0].NumSeconds
      BY <1>1, <1>2, <1>3, <3>2
    <3>4. QED
      BY <1>1, <3>1, <3>3
  <2>6. QED
    BY <1>1, <2>3, <2>4, <2>5
<1>9. CountInv'
  <2>1. \A b \in Bins, t \in StatTypes : ReceivedIn(b, t)' = ReceivedIn(b, t)
    BY <1>1 DEF ReceivedIn
  <2>2. \A b \in Bins : (bins'[b] # NoBin <=> bins[b] # NoBin) /\ bins'[b].Stats = bins[b].Stats
    BY <1>2, <1>3, <1>4
  <2>3. EveryCountOnce'
    BY <1>1, <2>1, <2>2 DEF StatInv, CountInv, EveryCountOnce
  <2>4. QED
    BY <1>1, <2>3 DEF StatInv, CountInv
<1>10. QED
  BY <1>5, <1>7, <1>8, <1>9 DEF StatInv

LEMMA StatRollover ==
  ASSUME StatInv, Tick, Full
  PROVE  StatInv'
<1>1. /\ ticks' = ticks + 1 /\ ticks' <= MaxTicks
      /\ UNCHANGED <<increments, trackerPc, asking, answers, counts, taken>>
      /\ bins' = Shift(Longer(bins[0]))
      /\ nextRollover' = Quarter /\ rollovers' = rollovers + 1
  BY TickBins
<1>2. /\ bins \in [Bins -> AnyBin \union {NoBin}] /\ bins[0] \in AnyBin /\ bins[0] # NoBin
      /\ ticks \in 0 .. MaxTicks /\ nextRollover \in 0 .. Quarter /\ rollovers \in Nat
      /\ rollovers <= ticks
  BY CurrentBin DEF StatInv, Types, WindowInv
<1>3. bins[0].NumSeconds \in Nat /\ nextRollover = bins[0].NumSeconds + 1
  BY <1>2, LongerBin DEF Full
<1>4. /\ bins'[0] = newStatsBin /\ bins'[1] = Longer(bins[0])
      /\ \A b \in Bins \ {0, 1} : bins'[b] = bins[b - 1]
      /\ bins' = [b \in Bins |-> bins'[b]]
  BY <1>1, BinType DEF Shift
<1>5. /\ bins'[0] \in AnyBin /\ bins'[0].NumSeconds = 0
      /\ \A t \in StatTypes : bins'[0].Stats[t] = 0
  BY <1>4, NewBin DEF newStatsBin
<1>6. /\ bins'[1] \in AnyBin /\ bins'[1].NumSeconds = nextRollover
      /\ bins'[1].Stats = bins[0].Stats
  BY <1>2, <1>3, <1>4, LongerBin
<1>7. bins'[0] # NoBin /\ bins'[1] # NoBin
  BY <1>5, <1>6, NoBinIsNone
<1>8. \A b \in Bins : bins[b] # NoBin => bins[b].NumSeconds \in Nat
  BY <1>2 DEF AnyBin
<1>9. \A b \in Bins \ {0, 1} : b \in Nat /\ b - 1 \in Bins \ {0}
  BY DEF Bins
<1>10. Types'
  <2>1. bins' \in [Bins -> AnyBin \union {NoBin}]
    <3>1. ASSUME NEW b \in Bins PROVE bins'[b] \in AnyBin \union {NoBin}
      BY <1>2, <1>4, <1>5, <1>6, <1>9
    <3>2. QED
      BY <1>4, <3>1
  <2>2. ticks' \in 0 .. MaxTicks /\ rollovers' \in 0 .. MaxTicks
    BY <1>1, <1>2
  <2>3. QED
    BY <1>1, <2>1, <2>2 DEF StatInv, Types
<1>11. WindowInv'
  <2>1. ASSUME NEW b \in Bins PROVE bins'[b] # NoBin <=> b <= rollovers'
    <3>1. CASE b \in {0, 1}
      BY <1>1, <1>2, <1>7, <3>1
    <3>2. CASE b \notin {0, 1}
      <4>1. bins'[b] # NoBin <=> b - 1 <= rollovers
        BY <1>4, <1>9, <3>2 DEF StatInv, WindowInv
      <4>2. QED
        BY <1>1, <1>2, <1>9, <3>2, <4>1
    <3>3. QED
      BY <3>1, <3>2
  <2>2. ASSUME NEW b \in Bins \ {0}, b < rollovers' PROVE bins'[b].NumSeconds = Quarter
    <3>1. CASE b = 1
      BY <1>1, <1>2, <1>6, <2>2, <3>1 DEF StatInv, WindowInv
    <3>2. CASE b # 1
      <4>1. b - 1 < rollovers
        BY <1>1, <1>2, <1>9, <2>2, <3>2
      <4>2. QED
        BY <1>4, <1>9, <3>2, <4>1 DEF StatInv, WindowInv
    <3>3. QED
      BY <3>1, <3>2
  <2>3. ASSUME NEW b \in Bins, bins'[b] # NoBin PROVE bins'[b].NumSeconds <= ticks'
    <3>1. CASE b = 0
      BY <1>1, <1>2, <1>5, <3>1
    <3>2. CASE b = 1
      <4>1. bins[0].NumSeconds <= ticks
        BY <1>2, BinType DEF StatInv, WindowInv
      <4>2. QED
        BY <1>1, <1>2, <1>3, <1>6, <3>2, <4>1
    <3>3. CASE b \notin {0, 1}
      <4>1. PICK c \in Bins : c = b - 1 /\ bins'[b] = bins[c]
        BY <1>4, <1>9, <3>3
      <4>2. bins[c].NumSeconds <= ticks /\ bins[c].NumSeconds \in Nat
        BY <1>8, <2>3, <4>1 DEF StatInv, WindowInv
      <4>3. QED
        BY <1>1, <1>2, <4>1, <4>2
    <3>4. QED
      BY <3>1, <3>2, <3>3
  <2>4. rollovers' <= ticks' /\ nextRollover' = Quarter
    BY <1>1, <1>2
  <2>5. QED
    BY <2>1, <2>2, <2>3, <2>4 DEF WindowInv
<1>12. ClockInv'
  <2>1. nextRollover # 0
    BY <1>3
  <2>2. bins'[0].NumSeconds < nextRollover'
    BY <1>1, <1>5
  <2>3. ASSUME NEW b \in Bins, bins'[b] # NoBin PROVE bins'[b].NumSeconds <= Quarter
    <3>1. CASE b \in {0, 1}
      BY <1>2, <1>5, <1>6, <3>1
    <3>2. CASE b \notin {0, 1}
      BY <1>4, <1>9, <2>1, <2>3, <3>2 DEF StatInv, ClockInv
    <3>3. QED
      BY <3>1, <3>2
  <2>4. ticks' <= rollovers' * Quarter + bins'[0].NumSeconds
    <3>1. PICK q \in Nat : q = rollovers * Quarter
      BY <1>2
    <3>2. (rollovers + 1) * Quarter = q + Quarter
      BY <1>2, <3>1
    <3>3. ticks <= q + bins[0].NumSeconds
      BY <2>1, <3>1 DEF StatInv, ClockInv
    <3>4. ticks' <= q + Quarter
      BY <1>1, <1>2, <1>3, <3>3
    <3>5. ticks' <= q + Quarter + 0
      BY <3>4, <3>1
    <3>6. QED
      BY <1>1, <1>5, <3>2, <3>5
  <2>5. QED
    BY <2>2, <2>3, <2>4 DEF ClockInv
<1>13. CountInv'
  <2>1. ASSUME NEW b \in Bins, NEW t \in StatTypes, bins'[b] # NoBin
        PROVE  bins'[b].Stats[t] = Cardinality(ReceivedIn(b, t)')
    <3>1. CASE b = 0
      <4>1. ReceivedIn(b, t)' = {}
        <5>1. ASSUME NEW n \in 1 .. Len(taken) PROVE taken[n] # <<t, rollovers + 1 - 0>>
          <6>1. taken[n][2] <= rollovers
            BY DEF StatInv, CountInv
          <6>2. QED
            BY <1>2, <6>1
        <5>2. QED
          BY <1>1, <3>1, <5>1 DEF ReceivedIn
      <4>2. QED
        BY <1>5, <3>1, <4>1, FS_EmptySet
    <3>2. CASE b # 0
      <4>1. PICK c \in Bins : c = b - 1
        BY <3>2, BinType
      <4>2. rollovers' - b = rollovers - c
        BY <1>1, <1>2, <4>1, BinType
      <4>3. ReceivedIn(b, t)' = ReceivedIn(c, t)
        BY <1>1, <4>2 DEF ReceivedIn
      <4>4. bins[c] # NoBin /\ bins'[b].Stats = bins[c].Stats
        <5>1. CASE b = 1
          BY <1>2, <1>6, <4>1, <5>1
        <5>2. CASE b # 1
          BY <1>4, <2>1, <3>2, <4>1, <5>2
        <5>3. QED
          BY <5>1, <5>2
      <4>5. QED
        BY <4>3, <4>4 DEF StatInv, CountInv, EveryCountOnce
    <3>3. QED
      BY <3>1, <3>2
  <2>2. EveryCountOnce'
    BY <1>1, <2>1 DEF StatInv, CountInv, EveryCountOnce
  <2>3. ASSUME NEW n \in 1 .. Len(taken') PROVE taken'[n][2] <= rollovers'
    <3>1. taken[n][2] <= rollovers /\ taken[n][2] \in 0 .. MaxTicks
      BY <1>1, <2>3 DEF StatInv, CountInv, Types
    <3>2. QED
      BY <1>1, <1>2, <3>1
  <2>4. QED
    BY <2>2, <2>3 DEF CountInv
<1>14. QED
  BY <1>10, <1>11, <1>12, <1>13 DEF StatInv

LEMMA StatStep == StatInv /\ [Next]_vars => StatInv'
BY StatCalls, StatCount, StatTickOn, StatRollover DEF Next

LEMMA StatAlways == Spec => []StatInv
BY StatInit, StatStep, PTL DEF Spec

-----------------------------------------------------------------------------

\* The variables have the values they are said to: no bin shows more than has been
\* counted, or is longer than the context is old.
THEOREM TypeCorrect == Spec => []TypeOK
<1>1. StatInv => TypeOK
  <2> SUFFICES ASSUME StatInv PROVE TypeOK
    OBVIOUS
  <2>1. bins \in [Bins -> StatsBins \union {NoBin}]
    BY BinsAreBounded DEF StatInv, Types
  <2>2. QED
    BY <2>1 DEF StatInv, Types, TypeOK
<1>2. QED
  BY <1>1, StatAlways, PTL

\* Every notification is in the channel or, once, in the bin of the quarter of an
\* hour it was received in.
THEOREM CountedOnce == Spec => []EveryCountOnce
<1>1. StatInv => EveryCountOnce
  BY DEF StatInv, CountInv
<1>2. QED
  BY <1>1, StatAlways, PTL

\* The bins are those of consecutive quarters of an hour.
THEOREM Consecutive == Spec => []BinsAreConsecutive
<1>1. StatInv => BinsAreConsecutive
  <2> SUFFICES ASSUME StatInv PROVE BinsAreConsecutive
    OBVIOUS
  <2>1. bins[0] # NoBin /\ rollovers \in Nat
    BY CurrentBin DEF StatInv, Types
  <2>2. ASSUME NEW b \in Bins \ {0}, bins[b] # NoBin PROVE bins[b - 1] # NoBin
    <3>1. b <= rollovers /\ b - 1 \in Bins /\ b \in Nat
      BY <2>2, BinType DEF StatInv, WindowInv
    <3>2. b - 1 <= rollovers
      BY <2>1, <3>1
    <3>3. QED
      BY <3>1, <3>2 DEF StatInv, WindowInv
  <2>3. ASSUME NEW b \in Bins \ {0}, b + 1 \in Bins, bins[b + 1] # NoBin
        PROVE  bins[b].NumSeconds = Quarter
    <3>1. b + 1 <= rollovers /\ b \in Nat
      BY <2>3, BinType DEF StatInv, WindowInv
    <3>2. b < rollovers
      BY <2>1, <3>1
    <3>3. QED
      BY <3>2 DEF StatInv, WindowInv
  <2>4. QED
    BY <2>1, <2>2, <2>3 DEF BinsAreConsecutive
<1>2. QED
  BY <1>1, StatAlways, PTL

\* No bin covers more than a quarter of an hour, but in a context made right at the
\* start of one.
THEOREM QuarterAtMost == Spec => []NoLongBin
<1>1. StatInv => NoLongBin
  BY DEF StatInv, ClockInv, NoLongBin
<1>2. QED
  BY <1>1, StatAlways, PTL

LEMMA FewerQuarters ==
  ASSUME NEW b \in Nat, NEW k \in Nat, NEW s \in Nat,
         b * Quarter <= k * Quarter + s, s < Quarter
  PROVE  b <= k
<1>1. SUFFICES ASSUME b >= k + 1 PROVE FALSE
  OBVIOUS
<1>2. PICK d \in Nat : b = k + 1 + d
  <2>1. b - (k + 1) \in Nat /\ b = k + 1 + (b - (k + 1))
    BY <1>1
  <2>2. QED
    BY <2>1
<1>3. b * Quarter = k * Quarter + Quarter + d * Quarter
  BY <1>2
<1>4. d * Quarter \in Nat /\ k * Quarter \in Nat
  OBVIOUS
<1>5. QED
  BY <1>3, <1>4

\* The bin of every quarter of an hour that has passed is there to be asked for,
\* but in a context made right at the start of one.
THEOREM PastQuarters == Spec => []PastQuartersAreThere
<1>1. StatInv => PastQuartersAreThere
  <2> SUFFICES ASSUME StatInv, nextRollover # 0, NEW b \in Bins, b * Quarter <= ticks
      PROVE  bins[b] # NoBin
    BY DEF PastQuartersAreThere
  <2>1. /\ bins[0].NumSeconds \in Nat /\ rollovers \in Nat /\ ticks \in Nat /\ b \in Nat
        /\ nextRollover \in 0 .. Quarter
    BY CurrentBin, LongerBin, BinType DEF StatInv, Types
  <2>2. PICK s \in Nat : s = bins[0].NumSeconds
    BY <2>1
  <2>3. s < Quarter
    <3>1. s < nextRollover
      BY <2>2 DEF StatInv, ClockInv
    <3>2. QED
      BY <2>1, <2>2, <3>1
  <2>4. b * Quarter <= rollovers * Quarter + s
    <3>1. PICK x \in Nat : x = b * Quarter
      BY <2>1
    <3>2. PICK y \in Nat : y = rollovers * Quarter
      BY <2>1
    <3>3. ticks <= y + s
      BY <2>2, <3>2 DEF StatInv, ClockInv
    <3>4. x <= y + s
      BY <2>1, <3>1, <3>3
    <3>5. QED
      BY <3>1, <3>2, <3>4
  <2>5. b <= rollovers
    BY <2>1, <2>3, <2>4, FewerQuarters
  <2>6. QED
    BY <2>5 DEF StatInv, WindowInv
<1>2. QED
  BY <1>1, StatAlways, PTL
=============================================================================
