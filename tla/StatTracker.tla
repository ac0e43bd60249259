----------------------------- MODULE StatTracker -----------------------------
(***************************************************************************)
(* The statistics of an snmpContext: goroutines that count on the buffered *)
(* channel statIncrementNotifications, the stats goroutine (trackStats)    *)
(* that adds the notifications up in fifteen minute bins, and users that   *)
(* ask for a bin (GetStat and GetStatsBin, which differ only in how much   *)
(* of the bin they return).                                                *)
(***************************************************************************)
EXTENDS Integers, Sequences, FiniteSets

CONSTANTS
  Users,        \* goroutines that ask
  StatTypes,
  NumBins,      \* len(fifteenMinuteBins) (97 in the code)
  Quarter,      \* ticks in a bin, 900 in the code
  StatCap,      \* capacity of statIncrementNotifications (100 in the code)
  AskBins,      \* bins that users ask for, any uint8 in the code
  MaxCounts,    \* bound: calls of incrementStat in one behaviour
  MaxTicks,     \* bound: ticks of the ticker in one behaviour
  StartOffsets, \* how far into a quarter of an hour the context may be made
  NoBin,        \* Go's nil, for a *StatsBin
  NoAnswer

ASSUME StatAssumption ==
  /\ NumBins \in Nat \ {0, 1} /\ Quarter \in Nat \ {0} /\ StatCap \in Nat \ {0}
  /\ MaxCounts \in Nat /\ MaxTicks \in Nat
  /\ AskBins \subseteq Nat
  /\ NoBin \notin [Stats : [StatTypes -> Nat], NumSeconds : Nat]
  /\ StartOffsets \subseteq 0 .. Quarter - 1

VARIABLES
  bins,          \* fifteenMinuteBins
  nextRollover,
  increments,    \* statIncrementNotifications: what was counted
  trackerPc,     \* "select", "crashed" (a panic ends the program) or "stopped"
  asking,        \* the bin each user waits for, or NoBin
  answers,       \* the last answer each user got
  ticks, counts, \* history: ticks so far, notifications sent so far
  rollovers,     \* history: rollovers so far, the number of the current quarter
  taken          \* history: the notifications received, each with its quarter

vars == <<bins, nextRollover, increments, trackerPc, asking, answers, ticks, counts,
          rollovers, taken>>

Bins == 0 .. NumBins - 1

newStatsBin == [Stats |-> [t \in StatTypes |-> 0], NumSeconds |-> 0]

\* The seconds since the last quarter of an hour, where those to the next one
\* were meant.
Init ==
  /\ bins = [b \in Bins |-> IF b = 0 THEN newStatsBin ELSE NoBin]
  /\ nextRollover \in StartOffsets
  /\ increments = <<>>
  /\ trackerPc = "select"
  /\ asking = [u \in Users |-> NoBin]
  /\ answers = [u \in Users |-> NoAnswer]
  /\ ticks = 0 /\ counts = 0 /\ rollovers = 0 /\ taken = <<>>

-----------------------------------------------------------------------------

\* The program runs: nothing else happens after a panic.
Running == trackerPc # "crashed"

incrementStat(t) ==
  /\ Running
  /\ counts < MaxCounts
  /\ Len(increments) < StatCap
  /\ increments' = Append(increments, t)
  /\ counts' = counts + 1
  /\ UNCHANGED <<bins, nextRollover, trackerPc, asking, answers, ticks, rollovers, taken>>

\* A user sends a request on the unbuffered statRequests and waits.
Ask(u, b) ==
  /\ Running
  /\ asking[u] = NoBin
  /\ asking' = [asking EXCEPT ![u] = b]
  /\ UNCHANGED <<bins, nextRollover, increments, trackerPc, answers, ticks, counts,
                 rollovers, taken>>

\* Mutation: a notification counts twice.
AddStatTwice(t) == [bins EXCEPT ![0].Stats[t] = @ + 2]

AddStat(t) == [bins EXCEPT ![0].Stats[t] = @ + 1]

CountStat ==
  /\ trackerPc = "select"
  /\ increments # <<>>
  /\ bins' = AddStat(Head(increments))
  /\ increments' = Tail(increments)
  /\ taken' = Append(taken, <<Head(increments), rollovers>>)
  /\ UNCHANGED <<nextRollover, trackerPc, asking, answers, ticks, counts, rollovers>>

\* A copy of a bin that is there.
Answer(u) ==
  /\ trackerPc = "select"
  /\ asking[u] \in Bins
  /\ bins[asking[u]] # NoBin
  /\ answers' = [answers EXCEPT ![u] = bins[asking[u]]]
  /\ asking' = [asking EXCEPT ![u] = NoBin]
  /\ UNCHANGED <<bins, nextRollover, increments, trackerPc, ticks, counts, rollovers, taken>>

\* A bin that has not been filled yet is a nil pointer; one beyond the last is
\* answered with nil, then used as an index.
AnswerMissing(u) ==
  /\ trackerPc = "select"
  /\ \/ /\ asking[u] \in Bins
        /\ bins[asking[u]] = NoBin
        /\ UNCHANGED <<answers, asking>>
     \/ /\ asking[u] \in Nat \ Bins
        /\ answers' = [answers EXCEPT ![u] = NoAnswer]
        /\ asking' = [asking EXCEPT ![u] = NoBin]
  /\ trackerPc' = "crashed"
  /\ UNCHANGED <<bins, nextRollover, increments, ticks, counts, rollovers, taken>>

\* Mutation: the bins are shifted in ascending order, each over the next.
ShiftAscending(full) ==
  [b \in Bins |-> IF b = 0 THEN newStatsBin ELSE full]

\* Mutation: the loop stops before the first bin but one is filled.
ShiftTooFew(full) ==
  [b \in Bins |-> IF b = 0 THEN newStatsBin ELSE IF b = 1 THEN bins[1] ELSE bins[b - 1]]

Shift(full) ==
  [b \in Bins |-> IF b = 0 THEN newStatsBin ELSE IF b = 1 THEN full ELSE bins[b - 1]]

\* Mutation: the length of the next bin is not reset.
KeepRollover == nextRollover

\* Mutation: off by one.
RolloverLate == Quarter + 1

RolloverAfterFirst == Quarter

Tick ==
  /\ trackerPc = "select"
  /\ ticks < MaxTicks
  /\ ticks' = ticks + 1
  /\ LET current == [bins[0] EXCEPT !.NumSeconds = @ + 1]
     IN IF current.NumSeconds = nextRollover
        THEN /\ bins' = Shift(current)
             /\ nextRollover' = RolloverAfterFirst
             /\ rollovers' = rollovers + 1
        ELSE /\ bins' = [bins EXCEPT ![0] = current]
             /\ UNCHANGED <<nextRollover, rollovers>>
  /\ UNCHANGED <<increments, trackerPc, asking, answers, counts, taken>>

\* internalShutdownNotification has been closed.
Stop ==
  /\ trackerPc = "select"
  /\ trackerPc' = "stopped"
  /\ UNCHANGED <<bins, nextRollover, increments, asking, answers, ticks, counts, rollovers,
                 taken>>

Next ==
  \/ \E t \in StatTypes : incrementStat(t)
  \/ \E u \in Users :
       \/ \E b \in AskBins : Ask(u, b)
       \/ Answer(u)
       \/ AnswerMissing(u)
  \/ CountStat
  \/ Tick
  \/ Stop

Spec == Init /\ [][Next]_vars

-----------------------------------------------------------------------------

StatsBins == [Stats : [StatTypes -> 0 .. MaxCounts], NumSeconds : 0 .. MaxTicks]

\* The values the variables take (every variable above).
TypeOK ==
  /\ bins \in [Bins -> StatsBins \union {NoBin}]
  /\ nextRollover \in 0 .. Quarter
  /\ increments \in Seq(StatTypes) /\ Len(increments) <= StatCap
  /\ trackerPc \in {"select", "crashed", "stopped"}
  /\ asking \in [Users -> AskBins \union {NoBin}]
  /\ answers \in [Users -> StatsBins \union {NoAnswer}]
  /\ ticks \in 0 .. MaxTicks /\ counts \in 0 .. MaxCounts
  /\ rollovers \in 0 .. MaxTicks
  /\ taken \in Seq(StatTypes \X (0 .. MaxTicks))

\* The notifications of type t that were received in the quarter of bin b.
ReceivedIn(b, t) == {n \in 1 .. Len(taken) : taken[n] = <<t, rollovers - b>>}

(***************************************************************************)
(* Every call of incrementStat is in the channel or has been received, and *)
(* what bin b shows is what was received in the b-th quarter of an hour    *)
(* before the current one, once each: a rollover loses nothing, counts     *)
(* nothing twice and puts nothing in another quarter's bin (trackStats).   *)
(***************************************************************************)
EveryCountOnce ==
  /\ counts = Len(increments) + Len(taken)
  /\ \A b \in Bins, t \in StatTypes : bins[b] # NoBin =>
       bins[b].Stats[t] = Cardinality(ReceivedIn(b, t))

(***************************************************************************)
(* Bin b covers the b-th quarter of an hour before the current one: bins   *)
(* fill up without gaps, and every bin but the current one and the first   *)
(* one of all is exactly a quarter of an hour long (trackStats).           *)
(***************************************************************************)
BinsAreConsecutive ==
  /\ bins[0] # NoBin
  /\ \A b \in Bins \ {0} : bins[b] # NoBin => bins[b - 1] # NoBin
  /\ \A b \in Bins \ {0} :
       b + 1 \in Bins /\ bins[b + 1] # NoBin => bins[b].NumSeconds = Quarter

(***************************************************************************)
(* No bin covers more than "fifteen minutes" (snmp.go:281), except in a    *)
(* context made right at the start of a quarter of an hour: it waits to    *)
(* roll over after 0 seconds, and never does (trackStats).                 *)
(***************************************************************************)
NoLongBin ==
  nextRollover # 0 => \A b \in Bins : bins[b] # NoBin => bins[b].NumSeconds <= Quarter

(***************************************************************************)
(* The bin of a quarter of an hour that has passed since the context was   *)
(* made is there: asking for it does not end the program, as asking for a  *)
(* later one does (trackStats).  The same contexts are excepted.           *)
(***************************************************************************)
PastQuartersAreThere ==
  nextRollover # 0 => \A b \in Bins : b * Quarter <= ticks => bins[b] # NoBin
=============================================================================
