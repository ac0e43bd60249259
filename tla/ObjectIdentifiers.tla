------------------------- MODULE ObjectIdentifiers -------------------------
(***************************************************************************)
(* Object identifiers as sequences of numbers: the order in which the      *)
(* agent's tree of handlers keeps them, and how far two of them agree.     *)
(***************************************************************************)
EXTENDS Integers, Sequences, FiniteSetsExt

Equal(a, b) == Len(a) = Len(b) /\ \A i \in DOMAIN a : a[i] = b[i]

\* The indexes of a at which a is found to differ from b.  Compare and
\* MatchLength both stop at the first of them.
Differences(a, b) == {i \in DOMAIN a : i > Len(b) \/ a[i] # b[i]}

\* Mutation: the answer for identifiers that agree as far as the shorter goes
\* is the same whichever it is.
ComparePrefixesAsOne(a, b) ==
  IF Differences(a, b) = {} THEN 0
  ELSE LET i == Min(Differences(a, b)) IN IF i > Len(b) THEN 0 ELSE a[i] - b[i]

\* Negative if a comes before b, 0 if they are equal, positive if a comes after b.
Compare(a, b) ==
  IF Differences(a, b) = {} THEN IF Len(a) = Len(b) THEN 0 ELSE -1
  ELSE LET i == Min(Differences(a, b)) IN IF i > Len(b) THEN 1 ELSE a[i] - b[i]

MatchLength(a, b) ==
  IF Differences(a, b) = {} THEN Len(a) ELSE Min(Differences(a, b)) - 1
=============================================================================
