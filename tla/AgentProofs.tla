---------------------------- MODULE AgentProofs ----------------------------
(***************************************************************************)
(* Proofs about Agent, for any handlers, identifiers, values and requests, *)
(* and any capacity of the queue of responses; and first about the order   *)
(* of its tree of handlers (ObjectIdentifiers).                            *)
(***************************************************************************)
EXTENDS Agent, WellFoundedInduction, FiniteSetTheorems, TLAPS

-----------------------------------------------------------------------------
(***************************************************************************)
(* Compare is a total order on object identifiers, of any length and with  *)
(* any numbers in them, and it is 0 for equal ones alone.                  *)
(***************************************************************************)

Identifiers == Seq(Nat)

\* A relation that holds for n < m and has least elements.
LEMMA NatIsWellFounded ==
  ASSUME NEW S \in SUBSET Nat, S # {}
  PROVE  \E R : /\ \A n, m \in Nat : n < m => <<n, m>> \in R
                /\ \E m \in S : \A n \in S : ~(<<n, m>> \in R)
<1>1. \A n, m \in Nat : n < m => <<n, m>> \in OpToRel(<, Nat)
  BY DEF OpToRel
<1>2. \E m \in S : \A n \in S : ~(<<n, m>> \in OpToRel(<, Nat))
  BY WFMin, NatLessThanWellFounded
<1>3. QED
  BY <1>1, <1>2, Zenon

LEMMA LeastElement ==
  ASSUME NEW S \in SUBSET Nat, S # {}
  PROVE  Min(S) \in S /\ \A n \in S : Min(S) <= n
<1>1. PICK R : /\ \A n, m \in Nat : n < m => <<n, m>> \in R
               /\ \E m \in S : \A n \in S : ~(<<n, m>> \in R)
  BY NatIsWellFounded
<1>2. PICK m \in S : \A n \in S : ~(<<n, m>> \in R)
  BY <1>1
<1>3. ASSUME NEW n \in S PROVE m <= n
  <2>1. n \in Nat /\ m \in Nat
    OBVIOUS
  <2>2. ~(n < m)
    BY <1>1, <1>2, <2>1, Zenon
  <2>3. QED
    BY <2>1, <2>2
<1>4. QED
  BY <1>3 DEF Min

\* a is the same as b before index i.
AgreeBefore(a, b, i) == \A j \in 1 .. i - 1 : j <= Len(a) /\ j <= Len(b) /\ a[j] = b[j]

\* a comes before b because of what they have at index i.
BeforeAt(a, b, i) ==
  /\ i \in 1 .. Len(b)
  /\ AgreeBefore(a, b, i)
  /\ i = Len(a) + 1 \/ (i <= Len(a) /\ a[i] < b[i])

LEMMA FirstDifference ==
  ASSUME NEW a \in Identifiers, NEW b \in Identifiers, Differences(a, b) # {}
  PROVE  LET i == Min(Differences(a, b))
         IN /\ i \in 1 .. Len(a)
            /\ i <= Len(b) + 1
            /\ AgreeBefore(a, b, i)
            /\ i <= Len(b) => a[i] # b[i]
<1> DEFINE D == Differences(a, b)
           i == Min(D)
<1>1. D \in SUBSET Nat
  BY DEF Differences, Identifiers
<1>2. i \in D /\ \A n \in D : i <= n
  BY <1>1, LeastElement
<1>3. i \in 1 .. Len(a) /\ (i <= Len(b) => a[i] # b[i])
  BY <1>2 DEF Differences, Identifiers
<1>4. ASSUME NEW j \in 1 .. i - 1
      PROVE  j <= Len(a) /\ j <= Len(b) /\ a[j] = b[j]
  <2>1. j \in DOMAIN a /\ j \notin D
    BY <1>2, <1>3, <1>4 DEF Identifiers
  <2>2. ~(j > Len(b)) /\ a[j] = b[j]
    BY <2>1 DEF Differences
  <2>3. j \in Nat /\ Len(b) \in Nat /\ j <= Len(a)
    BY <2>1 DEF Identifiers
  <2>4. QED
    BY <2>2, <2>3
<1>5. i <= Len(b) + 1
  <2>1. SUFFICES ASSUME i > Len(b) + 1 PROVE FALSE
    BY <1>3 DEF Identifiers
  <2>2. Len(b) + 1 \in 1 .. i - 1
    BY <2>1, <1>3 DEF Identifiers
  <2>3. QED
    BY <2>2, <1>4 DEF Identifiers
<1>6. QED
  BY <1>3, <1>4, <1>5 DEF AgreeBefore

LEMMA CompareType ==
  ASSUME NEW a \in Identifiers, NEW b \in Identifiers
  PROVE  Compare(a, b) \in Int
<1>1. CASE Differences(a, b) = {}
  BY <1>1 DEF Compare
<1>2. CASE Differences(a, b) # {}
  BY <1>2, FirstDifference DEF Compare, Identifiers
<1>3. QED
  BY <1>1, <1>2

\* Without differences, the first identifier is the beginning of the second.
LEMMA NoDifference ==
  ASSUME NEW a \in Identifiers, NEW b \in Identifiers, Differences(a, b) = {}
  PROVE  Len(a) <= Len(b) /\ AgreeBefore(a, b, Len(a) + 1)
<1>1. ASSUME NEW j \in 1 .. Len(a) PROVE j <= Len(b) /\ a[j] = b[j]
  BY <1>1 DEF Differences, Identifiers
<1>2. Len(a) <= Len(b)
  BY <1>1 DEF Identifiers
<1>3. QED
  BY <1>1, <1>2 DEF AgreeBefore, Identifiers

(***************************************************************************)
(* Compare is 0 exactly for identifiers that Equal finds equal: a handler  *)
(* registered under an identifier replaces only one under the same.        *)
(***************************************************************************)
THEOREM CompareFindsEqual ==
  ASSUME NEW a \in Identifiers, NEW b \in Identifiers
  PROVE  (Compare(a, b) = 0 <=> Equal(a, b)) /\ (Equal(a, b) <=> a = b)
<1>1. Equal(a, b) <=> a = b
  BY DEF Equal, Identifiers
<1>2. CASE Differences(a, b) = {}
  <2>1. Len(a) <= Len(b) /\ AgreeBefore(a, b, Len(a) + 1)
    BY <1>2, NoDifference
  <2>2. Compare(a, b) = 0 <=> Len(a) = Len(b)
    BY <1>2 DEF Compare
  <2>3. Len(a) = Len(b) => Equal(a, b)
    BY <2>1 DEF Equal, AgreeBefore, Identifiers
  <2>4. QED
    BY <1>1, <2>2, <2>3 DEF Equal
<1>3. CASE Differences(a, b) # {}
  <2> DEFINE i == Min(Differences(a, b))
  <2>1. i \in 1 .. Len(a) /\ (i <= Len(b) => a[i] # b[i])
    BY <1>3, FirstDifference
  <2>2. ~Equal(a, b)
    BY <2>1 DEF Equal, Identifiers
  <2>3. Compare(a, b) # 0
    BY <1>3, <2>1 DEF Compare, Identifiers
  <2>4. QED
    BY <1>1, <2>2, <2>3
<1>4. QED
  BY <1>2, <1>3

\* What Compare decides, in terms of the first index where the two differ.
LEMMA CompareMeans ==
  ASSUME NEW a \in Identifiers, NEW b \in Identifiers
  PROVE  /\ Compare(a, b) < 0 => \E i \in Nat : BeforeAt(a, b, i)
         /\ Compare(a, b) > 0 => \E i \in Nat : BeforeAt(b, a, i)
<1>1. CASE Differences(a, b) = {}
  <2>1. Len(a) <= Len(b) /\ AgreeBefore(a, b, Len(a) + 1)
    BY <1>1, NoDifference
  <2>2. Compare(a, b) = IF Len(a) = Len(b) THEN 0 ELSE -1
    BY <1>1 DEF Compare
  <2>3. Len(a) # Len(b) => BeforeAt(a, b, Len(a) + 1)
    BY <2>1 DEF BeforeAt, Identifiers
  <2>4. QED
    BY <2>2, <2>3 DEF Identifiers
<1>2. CASE Differences(a, b) # {}
  <2> DEFINE i == Min(Differences(a, b))
  <2>1. /\ i \in 1 .. Len(a)
        /\ i <= Len(b) + 1
        /\ AgreeBefore(a, b, i)
        /\ i <= Len(b) => a[i] # b[i]
    BY <1>2, FirstDifference
  <2>2. Compare(a, b) = IF i > Len(b) THEN 1 ELSE a[i] - b[i]
    BY <1>2 DEF Compare
  <2>3. AgreeBefore(b, a, i)
    BY <2>1 DEF AgreeBefore
  <2>4. CASE i > Len(b)
    <3>1. i = Len(b) + 1
      BY <2>1, <2>4 DEF Identifiers
    <3>2. BeforeAt(b, a, i)
      BY <2>1, <2>3, <3>1 DEF BeforeAt
    <3>3. QED
      BY <2>1, <2>2, <2>4, <3>2
  <2>5. CASE i <= Len(b)
    <3>1. a[i] \in Nat /\ b[i] \in Nat
      BY <2>1, <2>5 DEF Identifiers
    <3>2. a[i] < b[i] => BeforeAt(a, b, i)
      BY <2>1, <2>5 DEF BeforeAt, Identifiers
    <3>3. b[i] < a[i] => BeforeAt(b, a, i)
      BY <2>1, <2>3, <2>5 DEF BeforeAt, Identifiers
    <3>4. Compare(a, b) = a[i] - b[i]
      BY <2>1, <2>2, <2>5 DEF Identifiers
    <3>5. QED
      BY <2>1, <3>1, <3>2, <3>3, <3>4
  <2>6. QED
    BY <2>1, <2>4, <2>5 DEF Identifiers
<1>3. QED
  BY <1>1, <1>2

\* What agrees with something that agrees with a third agrees with it too.
LEMMA AgreementChains ==
  ASSUME NEW a, NEW b, NEW c, NEW i \in Nat, NEW j \in Nat, NEW k \in Nat,
         AgreeBefore(a, b, i), AgreeBefore(b, c, j), k <= i, k <= j
  PROVE  AgreeBefore(a, c, k)
<1>1. ASSUME NEW n \in 1 .. k - 1
      PROVE  n <= Len(a) /\ n <= Len(c) /\ a[n] = c[n]
  <2>1. n \in 1 .. i - 1 /\ n \in 1 .. j - 1
    BY <1>1
  <2>2. n <= Len(a) /\ a[n] = b[n]
    BY <2>1 DEF AgreeBefore
  <2>3. n <= Len(c) /\ b[n] = c[n]
    BY <2>1 DEF AgreeBefore
  <2>4. QED
    BY <2>2, <2>3
<1>2. QED
  BY <1>1 DEF AgreeBefore

LEMMA IdentifierTypes ==
  ASSUME NEW a \in Identifiers
  PROVE  Len(a) \in Nat /\ \A n \in 1 .. Len(a) : a[n] \in Nat
BY DEF Identifiers

LEMMA BeforeIsAsymmetric ==
  ASSUME NEW a \in Identifiers, NEW b \in Identifiers, NEW i \in Nat, NEW j \in Nat,
         BeforeAt(a, b, i), BeforeAt(b, a, j)
  PROVE  FALSE
<1>1. Len(a) \in Nat /\ Len(b) \in Nat
  BY IdentifierTypes
<1>2. /\ i \in 1 .. Len(b) /\ AgreeBefore(a, b, i)
      /\ i = Len(a) + 1 \/ (i <= Len(a) /\ a[i] < b[i])
  BY DEF BeforeAt
<1>3. /\ j \in 1 .. Len(a) /\ AgreeBefore(b, a, j)
      /\ j = Len(b) + 1 \/ (j <= Len(b) /\ b[j] < a[j])
  BY DEF BeforeAt
<1>4. i \in 1 .. Len(a) => a[i] \in Nat /\ b[i] \in Nat
  BY <1>2, IdentifierTypes
<1>5. j \in 1 .. Len(b) => a[j] \in Nat /\ b[j] \in Nat
  BY <1>3, IdentifierTypes
<1>6. CASE i < j
  <2>1. i <= Len(a) /\ b[i] = a[i]
    BY <1>1, <1>2, <1>3, <1>6 DEF AgreeBefore
  <2>2. QED
    BY <1>1, <1>2, <1>4, <2>1
<1>7. CASE j < i
  <2>1. j <= Len(b) /\ a[j] = b[j]
    BY <1>1, <1>2, <1>3, <1>7 DEF AgreeBefore
  <2>2. QED
    BY <1>1, <1>3, <1>5, <2>1
<1>8. CASE i = j
  BY <1>1, <1>2, <1>3, <1>4, <1>8
<1>9. QED
  BY <1>6, <1>7, <1>8

LEMMA BeforeIsTransitive ==
  ASSUME NEW a \in Identifiers, NEW b \in Identifiers, NEW c \in Identifiers,
         NEW i \in Nat, NEW j \in Nat, BeforeAt(a, b, i), BeforeAt(b, c, j)
  PROVE  \E k \in Nat : BeforeAt(a, c, k)
<1>1. Len(a) \in Nat /\ Len(b) \in Nat /\ Len(c) \in Nat
  BY IdentifierTypes
<1>2. /\ i \in 1 .. Len(b) /\ AgreeBefore(a, b, i)
      /\ i = Len(a) + 1 \/ (i <= Len(a) /\ a[i] < b[i])
  BY DEF BeforeAt
<1>3. /\ j \in 1 .. Len(c) /\ AgreeBefore(b, c, j)
      /\ j = Len(b) + 1 \/ (j <= Len(b) /\ b[j] < c[j])
  BY DEF BeforeAt
<1>4. CASE i < j
  <2>1. AgreeBefore(a, c, i)
    BY <1>2, <1>3, <1>4, AgreementChains
  <2>2. i <= Len(c) /\ b[i] = c[i]
    BY <1>1, <1>2, <1>3, <1>4 DEF AgreeBefore
  <2>3. BeforeAt(a, c, i)
    BY <1>1, <1>2, <2>1, <2>2 DEF BeforeAt
  <2>4. QED
    BY <2>3
<1>5. CASE j < i
  <2>1. AgreeBefore(a, c, j)
    BY <1>2, <1>3, <1>5, AgreementChains
  <2>2. j <= Len(a) /\ a[j] = b[j]
    BY <1>1, <1>2, <1>3, <1>5 DEF AgreeBefore
  <2>3. j <= Len(b) /\ b[j] < c[j]
    BY <1>1, <1>2, <1>3, <1>5
  <2>4. BeforeAt(a, c, j)
    BY <1>1, <1>3, <2>1, <2>2, <2>3 DEF BeforeAt
  <2>5. QED
    BY <2>4
<1>6. CASE i = j
  <2>1. AgreeBefore(a, c, i)
    BY <1>2, <1>3, <1>6, AgreementChains
  <2>2. b[i] < c[i]
    BY <1>1, <1>2, <1>3, <1>6
  <2>3. b[i] \in Nat /\ c[i] \in Nat /\ (i <= Len(a) => a[i] \in Nat)
    BY <1>1, <1>2, <1>3, <1>6, IdentifierTypes
  <2>4. i = Len(a) + 1 \/ (i <= Len(a) /\ a[i] < c[i])
    BY <1>1, <1>2, <2>2, <2>3
  <2>5. BeforeAt(a, c, i)
    BY <1>3, <1>6, <2>1, <2>4 DEF BeforeAt
  <2>6. QED
    BY <2>5
<1>7. QED
  BY <1>4, <1>5, <1>6

LEMMA BeforeIsNegative ==
  ASSUME NEW a \in Identifiers, NEW b \in Identifiers, NEW i \in Nat, BeforeAt(a, b, i)
  PROVE  Compare(a, b) < 0
<1>1. Compare(a, b) \in Int
  BY CompareType
<1>2. CASE Compare(a, b) > 0
  BY <1>2, CompareMeans, BeforeIsAsymmetric
<1>3. CASE Compare(a, b) = 0
  <2>1. a = b
    BY <1>3, CompareFindsEqual
  <2>2. BeforeAt(b, a, i)
    BY <2>1
  <2>3. QED
    BY <2>2, BeforeIsAsymmetric
<1>4. QED
  BY <1>1, <1>2, <1>3

(***************************************************************************)
(* The two orders of asking give opposite answers, as the tree of handlers *)
(* needs (Compare is what its nodes are kept in order by).                 *)
(***************************************************************************)
THEOREM CompareIsAntisymmetric ==
  ASSUME NEW a \in Identifiers, NEW b \in Identifiers
  PROVE  (Compare(a, b) < 0 <=> Compare(b, a) > 0)
<1>1. Compare(a, b) < 0 => Compare(b, a) > 0
  <2>1. SUFFICES ASSUME Compare(a, b) < 0, ~(Compare(b, a) > 0) PROVE FALSE
    OBVIOUS
  <2>2. PICK i \in Nat : BeforeAt(a, b, i)
    BY <2>1, CompareMeans
  <2>3. Compare(b, a) \in Int
    BY CompareType
  <2>4. CASE Compare(b, a) < 0
    BY <2>2, <2>4, CompareMeans, BeforeIsAsymmetric
  <2>5. CASE Compare(b, a) = 0
    <3>1. Compare(a, b) = 0
      BY <2>5, CompareFindsEqual
    <3>2. QED
      BY <2>1, <3>1
  <2>6. QED
    BY <2>1, <2>3, <2>4, <2>5
<1>2. Compare(b, a) > 0 => Compare(a, b) < 0
  BY CompareMeans, BeforeIsNegative
<1>3. QED
  BY <1>1, <1>2

(***************************************************************************)
(* What comes before something comes before all that follows it, so that   *)
(* one search in the tree of handlers is enough.                           *)
(***************************************************************************)
THEOREM CompareIsTransitive ==
  ASSUME NEW a \in Identifiers, NEW b \in Identifiers, NEW c \in Identifiers,
         Compare(a, b) < 0, Compare(b, c) < 0
  PROVE  Compare(a, c) < 0
<1>1. PICK i \in Nat : BeforeAt(a, b, i)
  BY CompareMeans
<1>2. PICK j \in Nat : BeforeAt(b, c, j)
  BY CompareMeans
<1>3. PICK k \in Nat : BeforeAt(a, c, k)
  BY <1>1, <1>2, BeforeIsTransitive
<1>4. QED
  BY <1>3, BeforeIsNegative

-----------------------------------------------------------------------------
USE AgentAssumption

-----------------------------------------------------------------------------
(***************************************************************************)
(* The tree of handlers.                                                   *)
(***************************************************************************)

\* A finite set of identifiers has one that no other comes before.
LEMMA LeastIdentifier ==
  ASSUME NEW S \in SUBSET Identifiers, IsFiniteSet(S), S # {}
  PROVE  \E n \in S : \A m \in S : Compare(n, m) <= 0
<1> DEFINE Earlier(n) == {k \in S : Compare(k, n) < 0}
           rank       == [n \in S |-> Cardinality(Earlier(n))]
           Ranks      == {rank[n] : n \in S}
<1>1. ASSUME NEW n \in S
      PROVE  IsFiniteSet(Earlier(n)) /\ rank[n] = Cardinality(Earlier(n)) /\ rank[n] \in Nat
  <2>1. Earlier(n) \in SUBSET S
    OBVIOUS
  <2>2. IsFiniteSet(Earlier(n))
    BY <2>1, FS_Subset
  <2>3. Cardinality(Earlier(n)) \in Nat
    BY <2>2, FS_CardinalityType
  <2>4. rank[n] = Cardinality(Earlier(n))
    OBVIOUS
  <2>5. QED
    BY <2>2, <2>3, <2>4
<1> HIDE DEF rank
<1>2. Ranks \in SUBSET Nat /\ Ranks # {}
  <2>1. \A n \in S : rank[n] \in Nat
    BY <1>1
  <2>2. ASSUME NEW r \in Ranks PROVE r \in Nat
    BY <2>1
  <2>3. \A n \in S : rank[n] \in Ranks
    OBVIOUS
  <2>4. QED
    BY <2>2, <2>3
<1>3. PICK n \in S : \A m \in S : rank[n] <= rank[m]
  <2>1. Min(Ranks) \in Ranks /\ \A r \in Ranks : Min(Ranks) <= r
    BY <1>2, LeastElement
  <2>2. PICK n \in S : rank[n] = Min(Ranks)
    BY <2>1
  <2>3. ASSUME NEW m \in S PROVE rank[n] <= rank[m]
    <3>1. rank[m] \in Ranks
      OBVIOUS
    <3> HIDE DEF Ranks
    <3>2. QED
      BY <2>1, <2>2, <3>1
  <2>4. QED
    BY <2>3
<1>4. ASSUME NEW m \in S, Compare(n, m) > 0 PROVE FALSE
  <2>1. Compare(m, n) < 0
    BY <1>4, CompareIsAntisymmetric
  <2>2. ASSUME NEW k \in Earlier(m) PROVE k \in Earlier(n)
    BY <2>1, <2>2, CompareIsTransitive
  <2>3. m \in Earlier(n)
    BY <2>1
  <2>4. m \notin Earlier(m)
    <3>1. Compare(m, m) = 0
      BY CompareFindsEqual
    <3>2. QED
      BY <3>1
  <2>5. Earlier(m) \in SUBSET Earlier(n) /\ Earlier(m) # Earlier(n)
    BY <2>2, <2>3, <2>4
  <2>6. rank[m] < rank[n]
    <3>1. /\ rank[m] \in Nat /\ rank[m] = Cardinality(Earlier(m))
          /\ rank[n] \in Nat /\ rank[n] = Cardinality(Earlier(n))
          /\ IsFiniteSet(Earlier(n))
      BY <1>1
    <3> HIDE DEF Earlier
    <3>2. rank[m] <= rank[n] /\ rank[m] # rank[n]
      BY <2>5, <3>1, FS_Subset
    <3>3. QED
      BY <3>1, <3>2
  <2>7. rank[n] \in Nat /\ rank[m] \in Nat /\ rank[n] <= rank[m]
    BY <1>1, <1>3
  <2>8. QED
    BY <2>6, <2>7
<1>5. QED
  BY <1>4, CompareType

\* Identifiers that match to the end of the first, which is not before the
\* second, are the same.
LEMMA ExactMatch ==
  ASSUME NEW n \in Identifiers, NEW oid \in Identifiers,
         Compare(oid, n) <= 0, MatchLength(n, oid) = Len(n)
  PROVE  n = oid
<1>1. Differences(n, oid) = {}
  <2>1. SUFFICES ASSUME Differences(n, oid) # {} PROVE FALSE
    OBVIOUS
  <2>2. Min(Differences(n, oid)) \in 1 .. Len(n)
    BY <2>1, FirstDifference
  <2>3. QED
    BY <2>1, <2>2 DEF MatchLength, Identifiers
<1>2. Compare(n, oid) <= 0
  BY <1>1 DEF Compare
<1>3. Compare(oid, n) \in Int /\ Compare(n, oid) \in Int
  BY CompareType
<1>4. Compare(n, oid) = 0
  BY <1>2, <1>3, CompareIsAntisymmetric, CompareFindsEqual
<1>5. QED
  BY <1>4, CompareFindsEqual

\* lookupHandler finds a handler for identifiers that have one of exactly
\* their own, and for no others.
LEMMA LookupIsExact ==
  ASSUME NEW oid \in Oids, Registered \subseteq Oids, IsFiniteSet(Registered)
  PROVE  lookupHandler(oid) = IF oid \in Registered THEN tree[oid] ELSE NoNode
<1>1. oid \in Identifiers /\ Registered \subseteq Identifiers
  BY DEF Identifiers
<1>2. NotBefore(oid) \in SUBSET Registered /\ IsFiniteSet(NotBefore(oid))
  BY FS_Subset DEF NotBefore
<1>3. CASE NotBefore(oid) = {}
  <2>1. oid \notin Registered
    BY <1>1, <1>3, CompareFindsEqual DEF NotBefore
  <2>2. QED
    BY <1>3, <2>1 DEF lookupHandler
<1>4. CASE NotBefore(oid) # {}
  <2>1. \E n \in NotBefore(oid) : \A m \in NotBefore(oid) : Compare(n, m) <= 0
    BY <1>1, <1>2, <1>4, LeastIdentifier
  <2>2. /\ Ceil(oid) \in NotBefore(oid)
        /\ \A m \in NotBefore(oid) : Compare(Ceil(oid), m) <= 0
    BY <2>1 DEF Ceil
  <2>3. /\ Ceil(oid) \in Registered /\ Ceil(oid) \in Identifiers
        /\ Compare(oid, Ceil(oid)) <= 0
    BY <1>1, <2>2 DEF NotBefore
  <2>4. CASE oid \in Registered
    <3>1. oid \in NotBefore(oid)
      BY <1>1, <2>4, CompareFindsEqual DEF NotBefore
    <3>2. Compare(Ceil(oid), oid) <= 0
      BY <2>2, <3>1
    <3>3. Compare(Ceil(oid), oid) = 0
      BY <1>1, <2>3, <3>2, CompareType, CompareIsAntisymmetric, CompareFindsEqual
    <3>4. Ceil(oid) = oid
      BY <1>1, <2>3, <3>3, CompareFindsEqual
    <3>5. MatchLength(oid, oid) = Len(oid)
      <4>1. Differences(oid, oid) = {}
        BY <1>1 DEF Differences, Identifiers
      <4>2. QED
        BY <4>1 DEF MatchLength
    <3>6. QED
      BY <1>4, <2>4, <3>4, <3>5 DEF lookupHandler
  <2>5. CASE oid \notin Registered
    <3>1. MatchLength(Ceil(oid), oid) # Len(Ceil(oid))
      BY <1>1, <2>3, <2>5, ExactMatch
    <3>2. QED
      BY <2>5, <3>1 DEF lookupHandler
  <2>6. QED
    BY <2>4, <2>5
<1>5. QED
  BY <1>3, <1>4

-----------------------------------------------------------------------------
(***************************************************************************)
(* The inductive invariant.                                                *)
(***************************************************************************)

\* Whom a lookup in the tree finds for an identifier, if it is exact.
Current(o) == IF o \in Registered THEN tree[o] ELSE NoNode

\* The request in hand and where the listener stands with it.  The handler
\* found is not said to be the one in the tree: it may have been replaced.
InHand ==
  pc # "read" =>
    /\ req \in Requests /\ resp \in Responses
    /\ Len(req.varbinds) <= MaxVarbinds
    /\ at \in 1 .. Len(req.varbinds) + 1
    /\ req.pduType = "SET" => \A i \in DOMAIN req.varbinds : req.varbinds[i].value \in Values
    /\ \A o \in Oids : Current(o) \in mayAnswer[o]
    /\ pc = "handle" => /\ at <= Len(req.varbinds)
                        /\ node \in Handlers
                        /\ node \in mayAnswer[requestVb.oid]

Inv == TypeOK /\ IsFiniteSet(Registered) /\ InHand /\ AnsweredByOwnHandler

LEMMA InvInit == Init => Inv
<1> SUFFICES ASSUME Init PROVE Inv
  OBVIOUS
<1>1. Registered = {} /\ DOMAIN expected = {}
  BY DEF Init, Registered
<1>2. TypeOK
  BY <1>1 DEF Init, TypeOK
<1>3. IsFiniteSet(Registered)
  BY <1>1, FS_EmptySet
<1>4. InHand /\ AnsweredByOwnHandler
  BY DEF Init, InHand, AnsweredByOwnHandler
<1>5. QED
  BY <1>2, <1>3, <1>4 DEF Inv

LEMMA InvRegister ==
  ASSUME Inv, NEW oid \in Oids, NEW h \in Handlers, RegisterSingleVarOidHandler(oid, h)
  PROVE  Inv'
<1> USE DEF Inv, RegisterSingleVarOidHandler
<1>1. Registered' = Registered \union {oid}
  BY DEF Registered, Put
<1>2. /\ UNCHANGED <<val, pc, req, at, node, resp, received, origin, queue, transmitting, taken>>
      /\ UNCHANGED requestVb
  BY DEF transmitVars, requestVb
\* Whoever might answer still might, and so might the handler now registered.
<1>3. /\ mayAnswer' \in [Oids -> SUBSET (Handlers \union {NoNode})]
      /\ \A o \in Oids : mayAnswer[o] \subseteq mayAnswer'[o]
      /\ pc # "read" => \A o \in Oids : Current(o)' \in mayAnswer'[o]
  <2>1. mayAnswer \in [Oids -> SUBSET (Handlers \union {NoNode})]
    BY DEF TypeOK
  <2>2. /\ mayAnswer' \in [Oids -> SUBSET (Handlers \union {NoNode})]
        /\ \A o \in Oids : mayAnswer[o] \subseteq mayAnswer'[o]
        /\ pc # "read" => h \in mayAnswer'[oid]
    BY <2>1
  <2>3. tree'[oid] = h /\ \A o \in Registered \ {oid} : tree'[o] = tree[o]
    BY DEF Registered, Put
  <2>4. ASSUME pc # "read", NEW o \in Oids PROVE Current(o)' \in mayAnswer'[o]
    <3>1. CASE o = oid
      BY <1>1, <2>2, <2>3, <2>4, <3>1 DEF Current
    <3>2. CASE o # oid
      <4>1. Current(o)' = Current(o)
        BY <1>1, <2>3, <3>2 DEF Current
      <4>2. QED
        BY <2>2, <2>4, <4>1 DEF InHand
    <3>3. QED
      BY <3>1, <3>2
  <2>5. QED
    BY <2>2, <2>4
<1>4. TypeOK'
  <2>1. \A o \in Registered' : tree'[o] \in Handlers
    BY DEF TypeOK, Registered, Put
  <2>2. DOMAIN expected' = Registered' /\ \A o \in Registered' : expected'[o] \in Values
    BY DEF TypeOK, Registered, Put
  <2>3. Registered' \subseteq Oids
    BY <1>1 DEF TypeOK
  <2>4. QED
    BY <1>2, <1>3, <2>1, <2>2, <2>3 DEF TypeOK
<1>5. IsFiniteSet(Registered)'
  BY <1>1, FS_AddElement
<1>6. InHand'
  <2>1. pc = "handle" => requestVb.oid \in Oids
    <3>1. SUFFICES ASSUME pc = "handle" PROVE requestVb.oid \in Oids
      OBVIOUS
    <3>2. req.varbinds \in Seq(Varbinds) /\ at \in 1 .. Len(req.varbinds)
      BY <3>1 DEF InHand, Requests
    <3>3. requestVb \in Varbinds
      BY <3>2 DEF requestVb
    <3>4. QED
      BY <3>3 DEF Varbinds
  <2>2. pc = "handle" => node \in mayAnswer'[requestVb.oid]
    BY <1>3, <2>1 DEF InHand
  <2>3. QED
    BY <1>2, <1>3, <2>2 DEF InHand
<1>7. AnsweredByOwnHandler'
  <2>1. SUFFICES ASSUME pc # "read" PROVE AnsweredByOwnHandler'
    BY <1>2 DEF AnsweredByOwnHandler
  <2>2. /\ resp.varbinds \in Seq(Varbinds) /\ Len(origin) = Len(resp.varbinds)
        /\ origin \in Seq([at : 1 .. MaxVarbinds, by : Handlers \union {NoNode}])
    BY <2>1 DEF InHand, Responses, AnsweredByOwnHandler, TypeOK
  <2>3. ASSUME NEW i \in DOMAIN origin
        PROVE  origin[i].by \in mayAnswer'[resp.varbinds[i].oid]
    <3>1. resp.varbinds[i] \in Varbinds
      BY <2>2
    <3>2. resp.varbinds[i].oid \in Oids
      BY <3>1 DEF Varbinds
    <3>3. QED
      BY <1>3, <2>1, <3>2 DEF AnsweredByOwnHandler
  <2>4. QED
    BY <1>2, <2>1, <2>3 DEF AnsweredByOwnHandler
<1>8. QED
  BY <1>4, <1>5, <1>6, <1>7

LEMMA InvReceive ==
  ASSUME Inv, NEW pduType \in PduTypes, NEW n \in 1 .. MaxVarbinds,
         NEW vbs \in [1 .. n -> RequestVarbinds(pduType)], Receive(pduType, vbs)
  PROVE  Inv'
<1> USE DEF Inv, Receive
<1>1. /\ UNCHANGED <<Registered, tree, val, expected, node, queue, transmitting, taken>>
      /\ \A o \in Oids : Current(o)' = Current(o)
  BY DEF handlerVars, transmitVars, Registered, Current
<1>2. /\ vbs \in Seq(Varbinds) /\ Len(vbs) = n
      /\ \A i \in DOMAIN vbs : pduType = "SET" => vbs[i].value \in Values
  <2>1. RequestVarbinds(pduType) \subseteq Varbinds
    BY DEF RequestVarbinds, Varbinds
  <2>2. n \in Nat /\ DOMAIN vbs = 1 .. n
    OBVIOUS
  <2>3. vbs \in [1 .. n -> Varbinds]
    BY <2>1
  <2>4. vbs \in Seq(Varbinds) /\ Len(vbs) = n
    BY <2>2, <2>3
  <2>5. ASSUME NEW i \in DOMAIN vbs, pduType = "SET" PROVE vbs[i].value \in Values
    BY <2>2, <2>5 DEF RequestVarbinds
  <2>6. QED
    BY <2>4, <2>5
<1>3. received' \in 1 .. MaxRequests
  BY DEF TypeOK
<1>4. req' \in Requests /\ resp' \in Responses
  <2>1. req' \in Requests
    BY <1>2, <1>3 DEF Requests
  <2>2. resp' \in Responses
    BY <1>3 DEF newResponse, Responses
  <2>3. QED
    BY <2>1, <2>2
<1>5. /\ mayAnswer' \in [Oids -> SUBSET (Handlers \union {NoNode})]
      /\ \A o \in Oids : Current(o) \in mayAnswer'[o]
  BY DEF Current, TypeOK
<1>6. TypeOK'
  BY <1>1, <1>3, <1>4, <1>5 DEF TypeOK
<1>7. InHand'
  BY <1>1, <1>2, <1>4, <1>5 DEF InHand
<1>8. AnsweredByOwnHandler'
  BY DEF AnsweredByOwnHandler, newResponse
<1>9. QED
  BY <1>1, <1>6, <1>7, <1>8

LEMMA InvStartTxn ==
  ASSUME Inv, StartTxn
  PROVE  Inv'
<1> USE DEF Inv, StartTxn
<1>1. /\ UNCHANGED <<Registered, tree, val, expected, req, at, node, received, origin, mayAnswer,
                     queue, transmitting, taken, requestVb>>
      /\ \A o \in Oids : Current(o)' = Current(o)
  BY DEF handlerVars, transmitVars, Registered, requestVb, Current
<1>2. resp' \in Responses /\ resp'.varbinds = resp.varbinds
  <2>1. resp \in Responses
    BY DEF InHand
  <2>2. QED
    BY <2>1 DEF Responses
<1>3. TypeOK'
  BY <1>1, <1>2 DEF TypeOK
<1>4. InHand'
  BY <1>1, <1>2 DEF InHand
<1>5. AnsweredByOwnHandler'
  BY <1>1, <1>2 DEF AnsweredByOwnHandler
<1>6. QED
  BY <1>1, <1>3, <1>4, <1>5

\* The varbind that the listener has come to.
LEMMA VarbindInHand ==
  ASSUME Inv, pc # "read", at <= Len(req.varbinds)
  PROVE  /\ requestVb.oid \in Oids /\ requestVb = req.varbinds[at]
         /\ at \in 1 .. MaxVarbinds /\ at \in Nat
         /\ req.pduType = "SET" => requestVb.value \in Values
<1>1. /\ req.varbinds \in Seq(Varbinds) /\ at \in 1 .. Len(req.varbinds)
      /\ Len(req.varbinds) <= MaxVarbinds
  BY DEF Inv, InHand, Requests
<1>2. requestVb \in Varbinds /\ at \in DOMAIN req.varbinds
  BY <1>1 DEF requestVb
<1>3. at \in 1 .. MaxVarbinds /\ at \in Nat
  BY <1>1
<1>4. QED
  BY <1>2, <1>3 DEF Varbinds, Inv, InHand, requestVb

\* What is known of the lengths while the listener has a request in hand.
LEMMA LengthsInHand ==
  ASSUME Inv, pc # "read"
  PROVE  /\ at \in Nat /\ at >= 1 /\ resp \in Responses
         /\ Len(resp.varbinds) \in Nat /\ Len(origin) = Len(resp.varbinds)
         /\ DOMAIN resp.varbinds = 1 .. Len(resp.varbinds)
         /\ DOMAIN origin = 1 .. Len(resp.varbinds)
<1>1. resp \in Responses /\ req \in Requests /\ at \in 1 .. Len(req.varbinds) + 1
  BY DEF Inv, InHand
<1>2. /\ resp.varbinds \in Seq(Varbinds) /\ req.varbinds \in Seq(Varbinds)
      /\ origin \in Seq([at : 1 .. MaxVarbinds, by : Handlers \union {NoNode}])
  BY <1>1 DEF Responses, Requests, Inv, TypeOK
<1>3. Len(origin) = Len(resp.varbinds)
  BY DEF Inv, AnsweredByOwnHandler
<1>4. QED
  BY <1>1, <1>2, <1>3

\* What one more varbind does to a response and to what is known of its origin.
LEMMA OneMoreVarbind ==
  ASSUME Inv, pc # "read", at <= Len(req.varbinds),
         NEW value \in Values \union {NoValue, NoSuchObject},
         NEW by \in Handlers \union {NoNode}, AddVarbind(value, by)
  PROVE  /\ resp' \in Responses /\ resp'.id = resp.id
         /\ origin' \in Seq([at : 1 .. MaxVarbinds, by : Handlers \union {NoNode}])
         /\ Len(resp'.varbinds) = Len(resp.varbinds) + 1
         /\ DOMAIN origin' = 1 .. Len(resp.varbinds) + 1
         /\ Len(origin') = Len(resp'.varbinds)
         /\ \A i \in 1 .. Len(resp.varbinds) :
              resp'.varbinds[i] = resp.varbinds[i] /\ origin'[i] = origin[i]
         /\ resp'.varbinds[Len(resp.varbinds) + 1] = [oid |-> requestVb.oid, value |-> value]
         /\ origin'[Len(resp.varbinds) + 1] = [at |-> at, by |-> by]
<1>1. /\ requestVb.oid \in Oids /\ at \in 1 .. MaxVarbinds
      /\ resp \in Responses /\ Len(origin) = Len(resp.varbinds)
  BY VarbindInHand, LengthsInHand
<1>2. PICK vb : vb = [oid |-> requestVb.oid, value |-> value]
  OBVIOUS
<1>3. PICK from : from = [at |-> at, by |-> by]
  OBVIOUS
<1>4. vb \in Varbinds /\ from \in [at : 1 .. MaxVarbinds, by : Handlers \union {NoNode}]
  BY <1>1, <1>2, <1>3 DEF Varbinds
<1>5. /\ resp' = [resp EXCEPT !.varbinds = Append(resp.varbinds, vb)]
      /\ origin' = Append(origin, from)
  BY <1>2, <1>3 DEF AddVarbind
<1>6. resp.varbinds \in Seq(Varbinds)
  BY <1>1 DEF Responses
<1>7. origin \in Seq([at : 1 .. MaxVarbinds, by : Handlers \union {NoNode}])
  BY DEF Inv, TypeOK
<1>8. resp'.varbinds = Append(resp.varbinds, vb) /\ resp'.id = resp.id
  BY <1>1, <1>5 DEF Responses
<1>9. Append(resp.varbinds, vb) \in Seq(Varbinds)
  BY <1>4, <1>6
<1>10. resp' \in Responses
  BY <1>1, <1>5, <1>9 DEF Responses
<1>11. /\ Len(resp'.varbinds) = Len(resp.varbinds) + 1 /\ Len(resp.varbinds) \in Nat
       /\ \A i \in 1 .. Len(resp.varbinds) : resp'.varbinds[i] = resp.varbinds[i]
       /\ resp'.varbinds[Len(resp.varbinds) + 1] = vb
  BY <1>6, <1>8
<1>12. /\ origin' \in Seq([at : 1 .. MaxVarbinds, by : Handlers \union {NoNode}])
       /\ Len(origin') = Len(origin) + 1 /\ DOMAIN origin' = 1 .. Len(origin) + 1
       /\ \A i \in 1 .. Len(origin) : origin'[i] = origin[i]
       /\ origin'[Len(origin) + 1] = from
  BY <1>4, <1>5, <1>7
<1>13. QED
  BY <1>1, <1>2, <1>3, <1>8, <1>10, <1>11, <1>12

\* An answer of the right handler, or none where there was none, is one more of
\* those that AnsweredByOwnHandler is about.
LEMMA OwnAnswerAdded ==
  ASSUME Inv, pc # "read", pc' # "read", at <= Len(req.varbinds),
         NEW value \in Values \union {NoValue, NoSuchObject},
         NEW by \in Handlers \union {NoNode}, AddVarbind(value, by),
         by \in mayAnswer[requestVb.oid], by = NoNode <=> value = NoSuchObject,
         UNCHANGED mayAnswer
  PROVE  AnsweredByOwnHandler'
<1>1. /\ DOMAIN origin' = 1 .. Len(resp.varbinds) + 1
      /\ Len(origin') = Len(resp'.varbinds)
      /\ \A i \in 1 .. Len(resp.varbinds) :
           resp'.varbinds[i] = resp.varbinds[i] /\ origin'[i] = origin[i]
      /\ resp'.varbinds[Len(resp.varbinds) + 1] = [oid |-> requestVb.oid, value |-> value]
      /\ origin'[Len(resp.varbinds) + 1] = [at |-> at, by |-> by]
  BY OneMoreVarbind
<1>2. Len(resp.varbinds) \in Nat /\ DOMAIN origin = 1 .. Len(resp.varbinds)
  BY LengthsInHand
<1>3. ASSUME NEW i \in DOMAIN origin'
      PROVE  /\ origin'[i].by \in mayAnswer'[resp'.varbinds[i].oid]
             /\ origin'[i].by = NoNode <=> resp'.varbinds[i].value = NoSuchObject
  <2>1. CASE i = Len(resp.varbinds) + 1
    BY <1>1, <2>1
  <2>2. CASE i # Len(resp.varbinds) + 1
    <3>1. i \in 1 .. Len(resp.varbinds)
      BY <1>1, <1>2, <2>2
    <3>2. QED
      BY <1>1, <1>2, <3>1 DEF Inv, AnsweredByOwnHandler
  <2>3. QED
    BY <2>1, <2>2
<1>4. QED
  BY <1>1, <1>3 DEF AnsweredByOwnHandler

LEMMA InvLookup ==
  ASSUME Inv, Lookup
  PROVE  Inv'
<1> DEFINE found == lookupHandler(requestVb.oid)
<1>1. /\ UNCHANGED <<tree, val, expected, req, received, mayAnswer, queue, transmitting, taken>>
      /\ UNCHANGED Registered /\ \A o \in Oids : Current(o)' = Current(o)
      /\ pc = "lookup" /\ at <= Len(req.varbinds)
  BY DEF Lookup, handlerVars, transmitVars, Registered, Current
<1>2. requestVb.oid \in Oids
  BY <1>1, VarbindInHand
<1>3. found = Current(requestVb.oid) /\ found \in mayAnswer[requestVb.oid]
  <2>1. found = Current(requestVb.oid)
    BY <1>2, LookupIsExact DEF Inv, TypeOK, Current
  <2>2. QED
    BY <1>1, <1>2, <2>1 DEF Inv, InHand
<1>4. req \in Requests /\ resp \in Responses /\ at \in 1 .. Len(req.varbinds)
      /\ Len(req.varbinds) \in Nat /\ Len(req.varbinds) <= MaxVarbinds
  BY <1>1 DEF Inv, InHand, Requests
<1>5. CASE found = NoNode
  <2>1. AddVarbind(NoSuchObject, NoNode) /\ at' = at + 1 /\ UNCHANGED <<node, pc>>
    BY <1>5 DEF Lookup
  <2>2. /\ resp' \in Responses
        /\ origin' \in Seq([at : 1 .. MaxVarbinds, by : Handlers \union {NoNode}])
    BY <1>1, <2>1, OneMoreVarbind
  <2>3. TypeOK'
    BY <1>1, <1>4, <2>1, <2>2 DEF Inv, TypeOK
  <2>4. InHand'
    BY <1>1, <1>4, <2>1, <2>2 DEF Inv, InHand
  <2>5. AnsweredByOwnHandler'
    BY <1>1, <1>3, <1>5, <2>1, OwnAnswerAdded
  <2>6. QED
    BY <1>1, <2>3, <2>4, <2>5 DEF Inv
<1>6. CASE found # NoNode
  <2>1. node' = found /\ pc' = "handle" /\ UNCHANGED <<resp, origin, at>>
    BY <1>6 DEF Lookup
  <2>2. found \in Handlers
    BY <1>3, <1>6 DEF Inv, TypeOK, Current
  <2>3. UNCHANGED requestVb
    BY <1>1, <2>1 DEF requestVb
  <2>4. TypeOK'
    BY <1>1, <2>1, <2>2 DEF Inv, TypeOK
  <2>5. InHand'
    BY <1>1, <1>3, <1>4, <2>1, <2>2, <2>3 DEF Inv, InHand
  <2>6. AnsweredByOwnHandler'
    BY <1>1, <2>1 DEF Inv, AnsweredByOwnHandler
  <2>7. QED
    BY <1>1, <2>4, <2>5, <2>6 DEF Inv
<1>7. QED
  BY <1>5, <1>6

\* What a call of a handler does to the response: it adds the varbind of that
\* handler, or, if the call may fail, nothing.
LEMMA HandlerAnswers ==
  ASSUME Inv, Handle
  PROVE  \/ /\ \E value \in Values : AddVarbind(value, node)
         \/ UNCHANGED <<resp, origin>> /\ MayLeaveOut(node, requestVb)
<1>1. /\ pc = "handle" /\ at <= Len(req.varbinds) /\ node \in Handlers
  BY DEF Handle, Inv, InHand
<1>2. CASE Get
  <2>1. val[node] \in Values
    BY <1>1 DEF Inv, TypeOK
  <2>2. QED
    BY <1>2, <2>1 DEF Get
<1>3. CASE Set
  <2>1. requestVb.value \in Values
    BY <1>1, <1>3, VarbindInHand DEF Set
  <2>2. QED
    BY <1>3, <2>1 DEF Set
<1>4. CASE GetFails \/ SetFails \/ CallNoHandler
  BY <1>4 DEF GetFails, SetFails, CallNoHandler, MayLeaveOut
<1>5. QED
  BY <1>2, <1>3, <1>4 DEF Handle

LEMMA InvHandle ==
  ASSUME Inv, Handle
  PROVE  Inv'
<1>1. /\ UNCHANGED <<tree, req, received, mayAnswer, queue, transmitting, taken>>
      /\ UNCHANGED Registered /\ \A o \in Oids : Current(o)' = Current(o)
      /\ pc = "handle" /\ pc' = "lookup" /\ at' = at + 1 /\ node' = NoNode
  BY DEF Handle, transmitVars, Registered, Current
<1>2. /\ req \in Requests /\ resp \in Responses
      /\ at \in 1 .. Len(req.varbinds)
      /\ Len(req.varbinds) \in Nat /\ Len(req.varbinds) <= MaxVarbinds
      /\ node \in Handlers /\ node \in mayAnswer[requestVb.oid]
  BY <1>1 DEF Inv, InHand, Requests
<1>3. requestVb.oid \in Oids /\ (req.pduType = "SET" => requestVb.value \in Values)
  BY <1>1, <1>2, VarbindInHand
\* What the handlers keep.
<1>4. /\ val' \in [Handlers -> Values \ Nils] /\ \A h \in Handlers : val'[h] \in OfType[h]
      /\ DOMAIN expected' = Registered
      /\ \A o \in Registered : expected'[o] \in Values
  <2>1. /\ val \in [Handlers -> Values \ Nils] /\ \A h \in Handlers : val[h] \in OfType[h]
        /\ DOMAIN expected = Registered /\ \A o \in Registered : expected[o] \in Values
    BY DEF Inv, TypeOK
  <2>2. CASE Set
    <3>1. requestVb.value \in Values \ Nils /\ requestVb.value \in OfType[node]
      BY <1>3, <2>2 DEF Set, Accepts
    <3>2. val' \in [Handlers -> Values \ Nils] /\ \A h \in Handlers : val'[h] \in OfType[h]
      BY <2>1, <2>2, <3>1 DEF Set
    <3>3. DOMAIN expected' = Registered /\ \A o \in Registered : expected'[o] \in Values
      BY <2>1, <2>2, <3>1 DEF Set
    <3>4. QED
      BY <3>2, <3>3
  <2>3. CASE UNCHANGED <<val, expected>>
    BY <2>1, <2>3
  <2>4. QED
    BY <2>2, <2>3 DEF Handle, Get, GetFails, SetFails, CallNoHandler
<1>5. /\ resp' \in Responses
      /\ origin' \in Seq([at : 1 .. MaxVarbinds, by : Handlers \union {NoNode}])
      /\ AnsweredByOwnHandler'
  <2>1. CASE UNCHANGED <<resp, origin>>
    BY <1>1, <1>2, <2>1 DEF Inv, TypeOK, AnsweredByOwnHandler
  <2>2. ASSUME NEW value \in Values, AddVarbind(value, node)
        PROVE  <1>5!1 /\ <1>5!2 /\ <1>5!3
    <3>1. value # NoSuchObject /\ node # NoNode
      BY <1>2
    <3>2. at <= Len(req.varbinds) /\ pc # "read" /\ pc' # "read"
      BY <1>1, <1>2
    <3>3. QED
      BY <1>1, <1>2, <2>2, <3>1, <3>2, OneMoreVarbind, OwnAnswerAdded
  <2>3. QED
    BY <2>1, <2>2, HandlerAnswers
<1>6. TypeOK'
  BY <1>1, <1>2, <1>4, <1>5 DEF Inv, TypeOK
<1>7. InHand'
  BY <1>1, <1>2, <1>5 DEF Inv, InHand
<1>8. QED
  BY <1>1, <1>5, <1>6, <1>7 DEF Inv

LEMMA InvSetPanics ==
  ASSUME Inv, SetPanics
  PROVE  Inv'
<1>1. /\ UNCHANGED <<Registered, tree, val, expected, req, at, node, resp, received, origin,
                     mayAnswer, queue, transmitting, taken>>
      /\ \A o \in Oids : Current(o)' = Current(o)
      /\ pc = "handle" /\ pc' = "panicked"
  BY DEF SetPanics, handlerVars, transmitVars, Registered, Current
<1>2. TypeOK'
  BY <1>1 DEF Inv, TypeOK
<1>3. InHand' /\ AnsweredByOwnHandler'
  BY <1>1 DEF Inv, InHand, AnsweredByOwnHandler
<1>4. QED
  BY <1>1, <1>2, <1>3 DEF Inv

\* What is put into the queue.
LEMMA QueuedType ==
  ASSUME Inv, pc # "read"
  PROVE  Queued(resp) \in [id : 1 .. MaxRequests, encodable : BOOLEAN] /\ Queued(resp).id = resp.id
<1>1. resp.id \in 1 .. MaxRequests
  BY DEF Inv, InHand, Responses
<1>2. QED
  BY <1>1 DEF Queued

LEMMA InvRespond ==
  ASSUME Inv, Respond
  PROVE  Inv'
<1>1. /\ UNCHANGED <<Registered, tree, val, expected, node, received, transmitting, taken>>
      /\ pc' = "read" /\ req' = NoRequest /\ resp' = NoRequest /\ at' = 1
      /\ origin' = <<>> /\ mayAnswer' = [o \in Oids |-> {}]
  BY DEF Respond, handlerVars, transmitVars, Registered
<1>2. queue' \in Seq([id : 1 .. MaxRequests, encodable : BOOLEAN]) /\ Len(queue') <= maxTargets
  <2>1. Queued(resp) \in [id : 1 .. MaxRequests, encodable : BOOLEAN]
    BY QueuedType DEF Respond
  <2>2. /\ queue \in Seq([id : 1 .. MaxRequests, encodable : BOOLEAN])
        /\ Len(queue) < maxTargets /\ queue' = Append(queue, Queued(resp))
    BY DEF Respond, sendResponse, Inv, TypeOK
  <2>3. QED
    BY <2>1, <2>2
<1>3. TypeOK'
  BY <1>1, <1>2 DEF Inv, TypeOK
<1>4. InHand' /\ AnsweredByOwnHandler'
  BY <1>1 DEF InHand, AnsweredByOwnHandler
<1>5. QED
  BY <1>1, <1>3, <1>4 DEF Inv

\* The first of a queue and those after it.
LEMMA FirstAndRest ==
  ASSUME NEW S, NEW q \in Seq(S), q # <<>>
  PROVE  /\ Head(q) \in S /\ Head(q) = q[1] /\ 1 \in 1 .. Len(q)
         /\ Tail(q) \in Seq(S) /\ Len(Tail(q)) <= Len(q)
OBVIOUS

\* What the transmitter does, whatever becomes of the response.
LEMMA TransmitTakes ==
  ASSUME Transmit
  PROVE  /\ queue # <<>> /\ transmitting
         /\ \E fate \in {"written", "unencodable", "unwritten"} :
              Take(fate) /\ transmitting' = (fate # "unwritten")
BY DEF Transmit, Write, EncodeFails, WriteFails

LEMMA InvTransmit ==
  ASSUME Inv, Transmit
  PROVE  Inv'
<1>1. PICK fate \in {"written", "unencodable", "unwritten"} :
        queue # <<>> /\ Take(fate) /\ transmitting' = (fate # "unwritten")
  BY TransmitTakes
<1>2. /\ UNCHANGED <<Registered, tree, val, expected, pc, req, at, node, resp, received,
                     origin, mayAnswer, requestVb>>
      /\ \A o \in Oids : Current(o)' = Current(o)
  BY <1>1 DEF Take, handlerVars, listenVars, Registered, requestVb, Current
<1>3. /\ queue \in Seq([id : 1 .. MaxRequests, encodable : BOOLEAN])
      /\ queue # <<>> /\ Len(queue) <= maxTargets /\ queue' = Tail(queue)
  BY <1>1 DEF Take, Inv, TypeOK
<1>4. /\ queue' \in Seq([id : 1 .. MaxRequests, encodable : BOOLEAN])
      /\ Len(queue') <= maxTargets
      /\ Head(queue) \in [id : 1 .. MaxRequests, encodable : BOOLEAN]
  <2>1. PICK S : S = [id : 1 .. MaxRequests, encodable : BOOLEAN]
    OBVIOUS
  <2>2. queue \in Seq(S) /\ queue # <<>> /\ Len(queue) <= maxTargets /\ queue' = Tail(queue)
    BY <1>3, <2>1
  <2>3. queue' \in Seq(S) /\ Len(queue') <= maxTargets /\ Head(queue) \in S
    BY <2>2, FirstAndRest
  <2>4. QED
    BY <2>1, <2>3
<1>5. taken' \in Seq([id : 1 .. MaxRequests, fate : {"written", "unencodable", "unwritten"}])
  <2>1. [id |-> Head(queue).id, fate |-> fate]
          \in [id : 1 .. MaxRequests, fate : {"written", "unencodable", "unwritten"}]
    BY <1>4
  <2>2. QED
    BY <1>1, <2>1 DEF Take, Inv, TypeOK
<1>6. TypeOK'
  BY <1>1, <1>2, <1>4, <1>5 DEF Inv, TypeOK
<1>7. InHand' /\ AnsweredByOwnHandler'
  BY <1>2 DEF Inv, InHand, AnsweredByOwnHandler
<1>8. QED
  BY <1>2, <1>6, <1>7 DEF Inv

\* The transmitter stops, or nothing happens.
LEMMA InvStopTransmitting ==
  ASSUME Inv, StopTransmitting \/ UNCHANGED vars
  PROVE  Inv'
<1>1. /\ UNCHANGED <<Registered, requestVb, tree, val, expected, pc, req, at, node, resp, received,
                     origin, mayAnswer, queue, taken>>
      /\ \A o \in Oids : Current(o)' = Current(o)
      /\ transmitting' \in BOOLEAN
  BY DEF StopTransmitting, vars, handlerVars, listenVars, transmitVars, Registered, requestVb,
     Current, Inv, TypeOK
<1>2. TypeOK'
  BY <1>1 DEF Inv, TypeOK
<1>3. InHand' /\ AnsweredByOwnHandler'
  BY <1>1 DEF Inv, InHand, AnsweredByOwnHandler
<1>4. QED
  BY <1>1, <1>2, <1>3 DEF Inv

LEMMA InvNext == Inv /\ [Next]_vars => Inv'
<1> SUFFICES ASSUME Inv, [Next]_vars PROVE Inv'
  OBVIOUS
<1>1. CASE Listener
  BY <1>1, InvReceive, InvStartTxn, InvLookup, InvHandle, InvSetPanics, InvRespond DEF Listener
<1>2. CASE \E oid \in Oids, h \in Handlers : RegisterSingleVarOidHandler(oid, h)
  BY <1>2, InvRegister
<1>3. CASE Transmit
  BY <1>3, InvTransmit
<1>4. CASE StopTransmitting \/ UNCHANGED vars
  BY <1>4, InvStopTransmitting
<1>5. QED
  BY <1>1, <1>2, <1>3, <1>4 DEF Next

(***************************************************************************)
(* The variables of the agent have the types that TypeOK gives them: the   *)
(* tree holds handlers, no handler ever holds nil, the queue of responses  *)
(* keeps its bound, and the listener does not go beyond the varbinds of    *)
(* the request in hand.                                                    *)
(***************************************************************************)
THEOREM TypeCorrect == Spec => []TypeOK
<1>1. Inv => TypeOK
  BY DEF Inv
<1>2. QED
  BY <1>1, InvInit, InvNext, PTL DEF Spec

(***************************************************************************)
(* Whatever is registered, replaced or moved while a request is processed, *)
(* each answer was given by a handler that has been in the tree under      *)
(* exactly the identifier asked for at some time since the request came    *)
(* in, or is "NoSuchObject" for want of a handler as the request came in   *)
(* (lookupHandler).                                                        *)
(***************************************************************************)
THEOREM OwnHandlersAnswer == Spec => []AnsweredByOwnHandler
<1>1. Inv => AnsweredByOwnHandler
  BY DEF Inv
<1>2. QED
  BY <1>1, InvInit, InvNext, PTL DEF Spec

-----------------------------------------------------------------------------
(***************************************************************************)
(* The answers line up with what was asked.                                *)
(***************************************************************************)

\* The parts of AnswersLineUp: those answered, and those passed over.
Placed ==
  \A i \in DOMAIN origin :
    /\ origin[i].at < at
    /\ \A k \in 1 .. i - 1 : origin[k].at < origin[i].at
    /\ resp.varbinds[i].oid = req.varbinds[origin[i].at].oid

Answered(j) == \E i \in DOMAIN origin : origin[i].at = j

PassedOver(j) ==
  \E h \in mayAnswer[req.varbinds[j].oid] \ {NoNode} : MayLeaveOut(h, req.varbinds[j])

LEMMA LineUpParts ==
  AnswersLineUp <=> (pc # "read" =>
                       Placed /\ \A j \in 1 .. at - 1 : Answered(j) \/ PassedOver(j))
BY DEF AnswersLineUp, Placed, Answered, PassedOver

LEMMA PlacesAreNumbers ==
  ASSUME Inv
  PROVE  \A i \in DOMAIN origin : origin[i].at \in Nat
<1>1. PICK Origins : Origins = [at : 1 .. MaxVarbinds, by : Handlers \union {NoNode}]
  OBVIOUS
<1>2. origin \in Seq(Origins)
  BY <1>1 DEF Inv, TypeOK
<1>3. \A i \in DOMAIN origin : origin[i] \in Origins
  BY <1>2
<1>4. \A from \in Origins : from.at \in Nat
  BY <1>1
<1>5. QED
  BY <1>3, <1>4

\* The answer to the varbind at hand is added as the next one is gone on to.
LEMMA LineUpAdd ==
  ASSUME Inv, AnswersLineUp, pc \in {"lookup", "handle"}, at <= Len(req.varbinds),
         NEW value \in Values \union {NoValue, NoSuchObject},
         NEW by \in Handlers \union {NoNode}, AddVarbind(value, by),
         at' = at + 1, UNCHANGED <<req, mayAnswer>>
  PROVE  AnswersLineUp'
<1>1. /\ DOMAIN origin' = 1 .. Len(resp.varbinds) + 1
      /\ \A i \in 1 .. Len(resp.varbinds) :
           resp'.varbinds[i] = resp.varbinds[i] /\ origin'[i] = origin[i]
      /\ resp'.varbinds[Len(resp.varbinds) + 1].oid = req.varbinds[at].oid
      /\ origin'[Len(resp.varbinds) + 1].at = at
  <2>1. /\ resp'.varbinds[Len(resp.varbinds) + 1] = [oid |-> requestVb.oid, value |-> value]
        /\ origin'[Len(resp.varbinds) + 1] = [at |-> at, by |-> by]
        /\ DOMAIN origin' = 1 .. Len(resp.varbinds) + 1
        /\ \A i \in 1 .. Len(resp.varbinds) :
             resp'.varbinds[i] = resp.varbinds[i] /\ origin'[i] = origin[i]
    BY OneMoreVarbind
  <2>2. QED
    BY <2>1 DEF requestVb
<1>2. /\ at \in Nat /\ at >= 1 /\ Len(resp.varbinds) \in Nat
      /\ DOMAIN origin = 1 .. Len(resp.varbinds)
  BY LengthsInHand
<1>3. \A i \in DOMAIN origin : origin[i].at \in Nat
  BY PlacesAreNumbers
<1>4. Placed /\ \A j \in 1 .. at - 1 : Answered(j) \/ PassedOver(j)
  BY LineUpParts
<1>5. Placed'
  <2>1. ASSUME NEW i \in DOMAIN origin'
        PROVE  /\ origin'[i].at < at'
               /\ \A k \in 1 .. i - 1 : origin'[k].at < origin'[i].at
               /\ resp'.varbinds[i].oid = req'.varbinds[origin'[i].at].oid
    <3>1. CASE i = Len(resp.varbinds) + 1
      <4>1. origin'[i].at = at /\ resp'.varbinds[i].oid = req.varbinds[at].oid
        BY <1>1, <3>1
      <4>2. ASSUME NEW k \in 1 .. i - 1 PROVE origin'[k].at < at
        <5>1. k \in 1 .. Len(resp.varbinds)
          BY <1>2, <3>1
        <5>2. QED
          BY <1>1, <1>2, <1>4, <5>1 DEF Placed
      <4>3. QED
        BY <1>2, <4>1, <4>2
    <3>2. CASE i # Len(resp.varbinds) + 1
      <4>1. i \in 1 .. Len(resp.varbinds) /\ i \in Nat
        BY <1>1, <1>2, <3>2
      <4>2. /\ origin[i].at < at /\ origin[i].at \in Nat
            /\ \A k \in 1 .. i - 1 : origin[k].at < origin[i].at
            /\ resp.varbinds[i].oid = req.varbinds[origin[i].at].oid
        BY <1>2, <1>3, <1>4, <4>1 DEF Placed
      <4>3. origin'[i] = origin[i] /\ resp'.varbinds[i] = resp.varbinds[i]
        BY <1>1, <4>1
      <4>4. ASSUME NEW k \in 1 .. i - 1 PROVE origin'[k] = origin[k]
        <5>1. k \in 1 .. Len(resp.varbinds)
          BY <1>2, <4>1
        <5>2. QED
          BY <1>1, <5>1
      <4>5. QED
        BY <1>2, <4>2, <4>3, <4>4
    <3>3. QED
      BY <3>1, <3>2
  <2>2. QED
    BY <2>1 DEF Placed
<1>6. ASSUME NEW j \in 1 .. at' - 1 PROVE Answered(j)' \/ PassedOver(j)'
  <2>1. CASE j = at
    <3>1. Len(resp.varbinds) + 1 \in DOMAIN origin'
      BY <1>1, <1>2
    <3>2. QED
      BY <1>1, <2>1, <3>1 DEF Answered
  <2>2. CASE j # at
    <3>1. j \in 1 .. at - 1
      BY <1>2, <2>2
    <3>2. CASE Answered(j)
      <4>1. PICK i \in DOMAIN origin : origin[i].at = j
        BY <3>2 DEF Answered
      <4>2. i \in DOMAIN origin' /\ origin'[i] = origin[i]
        BY <1>1, <1>2, <4>1
      <4>3. QED
        BY <4>1, <4>2 DEF Answered
    <3>3. CASE PassedOver(j)
      BY <3>3 DEF PassedOver, MayLeaveOut
    <3>4. QED
      BY <1>4, <3>1, <3>2, <3>3
  <2>3. QED
    BY <2>1, <2>2
<1>7. QED
  BY <1>5, <1>6 DEF AnswersLineUp, Placed, Answered, PassedOver

\* Or it is passed over by a handler that may leave it out.
LEMMA LineUpLeaveOut ==
  ASSUME Inv, AnswersLineUp, pc = "handle", MayLeaveOut(node, requestVb),
         at' = at + 1, UNCHANGED <<resp, origin, req, mayAnswer>>
  PROVE  AnswersLineUp'
<1>1. at \in Nat /\ at >= 1 /\ node \in Handlers /\ node \in mayAnswer[requestVb.oid]
  BY LengthsInHand DEF Inv, InHand
<1>2. Placed /\ \A j \in 1 .. at - 1 : Answered(j) \/ PassedOver(j)
  BY LineUpParts
<1>3. \A i \in DOMAIN origin : origin[i].at \in Nat
  BY PlacesAreNumbers
<1>4. Placed'
  BY <1>1, <1>2, <1>3 DEF Placed
<1>5. ASSUME NEW j \in 1 .. at' - 1 PROVE Answered(j)' \/ PassedOver(j)'
  <2>1. CASE j = at
    <3>1. node # NoNode
      BY <1>1
    <3>2. PassedOver(at)
      BY <1>1, <3>1 DEF PassedOver, requestVb
    <3>3. PassedOver(j)'
      BY <2>1, <3>2 DEF PassedOver, MayLeaveOut
    <3>4. QED
      BY <3>3
  <2>2. CASE j # at
    <3>1. j \in 1 .. at - 1
      BY <1>1, <2>2
    <3>2. QED
      BY <1>2, <3>1 DEF Answered, PassedOver, MayLeaveOut
  <2>3. QED
    BY <2>1, <2>2
<1>6. QED
  BY <1>4, <1>5 DEF AnswersLineUp, Placed, Answered, PassedOver

\* What does not change the request, how far it is or its answers keeps them in
\* line, if nobody who might answer is forgotten.
LEMMA LineUpKept ==
  ASSUME Inv, AnswersLineUp, pc # "read",
         UNCHANGED <<req, at, origin>>, resp'.varbinds = resp.varbinds,
         \A o \in Oids : mayAnswer[o] \subseteq mayAnswer'[o]
  PROVE  AnswersLineUp'
<1>1. Placed /\ \A j \in 1 .. at - 1 : Answered(j) \/ PassedOver(j)
  BY LineUpParts
<1>2. Placed'
  BY <1>1 DEF Placed
<1>3. ASSUME NEW j \in 1 .. at - 1 PROVE Answered(j)' \/ PassedOver(j)'
  <2>1. CASE Answered(j)
    BY <2>1 DEF Answered
  <2>2. CASE PassedOver(j)
    <3>1. req.varbinds \in Seq(Varbinds) /\ at \in 1 .. Len(req.varbinds) + 1
      BY DEF Inv, InHand, Requests
    <3>2. req.varbinds[j] \in Varbinds
      BY <3>1
    <3>3. req.varbinds[j].oid \in Oids
      BY <3>2 DEF Varbinds
    <3>4. QED
      BY <2>2, <3>3 DEF PassedOver, MayLeaveOut
  <2>3. QED
    BY <1>1, <2>1, <2>2
<1>4. QED
  BY <1>2, <1>3 DEF AnswersLineUp, Placed, Answered, PassedOver

LEMMA LineUpStep ==
  ASSUME Inv, AnswersLineUp, [Next]_vars
  PROVE  AnswersLineUp'
<1>1. ASSUME NEW pduType \in PduTypes, NEW n \in 1 .. MaxVarbinds,
             NEW vbs \in [1 .. n -> RequestVarbinds(pduType)], Receive(pduType, vbs)
      PROVE  AnswersLineUp'
  <2>1. at' = 1 /\ origin' = <<>>
    BY <1>1 DEF Receive
  <2>2. QED
    BY <2>1 DEF AnswersLineUp
<1>2. CASE StartTxn
  <2>1. pc = "startTxn" /\ UNCHANGED <<req, at, origin, mayAnswer>>
    BY <1>2 DEF StartTxn
  <2>2. resp'.varbinds = resp.varbinds
    BY <1>2, <2>1, LengthsInHand DEF StartTxn, Responses
  <2>3. QED
    BY <2>1, <2>2, LineUpKept
<1>3. CASE Lookup
  <2>1. pc = "lookup" /\ at <= Len(req.varbinds) /\ UNCHANGED <<req, mayAnswer>>
    BY <1>3 DEF Lookup
  <2>2. CASE UNCHANGED <<resp, origin, at>>
    BY <2>1, <2>2, LineUpKept
  <2>3. CASE AddVarbind(NoSuchObject, NoNode) /\ at' = at + 1
    BY <2>1, <2>3, LineUpAdd
  <2>4. QED
    BY <1>3, <2>2, <2>3 DEF Lookup
<1>4. CASE Handle
  <2>1. /\ pc = "handle" /\ at' = at + 1 /\ UNCHANGED <<req, mayAnswer>>
        /\ at <= Len(req.varbinds) /\ node \in Handlers
    BY <1>4 DEF Handle, Inv, InHand
  <2>2. ASSUME NEW value \in Values, AddVarbind(value, node)
        PROVE  AnswersLineUp'
    BY <2>1, <2>2, LineUpAdd
  <2>3. CASE UNCHANGED <<resp, origin>> /\ MayLeaveOut(node, requestVb)
    BY <2>1, <2>3, LineUpLeaveOut
  <2>4. QED
    BY <1>4, <2>2, <2>3, HandlerAnswers
<1>5. CASE Respond
  BY <1>5 DEF Respond, AnswersLineUp
<1>6. ASSUME NEW oid \in Oids, NEW h \in Handlers, RegisterSingleVarOidHandler(oid, h)
      PROVE  AnswersLineUp'
  <2>1. CASE pc = "read"
    BY <1>6, <2>1 DEF RegisterSingleVarOidHandler, AnswersLineUp
  <2>2. CASE pc # "read"
    <3>1. UNCHANGED <<req, at, origin, resp>>
      BY <1>6 DEF RegisterSingleVarOidHandler
    <3>2. \A o \in Oids : mayAnswer[o] \subseteq mayAnswer'[o]
      BY <1>6 DEF RegisterSingleVarOidHandler, Inv, TypeOK
    <3>3. QED
      BY <2>2, <3>1, <3>2, LineUpKept
  <2>3. QED
    BY <2>1, <2>2
<1>7. CASE SetPanics \/ Transmit \/ StopTransmitting \/ UNCHANGED vars
  <2>1. UNCHANGED <<req, at, origin, resp, mayAnswer>> /\ (pc' = "read" <=> pc = "read")
    BY <1>7 DEF SetPanics, Transmit, Write, EncodeFails, WriteFails, Take, StopTransmitting,
       vars, listenVars
  <2>2. CASE pc = "read"
    BY <2>1, <2>2 DEF AnswersLineUp
  <2>3. CASE pc # "read"
    BY <2>1, <2>3, LineUpKept
  <2>4. QED
    BY <2>2, <2>3
<1>8. QED
  BY <1>1, <1>2, <1>3, <1>4, <1>5, <1>6, <1>7 DEF Next, Listener

(***************************************************************************)
(* The answers are to varbinds of the request, in their order, each at     *)
(* most once, and what is passed over had a handler that may fail: no      *)
(* other varbind goes without an answer (processCommunityRequest).         *)
(***************************************************************************)
THEOREM LinedUp == Spec => []AnswersLineUp
<1>1. Init => AnswersLineUp
  BY DEF Init, AnswersLineUp
<1>2. QED
  BY <1>1, InvInit, InvNext, LineUpStep, PTL DEF Spec

-----------------------------------------------------------------------------
(***************************************************************************)
(* What is read is what was set.                                           *)
(***************************************************************************)

\* Whatever an identifier is expected to have is what its handler holds, though
\* that handler may serve others as well.
ValueInv == \A o \in Registered : expected[o] = val[tree[o]]

LEMMA ValueRegister ==
  ASSUME Inv, ValueInv, NEW oid \in Oids, NEW h \in Handlers,
         RegisterSingleVarOidHandler(oid, h)
  PROVE  ValueInv'
<1>1. /\ tree' = Put(tree, oid, h) /\ expected' = Put(expected, oid, val[h])
      /\ UNCHANGED val
  BY DEF RegisterSingleVarOidHandler
<1>2. /\ Registered' = Registered \union {oid}
      /\ tree'[oid] = h /\ expected'[oid] = val[h]
      /\ \A o \in Registered \ {oid} : tree'[o] = tree[o] /\ expected'[o] = expected[o]
  <2>1. DOMAIN expected = Registered
    BY DEF Inv, TypeOK
  <2>2. QED
    BY <1>1, <2>1 DEF Registered, Put
<1>3. ASSUME NEW o \in Registered' PROVE expected'[o] = val'[tree'[o]]
  BY <1>1, <1>2 DEF ValueInv
<1>4. QED
  BY <1>3 DEF ValueInv

LEMMA ValueHandle ==
  ASSUME Inv, ValueInv, Handle
  PROVE  ValueInv'
<1>1. UNCHANGED <<tree, Registered>> /\ pc = "handle"
  BY DEF Handle, Registered
<1>2. CASE UNCHANGED <<val, expected>>
  BY <1>1, <1>2 DEF ValueInv
<1>3. CASE Set
  <2>1. PICK v : v = requestVb.value
    OBVIOUS
  <2>2. /\ val' = [val EXCEPT ![node] = v]
        /\ expected' = [o \in Registered |-> IF tree[o] = node THEN v ELSE expected[o]]
    BY <1>3, <2>1 DEF Set
  <2>3. val \in [Handlers -> Values \ Nils] /\ \A o \in Registered : tree[o] \in Handlers
    BY DEF Inv, TypeOK
  <2>4. ASSUME NEW o \in Registered PROVE expected'[o] = val'[tree[o]]
    BY <2>2, <2>3 DEF ValueInv
  <2>5. QED
    BY <1>1, <2>4 DEF ValueInv
<1>4. QED
  BY <1>2, <1>3 DEF Handle, Get, GetFails, SetFails, CallNoHandler

LEMMA ValueStep ==
  ASSUME Inv, ValueInv, [Next]_vars
  PROVE  ValueInv'
<1>1. CASE Handle
  BY <1>1, ValueHandle
<1>2. CASE ~Handle /\ (Listener \/ Transmit \/ StopTransmitting \/ UNCHANGED vars)
  <2>1. UNCHANGED <<tree, val, expected>>
    BY <1>2 DEF Listener, Receive, StartTxn, Lookup, SetPanics, Respond, Transmit, Write,
       EncodeFails, WriteFails, Take, StopTransmitting, vars, handlerVars
  <2>2. QED
    BY <2>1 DEF ValueInv, Registered
<1>3. QED
  BY <1>1, <1>2, ValueRegister DEF Next

\* A step that takes the listener on from "handle" is the call of the handler.
LEMMA OnlyHandle ==
  ASSUME [Next]_vars, pc = "handle", resp' # resp
  PROVE  Handle
BY DEF Next, Listener, Receive, StartTxn, Lookup, SetPanics, Respond, Transmit, Write,
   EncodeFails, WriteFails, Take, StopTransmitting, RegisterSingleVarOidHandler, vars, listenVars

(***************************************************************************)
(* A GET that finds the handler that is registered under its identifier    *)
(* reads what the last accepted SET wrote, of this identifier or of any    *)
(* other that the handler then served, or what the handler held when it    *)
(* was registered since (Get and Set of the handlers,                      *)
(* RegisterSingleVarOidHandler).                                           *)
(***************************************************************************)
THEOREM LastSetIsRead == Spec => GetReadsLastSet
<1>1. Init => ValueInv
  BY DEF Init, ValueInv, Registered
<1>2. ASSUME Inv, ValueInv, [Next]_vars, pc = "handle", req.pduType = "GET",
             NodeIsCurrent, resp' # resp
      PROVE  resp'.varbinds[Len(resp'.varbinds)].value = expected[requestVb.oid]
  <2>1. Handle
    BY <1>2, OnlyHandle
  <2>2. AddVarbind(val[node], node)
    BY <1>2, <2>1 DEF Handle, Get, GetFails, Set, SetFails, CallNoHandler
  <2>3. at <= Len(req.varbinds) /\ node \in Handlers /\ val[node] \in Values
    BY <1>2 DEF Inv, InHand, TypeOK
  <2>4. /\ Len(resp'.varbinds) = Len(resp.varbinds) + 1
        /\ resp'.varbinds[Len(resp.varbinds) + 1] = [oid |-> requestVb.oid, value |-> val[node]]
    BY <1>2, <2>2, <2>3, OneMoreVarbind
  <2>5. expected[requestVb.oid] = val[node]
    BY <1>2 DEF NodeIsCurrent, ValueInv
  <2>6. QED
    BY <2>4, <2>5
<1>3. Inv /\ ValueInv /\ [Next]_vars =>
        [pc = "handle" /\ req.pduType = "GET" /\ NodeIsCurrent /\ resp' # resp =>
           resp'.varbinds[Len(resp'.varbinds)].value = expected[requestVb.oid]]_vars
  BY <1>2
<1>4. QED
  BY <1>1, <1>3, InvInit, InvNext, ValueStep, PTL DEF Spec, GetReadsLastSet

-----------------------------------------------------------------------------
(***************************************************************************)
(* The answers leave in order.                                             *)
(***************************************************************************)

LEMMA OrderStep ==
  ASSUME Inv, AnswersInOrder, [Next]_vars
  PROVE  AnswersInOrder'
<1>1. /\ queue \in Seq([id : 1 .. MaxRequests, encodable : BOOLEAN])
      /\ taken \in Seq([id : 1 .. MaxRequests, fate : {"written", "unencodable", "unwritten"}])
      /\ Len(queue) \in Nat /\ Len(taken) \in Nat /\ received \in Nat
  BY DEF Inv, TypeOK
<1>2. ASSUME NEW pduType \in PduTypes, NEW n \in 1 .. MaxVarbinds,
             NEW vbs \in [1 .. n -> RequestVarbinds(pduType)], Receive(pduType, vbs)
      PROVE  AnswersInOrder'
  <2>1. /\ pc = "read" /\ pc' # "read" /\ received' = received + 1
        /\ resp'.id = received + 1 /\ UNCHANGED <<taken, transmitting, queue>>
    BY <1>2 DEF Receive, newResponse, transmitVars
  <2>2. received = Len(taken) + Len(queue) + 0
    BY <2>1 DEF AnswersInOrder
  <2>3. received' = Len(taken) + Len(queue) + 1
    BY <1>1, <2>1, <2>2
  <2>4. QED
    BY <2>1, <2>3 DEF AnswersInOrder
<1>3. CASE Respond
  <2>1. /\ pc = "lookup" /\ pc' = "read" /\ queue' = Append(queue, Queued(resp))
        /\ UNCHANGED <<taken, transmitting, received>>
    BY <1>3 DEF Respond, sendResponse, transmitVars
  <2>2. /\ Queued(resp) \in [id : 1 .. MaxRequests, encodable : BOOLEAN]
        /\ Queued(resp).id = resp.id
    BY <2>1, QueuedType
  <2>3. received = Len(taken) + Len(queue) + 1 /\ resp.id = received
    BY <2>1 DEF AnswersInOrder
  <2>4. /\ Len(queue') = Len(queue) + 1 /\ queue'[Len(queue) + 1] = Queued(resp)
        /\ \A i \in 1 .. Len(queue) : queue'[i] = queue[i]
    BY <1>1, <2>1, <2>2
  <2>5. ASSUME NEW i \in 1 .. Len(queue') PROVE queue'[i].id = Len(taken) + i
    <3>1. CASE i = Len(queue) + 1
      BY <1>1, <2>2, <2>3, <2>4, <3>1
    <3>2. CASE i # Len(queue) + 1
      <4>1. i \in 1 .. Len(queue)
        BY <1>1, <2>4, <3>2
      <4>2. QED
        BY <2>4, <4>1 DEF AnswersInOrder
    <3>3. QED
      BY <3>1, <3>2
  <2>6. received = Len(taken) + Len(queue') + 0
    BY <1>1, <2>3, <2>4
  <2>7. QED
    BY <2>1, <2>5, <2>6 DEF AnswersInOrder
<1>4. CASE Transmit
  <2>1. PICK fate \in {"written", "unencodable", "unwritten"} :
          /\ queue # <<>> /\ transmitting
          /\ Take(fate) /\ transmitting' = (fate # "unwritten")
    BY <1>4, TransmitTakes
  <2>2. PICK last : last = [id |-> Head(queue).id, fate |-> fate]
    OBVIOUS
  <2>3. /\ queue' = Tail(queue) /\ taken' = Append(taken, last)
        /\ UNCHANGED <<pc, resp, received>>
    BY <2>1, <2>2 DEF Take, listenVars
  <2>4. /\ last.id = Len(taken) + 1 /\ last.fate = fate
        /\ last \in [id : 1 .. MaxRequests, fate : {"written", "unencodable", "unwritten"}]
    <3>1. /\ Head(queue) = queue[1] /\ 1 \in 1 .. Len(queue)
          /\ Head(queue) \in [id : 1 .. MaxRequests, encodable : BOOLEAN]
      BY <1>1, <2>1, FirstAndRest
    <3>2. QED
      BY <2>2, <3>1 DEF AnswersInOrder
  <2>5. /\ Len(taken') = Len(taken) + 1 /\ taken'[Len(taken) + 1] = last
        /\ \A i \in 1 .. Len(taken) : taken'[i] = taken[i]
    BY <1>1, <2>3, <2>4
  <2>6. /\ Len(queue') = Len(queue) - 1
        /\ \A i \in 1 .. Len(queue') : queue'[i] = queue[i + 1] /\ i + 1 \in 1 .. Len(queue)
    BY <1>1, <2>1, <2>3
  <2>7. ASSUME NEW i \in 1 .. Len(taken')
        PROVE  /\ taken'[i].id = i
               /\ taken'[i].fate = "unwritten" => i = Len(taken') /\ ~transmitting'
    <3>1. CASE i = Len(taken) + 1
      BY <1>1, <2>1, <2>4, <2>5, <3>1
    <3>2. CASE i # Len(taken) + 1
      <4>1. i \in 1 .. Len(taken)
        BY <1>1, <2>5, <3>2
      <4>2. taken[i].id = i /\ taken[i].fate # "unwritten"
        BY <2>1, <4>1 DEF AnswersInOrder
      <4>3. QED
        BY <2>5, <4>1, <4>2
    <3>3. QED
      BY <3>1, <3>2
  <2>8. ASSUME NEW i \in 1 .. Len(queue') PROVE queue'[i].id = Len(taken') + i
    <3>1. queue'[i].id = Len(taken) + (i + 1)
      BY <2>6 DEF AnswersInOrder
    <3>2. i \in Nat
      OBVIOUS
    <3>3. QED
      BY <1>1, <2>5, <3>1, <3>2
  <2>9. Len(taken') + Len(queue') = Len(taken) + Len(queue)
    BY <1>1, <2>5, <2>6
  <2>10. QED
    BY <2>3, <2>7, <2>8, <2>9 DEF AnswersInOrder
<1>5. ASSUME StartTxn \/ Lookup \/ Handle \/ SetPanics \/ StopTransmitting \/ UNCHANGED vars
             \/ \E oid \in Oids, h \in Handlers : RegisterSingleVarOidHandler(oid, h)
      PROVE  AnswersInOrder'
  <2>1. /\ UNCHANGED <<taken, queue, received>> /\ (pc = "read" <=> pc' = "read")
        /\ ~transmitting => ~transmitting'
    BY <1>5 DEF StartTxn, Lookup, Handle, SetPanics, StopTransmitting,
       RegisterSingleVarOidHandler, vars, listenVars, transmitVars
  <2>2. pc # "read" => resp'.id = resp.id
    <3>1. SUFFICES ASSUME pc # "read" PROVE resp'.id = resp.id
      OBVIOUS
    <3>2. resp \in Responses
      BY <3>1, LengthsInHand
    <3>3. CASE \E value, by : AddVarbind(value, by)
      BY <3>2, <3>3 DEF AddVarbind, Responses
    <3>4. CASE StartTxn
      BY <3>2, <3>4 DEF StartTxn, Responses
    <3>5. CASE UNCHANGED resp
      BY <3>5
    <3>6. QED
      BY <1>5, <3>3, <3>4, <3>5 DEF Lookup, Handle, Get, GetFails, Set, SetFails, CallNoHandler,
         SetPanics, StopTransmitting, RegisterSingleVarOidHandler, vars, listenVars
  <2>3. QED
    BY <2>1, <2>2 DEF AnswersInOrder
<1>6. QED
  BY <1>2, <1>3, <1>4, <1>5 DEF Next, Listener

(***************************************************************************)
(* The transmitter takes the responses in the order of the requests, each  *)
(* once, until a write fails; what it has not taken is in the queue or     *)
(* being answered, whatever the capacity of the queue (sendResponse,       *)
(* processOutboundQueue).                                                  *)
(***************************************************************************)
THEOREM InOrder == Spec => []AnswersInOrder
<1>1. Init => AnswersInOrder
  BY DEF Init, AnswersInOrder
<1>2. QED
  BY <1>1, InvInit, InvNext, OrderStep, PTL DEF Spec
=============================================================================
