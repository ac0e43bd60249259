----------------------------- MODULE BerProofs ------------------------------
(***************************************************************************)
(* Proofs about Ber, for any numbers, identifiers, strings and bytes: what *)
(* its encoders write is bytes, its decoders return typed values, never    *)
(* more bytes than they were given, an error or that they panic, and what  *)
(* one writes the other reads back.                                        *)
(*                                                                         *)
(* Buffers are sequences of bytes and chains sequences of buffers.  The    *)
(* recursive definitions (FlattenSeq, Number, decodeIdentifiers) are       *)
(* functions that are chosen, so first it is shown that there are such     *)
(* functions.                                                              *)
(***************************************************************************)
EXTENDS Ber, WellFoundedInduction, TLAPS

-----------------------------------------------------------------------------
(***************************************************************************)
(* Induction on a set of numbers, and functions that are defined by        *)
(* recursion on a size.                                                    *)
(***************************************************************************)

\* A relation that holds for n < m and has least elements.
LEMMA NatIsWellFounded ==
  ASSUME NEW S \in SUBSET Nat, S # {}
  PROVE  \E R : /\ \A n, m \in Nat : n < m => <<n, m>> \in R
                /\ \E m \in S : \A n \in S : ~(<<n, m>> \in R)
<1>1. \A n, m \in Nat : n < m => <<n, m>> \in OpToRel(<, Nat)
  BY DEF OpToRel
<1>2. \E m \in S : \A n \in S : ~(<<n, m>> \in OpToRel(<, Nat))
  BY WFMin, NatLessThanWellFounded
<1>3. QED
  BY <1>1, <1>2, Zenon

\* Complete induction.
LEMMA SetInduction ==
  ASSUME NEW S, \A n \in Nat : (\A m \in Nat : m < n => m \in S) => n \in S
  PROVE  Nat \subseteq S
<1> SUFFICES ASSUME Nat \ S # {} PROVE FALSE
  OBVIOUS
<1>1. PICK R : /\ \A n, m \in Nat : n < m => <<n, m>> \in R
               /\ \E m \in Nat \ S : \A n \in Nat \ S : ~(<<n, m>> \in R)
  BY NatIsWellFounded
<1>2. PICK m \in Nat \ S : \A n \in Nat \ S : ~(<<n, m>> \in R)
  BY <1>1
<1>3. \A n \in Nat : n < m => n \in S
  BY <1>1, <1>2, Zenon
<1>4. QED
  BY <1>2, <1>3

\* The minimum of two numbers, which is a choice.
LEMMA MinOfTwo ==
  ASSUME NEW a \in Nat, NEW b \in Nat
  PROVE  Min({a, b}) \in Nat /\ Min({a, b}) <= a /\ Min({a, b}) <= b
<1>1. \E x \in {a, b} : \A y \in {a, b} : x <= y
  <2>1. CASE a <= b
    BY <2>1
  <2>2. CASE ~(a <= b)
    BY <2>2
  <2>3. QED
    BY <2>1, <2>2
<1>2. Min({a, b}) = CHOOSE x \in {a, b} : \A y \in {a, b} : x <= y
  BY DEF Min
<1>3. Min({a, b}) \in {a, b} /\ \A y \in {a, b} : Min({a, b}) <= y
  BY <1>1, <1>2
<1>4. QED
  BY <1>3

\* A set of numbers has a minimum.
LEMMA Least ==
  ASSUME NEW S \in SUBSET Nat, S # {}
  PROVE  Min(S) \in S /\ \A x \in S : Min(S) <= x
<1>1. PICK R : /\ \A n, m \in Nat : n < m => <<n, m>> \in R
               /\ \E m \in S : \A n \in S : ~(<<n, m>> \in R)
  BY NatIsWellFounded
<1>2. PICK m \in S : \A n \in S : ~(<<n, m>> \in R)
  BY <1>1
<1>3. \A n \in S : ~(n < m)
  BY <1>1, <1>2
<1>4. \A n \in S : m <= n
  BY <1>3
<1>5. Min(S) = CHOOSE x \in S : \A y \in S : x <= y
  BY DEF Min
<1>6. QED
  BY <1>4, <1>5

\* A recursion on D whose argument gets smaller.
Decreases(D, V, size, stop, next, base, combine) ==
  /\ size \in [D -> Nat] /\ stop \in [D -> BOOLEAN] /\ next \in [D -> D]
  /\ base \in [D -> V] /\ combine \in [D -> [V -> V]]
  /\ \A x \in D : ~stop[x] => size[next[x]] < size[x]

\* It defines a function.
LEMMA Recursion ==
  ASSUME NEW D, NEW V, NEW size, NEW stop, NEW next, NEW base, NEW combine,
         Decreases(D, V, size, stop, next, base, combine)
  PROVE  \E f \in [D -> V] :
           \A x \in D : f[x] = IF stop[x] THEN base[x] ELSE combine[x][f[next[x]]]
<1> DEFINE Holds(f, x) == f[x] = IF stop[x] THEN base[x] ELSE combine[x][f[next[x]]]
           Partial(k) == {f \in [D -> V] : \A x \in D : size[x] < k => Holds(f, x)}
<1> HIDE DEF Partial
<1>0. /\ size \in [D -> Nat] /\ stop \in [D -> BOOLEAN] /\ next \in [D -> D]
      /\ base \in [D -> V] /\ combine \in [D -> [V -> V]]
      /\ \A x \in D : ~stop[x] => size[next[x]] < size[x]
  BY DEF Decreases
<1> USE <1>0
<1>1. ASSUME NEW k \in Nat, NEW f \in Partial(k) PROVE Partial(k + 1) # {}
  <2> DEFINE g == [x \in D |-> IF stop[x] THEN base[x] ELSE combine[x][f[next[x]]]]
  <2>1. f \in [D -> V]
    BY DEF Partial
  <2>2. g \in [D -> V]
    BY <2>1
  <2>3. ASSUME NEW x \in D, size[x] < k + 1 PROVE Holds(g, x)
    <3>1. CASE stop[x]
      BY <3>1
    <3>2. CASE ~stop[x]
      <4>1. next[x] \in D /\ size[next[x]] < k
        BY <2>3, <3>2
      <4>2. g[next[x]] = f[next[x]]
        BY <4>1 DEF Partial
      <4>3. QED
        BY <3>2, <4>2
    <3>3. QED
      BY <3>1, <3>2
  <2>4. g \in Partial(k + 1)
    BY <2>2, <2>3 DEF Partial
  <2>5. QED
    BY <2>4
<1>2. \A k \in Nat : Partial(k) # {}
  <2> DEFINE S == {k \in Nat : Partial(k) # {}}
  <2>1. ASSUME NEW n \in Nat, \A m \in Nat : m < n => m \in S PROVE n \in S
    <3>1. CASE n = 0
      <4>1. base \in Partial(n)
        BY <3>1 DEF Partial
      <4>2. QED
        BY <4>1
    <3>2. CASE n # 0
      <4>1. n - 1 \in Nat /\ n - 1 \in S /\ (n - 1) + 1 = n
        BY <2>1, <3>2
      <4>2. PICK f : f \in Partial(n - 1)
        BY <4>1
      <4>3. Partial((n - 1) + 1) # {}
        BY <1>1, <4>1, <4>2, Zenon
      <4>4. QED
        BY <4>1, <4>3
    <3>3. QED
      BY <3>1, <3>2
  <2> HIDE DEF S
  <2>2. Nat \subseteq S
    BY <2>1, SetInduction, Zenon
  <2>3. QED
    BY <2>2 DEF S
<1>3. ASSUME NEW f, NEW g, NEW k \in Nat, NEW j \in Nat, f \in Partial(k), g \in Partial(j),
             NEW y \in D, size[y] < k, size[y] < j
      PROVE  f[y] = g[y]
  <2> DEFINE S == {n \in Nat : n < k /\ n < j => \A x \in D : size[x] = n => f[x] = g[x]}
  <2>1. ASSUME NEW n \in Nat, \A m \in Nat : m < n => m \in S PROVE n \in S
    <3>1. SUFFICES ASSUME n < k, n < j, NEW x \in D, size[x] = n PROVE f[x] = g[x]
      OBVIOUS
    <3>2. Holds(f, x) /\ Holds(g, x)
      BY <1>3, <3>1 DEF Partial
    <3>3. CASE ~stop[x]
      <4>1. next[x] \in D /\ size[next[x]] < n /\ size[next[x]] \in Nat
        BY <3>1, <3>3
      <4>2. f[next[x]] = g[next[x]]
        BY <2>1, <3>1, <4>1
      <4>3. QED
        BY <3>2, <3>3, <4>2
    <3>4. QED
      BY <3>2, <3>3
  <2> HIDE DEF S
  <2>2. Nat \subseteq S
    BY <2>1, SetInduction, Zenon
  <2>3. size[y] \in S /\ size[y] \in Nat
    BY <2>2
  <2>4. QED
    BY <1>3, <2>3 DEF S
<1> DEFINE approx(x) == CHOOSE f : f \in Partial(size[x] + 1)
           h == [x \in D |-> approx(x)[x]]
<1>4. ASSUME NEW x \in D PROVE approx(x) \in Partial(size[x] + 1)
  <2>1. size[x] + 1 \in Nat
    OBVIOUS
  <2>2. \E f : f \in Partial(size[x] + 1)
    BY <1>2, <2>1
  <2>3. QED
    BY <2>2, Zenon
<1> HIDE DEF approx
<1>5. h \in [D -> V]
  <2>1. ASSUME NEW x \in D PROVE approx(x)[x] \in V
    BY <1>4 DEF Partial
  <2>2. QED
    BY <2>1
<1>6. ASSUME NEW x \in D PROVE Holds(h, x)
  <2>1. Holds(approx(x), x)
    <3>1. size[x] < size[x] + 1
      OBVIOUS
    <3>2. QED
      BY <1>4, <3>1 DEF Partial
  <2>2. CASE ~stop[x]
    <3>1. next[x] \in D /\ size[next[x]] < size[x] + 1 /\ size[next[x]] < size[next[x]] + 1
          /\ size[x] + 1 \in Nat /\ size[next[x]] + 1 \in Nat
      BY <2>2
    <3>2. approx(x)[next[x]] = approx(next[x])[next[x]]
      BY <1>3, <1>4, <3>1
    <3>3. QED
      BY <2>1, <2>2, <3>1, <3>2
  <2>3. CASE stop[x]
    BY <2>1, <2>3
  <2>4. QED
    BY <2>2, <2>3
<1>7. QED
  BY <1>5, <1>6

-----------------------------------------------------------------------------
(***************************************************************************)
(* Buffers and chains, and what a chain holds.                             *)
(***************************************************************************)

\* What a buffer holds.
Buffer == Seq(Bytes)

\* A chain of buffers (buffer_chain.go).
Chain == Seq(Buffer)

\* FlattenSeq chooses a function: what that function gives for the empty
\* sequence,
LEMMA FlattenEmpty == FlattenSeq(<<>>) = <<>>
BY DEF FlattenSeq

\* and that there is such a function for any other.
LEMMA FlattenFunctionOf ==
  ASSUME NEW X, NEW s \in Seq(Seq(X)), Len(s) # 0
  PROVE  \E f \in [1 .. Len(s) -> Seq(X)] :
           /\ f[1] = s[1]
           /\ \A i \in 2 .. Len(s) : f[i] = f[i - 1] \o s[i]
           /\ FlattenSeq(s) = f[Len(s)]
<1> DEFINE D == 1 .. Len(s)
           Step(f) == [i \in D |-> IF i = 1 THEN s[i] ELSE f[i - 1] \o s[i]]
           size == [i \in D |-> i]
           stop == [i \in D |-> i = 1]
           next == [i \in D |-> IF i = 1 THEN 1 ELSE i - 1]
           base == [i \in D |-> s[i]]
           combine == [i \in D |-> [v \in Seq(X) |-> v \o s[i]]]
           F == CHOOSE f : f = Step(f)
<1>1. Len(s) \in Nat \ {0} /\ \A i \in D : s[i] \in Seq(X)
  OBVIOUS
<1>2. /\ size \in [D -> Nat] /\ stop \in [D -> BOOLEAN] /\ next \in [D -> D]
      /\ base \in [D -> Seq(X)]
  BY <1>1
<1>x. /\ \A x \in D : size[x] = x /\ (stop[x] <=> x = 1) /\ base[x] = s[x]
      /\ \A x \in D : x # 1 => next[x] = x - 1 /\ next[x] \in D
      /\ \A x \in D : \A v \in Seq(X) : combine[x][v] = v \o s[x]
  <2>1. \A x \in D : stop[x] <=> x = 1
    OBVIOUS
  <2>2. \A x \in D : size[x] = x /\ base[x] = s[x]
    OBVIOUS
  <2>3. \A x \in D : x # 1 => next[x] = x - 1 /\ next[x] \in D
    BY <1>1
  <2>4. \A x \in D : \A v \in Seq(X) : combine[x][v] = v \o s[x]
    OBVIOUS
  <2>5. QED
    BY <2>1, <2>2, <2>3, <2>4
<1>y. \A x \in D : ~stop[x] => size[next[x]] < size[x]
  <2> HIDE DEF size, stop, next, base, combine
  <2>1. QED
    BY <1>1, <1>x
<1>3. combine \in [D -> [Seq(X) -> Seq(X)]]
  <2>1. \A i \in D : [v \in Seq(X) |-> v \o s[i]] \in [Seq(X) -> Seq(X)]
    BY <1>1
  <2>2. QED
    BY <2>1
<1>4. PICK g \in [D -> Seq(X)] :
        \A x \in D : g[x] = IF stop[x] THEN base[x] ELSE combine[x][g[next[x]]]
  <2> HIDE DEF D, size, stop, next, base, combine
  <2>1. Decreases(D, Seq(X), size, stop, next, base, combine)
    BY <1>2, <1>3, <1>y DEF Decreases
  <2>2. QED
    BY <2>1, Recursion
<1>5. g = Step(g)
  <2>1. \A i \in D : g[i] = IF i = 1 THEN s[i] ELSE g[i - 1] \o s[i]
    <3>1. ASSUME NEW i \in D PROVE g[i] = IF i = 1 THEN s[i] ELSE g[i - 1] \o s[i]
      <4>1. g[i] = IF stop[i] THEN base[i] ELSE combine[i][g[next[i]]]
        BY <1>4
      <4>2. CASE i # 1
        <5> HIDE DEF D, size, stop, next, base, combine
        <5>1. ~stop[i] /\ next[i] = i - 1 /\ i - 1 \in D /\ g[i - 1] \in Seq(X)
          BY <1>x, <4>2
        <5>2. g[i] = combine[i][g[i - 1]]
          BY <4>1, <5>1
        <5>3. QED
          BY <1>x, <4>2, <5>1, <5>2
      <4>3. CASE i = 1
        BY <4>1, <4>3
      <4>4. QED
        BY <4>2, <4>3
    <3>2. QED
      BY <3>1
  <2>2. QED
    BY <2>1
<1>6. F = Step(F)
  <2> HIDE DEF Step
  <2>1. QED
    BY <1>5, Zenon
<1>7. FlattenSeq(s) = F[Len(s)]
  BY <1>1 DEF FlattenSeq
<1> HIDE DEF F
<1>8. \A i \in D : F[i] = IF i = 1 THEN s[i] ELSE F[i - 1] \o s[i]
  BY <1>6
<1>9. \A i \in D : F[i] \in Seq(X)
  <2> DEFINE S == {n \in Nat : n \in D => F[n] \in Seq(X)}
  <2>1. ASSUME NEW n \in Nat, \A m \in Nat : m < n => m \in S PROVE n \in S
    <3>1. SUFFICES ASSUME n \in D PROVE F[n] \in Seq(X)
      OBVIOUS
    <3>2. CASE n = 1
      BY <1>1, <1>8, <3>1, <3>2
    <3>3. CASE n # 1
      <4>1. n - 1 \in Nat /\ n - 1 < n /\ n - 1 \in D
        BY <3>1, <3>3
      <4>2. F[n - 1] \in Seq(X)
        BY <2>1, <4>1
      <4>3. QED
        <5>1. F[n] = F[n - 1] \o s[n] /\ s[n] \in Seq(X)
          BY <1>1, <1>8, <3>1, <3>3
        <5>2. QED
          BY <4>2, <5>1
    <3>4. QED
      BY <3>2, <3>3
  <2> HIDE DEF S
  <2>2. Nat \subseteq S
    BY <2>1, SetInduction, Zenon
  <2>3. QED
    BY <2>2 DEF S
<1>10. F \in [1 .. Len(s) -> Seq(X)]
  BY <1>6, <1>9
<1>11. F[1] = s[1] /\ \A i \in 2 .. Len(s) : F[i] = F[i - 1] \o s[i]
  <2>1. 1 \in D /\ \A i \in 2 .. Len(s) : i \in D /\ i # 1
    BY <1>1
  <2>2. QED
    BY <1>8, <2>1
<1>12. QED
  BY <1>7, <1>10, <1>11

\* Concatenating sequences gives a sequence of the same kind.
LEMMA FlattenTypeOf ==
  ASSUME NEW X, NEW s \in Seq(Seq(X))
  PROVE  FlattenSeq(s) \in Seq(X)
<1>1. CASE Len(s) = 0
  BY <1>1 DEF FlattenSeq
<1>2. CASE Len(s) # 0
  <2>1. PICK f \in [1 .. Len(s) -> Seq(X)] : FlattenSeq(s) = f[Len(s)]
    BY <1>2, FlattenFunctionOf
  <2>2. Len(s) \in 1 .. Len(s)
    BY <1>2
  <2>3. QED
    BY <2>1, <2>2
<1>3. QED
  BY <1>1, <1>2

\* One sequence is its own concatenation.
LEMMA FlattenOneOf ==
  ASSUME NEW X, NEW b \in Seq(X)
  PROVE  FlattenSeq(<<b>>) = b
<1>1. <<b>> \in Seq(Seq(X)) /\ Len(<<b>>) = 1 /\ <<b>>[1] = b
  OBVIOUS
<1>2. ASSUME NEW s \in Seq(Seq(X)), Len(s) = 1 PROVE FlattenSeq(s) = s[1]
  <2>1. PICK f \in [1 .. Len(s) -> Seq(X)] : f[1] = s[1] /\ FlattenSeq(s) = f[Len(s)]
    <3>1. Len(s) # 0
      BY <1>2
    <3>2. QED
      BY <3>1, FlattenFunctionOf
  <2>2. QED
    BY <1>2, <2>1
<1>3. QED
  BY <1>1, <1>2

\* Concatenating in two parts and then the parts is concatenating all.
LEMMA FlattenConcatOf ==
  ASSUME NEW X, NEW s \in Seq(Seq(X)), NEW t \in Seq(Seq(X))
  PROVE  FlattenSeq(s \o t) = FlattenSeq(s) \o FlattenSeq(t)
<1>1. /\ s \o t \in Seq(Seq(X)) /\ Len(s \o t) = Len(s) + Len(t) /\ Len(s) \in Nat /\ Len(t) \in Nat
      /\ \A i \in 1 .. Len(s) : (s \o t)[i] = s[i] /\ s[i] \in Seq(X)
      /\ \A i \in 1 .. Len(t) : (s \o t)[Len(s) + i] = t[i] /\ t[i] \in Seq(X)
  OBVIOUS
<1>2. CASE Len(s) = 0
  <2>1. s = <<>>
    BY <1>2
  <2>2. \A b \in Seq(X) : <<>> \o b = b
    OBVIOUS
  <2>3. \A b \in Seq(Seq(X)) : <<>> \o b = b
    OBVIOUS
  <2>4. QED
    BY <2>1, <2>2, <2>3, FlattenTypeOf, FlattenEmpty
<1>3. CASE Len(t) = 0
  <2>1. t = <<>>
    BY <1>3
  <2>2. \A b \in Seq(X) : b \o <<>> = b
    OBVIOUS
  <2>3. \A b \in Seq(Seq(X)) : b \o <<>> = b
    OBVIOUS
  <2>4. QED
    BY <2>1, <2>2, <2>3, FlattenTypeOf, FlattenEmpty
<1>4. CASE Len(s) # 0 /\ Len(t) # 0
  <2>1. PICK f \in [1 .. Len(s) -> Seq(X)] :
          /\ f[1] = s[1]
          /\ \A i \in 2 .. Len(s) : f[i] = f[i - 1] \o s[i]
          /\ FlattenSeq(s) = f[Len(s)]
    BY <1>4, FlattenFunctionOf
  <2>2. PICK g \in [1 .. Len(t) -> Seq(X)] :
          /\ g[1] = t[1]
          /\ \A i \in 2 .. Len(t) : g[i] = g[i - 1] \o t[i]
          /\ FlattenSeq(t) = g[Len(t)]
    BY <1>4, FlattenFunctionOf
  <2>3. PICK h \in [1 .. Len(s) + Len(t) -> Seq(X)] :
          /\ h[1] = (s \o t)[1]
          /\ \A i \in 2 .. Len(s) + Len(t) : h[i] = h[i - 1] \o (s \o t)[i]
          /\ FlattenSeq(s \o t) = h[Len(s) + Len(t)]
    <3>1. Len(s \o t) # 0
      BY <1>1, <1>4
    <3>2. \E h \in [1 .. Len(s \o t) -> Seq(X)] :
            /\ h[1] = (s \o t)[1]
            /\ \A i \in 2 .. Len(s \o t) : h[i] = h[i - 1] \o (s \o t)[i]
            /\ FlattenSeq(s \o t) = h[Len(s \o t)]
      <4>1. s \o t \in Seq(Seq(X))
        BY <1>1
      <4>2. QED
        BY <3>1, <4>1, FlattenFunctionOf, Zenon
    <3>3. QED
      BY <1>1, <3>2, Zenon
  <2>4. \A i \in 1 .. Len(s) : h[i] = f[i]
    <3> DEFINE S == {n \in Nat : n \in 1 .. Len(s) => h[n] = f[n]}
    <3>1. ASSUME NEW n \in Nat, \A m \in Nat : m < n => m \in S PROVE n \in S
      <4>1. SUFFICES ASSUME n \in 1 .. Len(s) PROVE h[n] = f[n]
        OBVIOUS
      <4>2. CASE n = 1
        BY <1>1, <2>1, <2>3, <4>1, <4>2
      <4>3. CASE n # 1
        <5>1. n - 1 \in Nat /\ n - 1 < n /\ n - 1 \in 1 .. Len(s) /\ n \in 2 .. Len(s)
              /\ n \in 2 .. Len(s) + Len(t)
          BY <1>1, <4>1, <4>3
        <5>2. h[n - 1] = f[n - 1]
          BY <3>1, <5>1
        <5>3. h[n] = h[n - 1] \o (s \o t)[n] /\ f[n] = f[n - 1] \o s[n] /\ (s \o t)[n] = s[n]
          BY <1>1, <2>1, <2>3, <4>1, <5>1
        <5>4. QED
          BY <5>2, <5>3
      <4>4. QED
        BY <4>2, <4>3
    <3> HIDE DEF S
    <3>2. Nat \subseteq S
      BY <3>1, SetInduction, Zenon
    <3>3. QED
      BY <3>2 DEF S
  <2>5. \A i \in 1 .. Len(t) : h[Len(s) + i] = f[Len(s)] \o g[i]
    <3> DEFINE S == {n \in Nat : n \in 1 .. Len(t) => h[Len(s) + n] = f[Len(s)] \o g[n]}
    <3>1. ASSUME NEW n \in Nat, \A m \in Nat : m < n => m \in S PROVE n \in S
      <4>1. SUFFICES ASSUME n \in 1 .. Len(t) PROVE h[Len(s) + n] = f[Len(s)] \o g[n]
        OBVIOUS
      <4>2. Len(s) + n \in 2 .. Len(s) + Len(t) /\ (Len(s) + n) - 1 = Len(s) + (n - 1)
        BY <1>1, <1>4, <4>1
      <4>3. h[Len(s) + n] = h[Len(s) + (n - 1)] \o t[n]
        BY <1>1, <2>3, <4>1, <4>2
      <4>4. CASE n = 1
        <5>1. h[Len(s) + (n - 1)] = f[Len(s)]
          BY <1>1, <1>4, <2>4, <4>4
        <5>2. QED
          BY <2>2, <4>3, <4>4, <5>1
      <4>5. CASE n # 1
        <5>1. n - 1 \in Nat /\ n - 1 < n /\ n - 1 \in 1 .. Len(t) /\ n \in 2 .. Len(t)
          BY <1>1, <4>1, <4>5
        <5>2. h[Len(s) + (n - 1)] = f[Len(s)] \o g[n - 1]
          BY <3>1, <5>1
        <5>3. g[n] = g[n - 1] \o t[n]
          BY <2>2, <5>1
        <5>4. f[Len(s)] \in Seq(X) /\ g[n - 1] \in Seq(X) /\ t[n] \in Seq(X)
          <6>1. Len(s) \in 1 .. Len(s)
            BY <1>1, <1>4
          <6>2. QED
            BY <1>1, <4>1, <5>1, <6>1
        <5>5. (f[Len(s)] \o g[n - 1]) \o t[n] = f[Len(s)] \o (g[n - 1] \o t[n])
          <6>1. \A a, b, c \in Seq(X) : (a \o b) \o c = a \o (b \o c)
            OBVIOUS
          <6>2. QED
            BY <5>4, <6>1, Zenon
        <5>6. QED
          BY <4>3, <5>2, <5>3, <5>5
      <4>6. QED
        BY <4>4, <4>5
    <3> HIDE DEF S
    <3>2. Nat \subseteq S
      BY <3>1, SetInduction, Zenon
    <3>3. \A i \in 1 .. Len(t) : i \in Nat
      OBVIOUS
    <3>4. QED
      BY <3>2, <3>3 DEF S
  <2>6. Len(t) \in 1 .. Len(t)
    BY <1>1, <1>4
  <2>7. QED
    BY <2>1, <2>2, <2>3, <2>5, <2>6
<1>5. QED
  BY <1>2, <1>3, <1>4

\* Concatenation is associative.
LEMMA BufferAssociative ==
  ASSUME NEW a \in Buffer, NEW b \in Buffer, NEW c \in Buffer
  PROVE  (a \o b) \o c = a \o (b \o c)
BY DEF Buffer

\* The same of chains: the bytes of a chain,
LEMMA FlattenType ==
  ASSUME NEW s \in Chain
  PROVE  FlattenSeq(s) \in Buffer
BY FlattenTypeOf DEF Chain, Buffer

\* of a chain of one buffer,
LEMMA FlattenOne ==
  ASSUME NEW b \in Buffer
  PROVE  FlattenSeq(<<b>>) = b
BY FlattenOneOf DEF Buffer

\* and of two chains.
LEMMA FlattenConcat ==
  ASSUME NEW s \in Chain, NEW t \in Chain
  PROVE  FlattenSeq(s \o t) = FlattenSeq(s) \o FlattenSeq(t)
BY FlattenConcatOf DEF Chain, Buffer

\* The chains of several varbinds.
Chains == Seq(Chain)

\* The same of chains of chains.
LEMMA FlattenChains ==
  /\ \A c \in Chain : FlattenSeq(<<c>>) = c
  /\ \A s \in Chains : FlattenSeq(s) \in Chain
  /\ \A s, t \in Chains : FlattenSeq(s \o t) = FlattenSeq(s) \o FlattenSeq(t)
<1>1. \A c \in Seq(Buffer) : FlattenSeq(<<c>>) = c
  BY FlattenOneOf
<1>2. \A s \in Seq(Seq(Buffer)) : FlattenSeq(s) \in Seq(Buffer)
  BY FlattenTypeOf
<1>3. \A s, t \in Seq(Seq(Buffer)) : FlattenSeq(s \o t) = FlattenSeq(s) \o FlattenSeq(t)
  BY FlattenConcatOf
<1>4. QED
  BY <1>1, <1>2, <1>3 DEF Chains, Chain

\* The length of what two buffers hold, and the empty buffer beside another.
LEMMA BufferFacts ==
  ASSUME NEW a \in Buffer, NEW b \in Buffer
  PROVE  /\ a \o b \in Buffer /\ Len(a \o b) = Len(a) + Len(b)
         /\ Len(a) \in Nat /\ Len(b) \in Nat
         /\ a \o <<>> = a /\ <<>> \o a = a
         /\ a # <<>> => Len(a) > 0
BY DEF Buffer

\* The empty sequence is a buffer,
LEMMA EmptyBuffer == <<>> \in Buffer /\ Len(<<>>) = 0
BY DEF Buffer

\* and a chain.
LEMMA EmptyChain == <<>> \in Chain
BY DEF Chain

\* Two chains are a chain,
LEMMA ChainConcat ==
  ASSUME NEW s \in Chain, NEW t \in Chain
  PROVE  s \o t \in Chain
BY DEF Chain

\* and so is one buffer.
LEMMA OneBuffer ==
  ASSUME NEW b \in Buffer
  PROVE  <<b>> \in Chain
BY DEF Chain

\* A header of two bytes.
LEMMA TwoBytes ==
  ASSUME NEW x \in Bytes, NEW y \in Bytes
  PROVE  <<x>> \o <<y>> = <<x, y>> /\ <<x, y>> \in Buffer /\ <<x>> \in Buffer
<1> DEFINE s == <<x>> \o <<y>>
<1>1. s \in Seq(Bytes) /\ Len(s) = 2 /\ s[1] = x /\ s[2] = y
  OBVIOUS
<1> HIDE DEF s
<1>2. s = <<x, y>>
  BY <1>1
<1>3. QED
  BY <1>2 DEF s, Buffer

\* Sequences with the same members are equal.
LEMMA SameSeq ==
  ASSUME NEW X, NEW s \in Seq(X), NEW t \in Seq(X), Len(s) = Len(t),
         \A i \in 1 .. Len(t) : s[i] = t[i]
  PROVE  s = t
OBVIOUS

\* The parts of something short are short.
LEMMA LongerThanParts ==
  ASSUME NEW a \in Buffer, NEW b \in Buffer, Len(a \o b) < 127
  PROVE  Len(a) < 127 /\ Len(b) < 127
<1>1. Len(a \o b) = Len(a) + Len(b) /\ Len(a) \in Nat /\ Len(b) \in Nat
  BY BufferFacts
<1>2. QED
  BY <1>1

-----------------------------------------------------------------------------
(***************************************************************************)
(* Blocks of less than 127 bytes: their length is one byte, and is read    *)
(* back.                                                                   *)
(***************************************************************************)

\* Read takes the first of two buffers off,
LEMMA ReadBack ==
  ASSUME NEW a \in Buffer, NEW b \in Buffer
  PROVE  Read(Len(a), a \o b) = OK(a, b)
<1>1. ~(Len(a) > Len(a \o b))
  BY DEF Buffer
<1>2. SubSeq(a \o b, 1, Len(a)) = a
  BY DEF Buffer
<1>3. SubSeq(a \o b, Len(a) + 1, Len(a \o b)) = b
  BY DEF Buffer
<1>4. QED
  BY <1>1, <1>2, <1>3, Zenon DEF Read

\* and ReadByte the first byte.
LEMMA ReadByteBack ==
  ASSUME NEW x \in Bytes, NEW b \in Buffer
  PROVE  ReadByte(<<x>> \o b) = OK(x, b)
<1>1. <<x>> \o b # <<>> /\ Head(<<x>> \o b) = x
  BY DEF Buffer
<1>2. Tail(<<x>> \o b) = b
  BY DEF Buffer
<1>3. QED
  BY <1>1, <1>2, Zenon DEF ReadByte

\* A length of less than 127 is one byte, and is read as it is.
LEMMA ShortLength ==
  ASSUME NEW l \in 0 .. 126, NEW b \in Buffer
  PROVE  decodeLength(<<l>> \o b) = OK(l, b)
<1>1. l \in Bytes
  BY DEF Bytes
<1>2. ReadByte(<<l>> \o b) = OK(l, b) /\ l < 127
  BY <1>1, ReadByteBack
<1>3. QED
  BY <1>2 DEF decodeLength, Then, OK

\* A type and such a length are read back as a header,
LEMMA ShortHeader ==
  ASSUME NEW type \in Bytes, NEW b \in Buffer, NEW l \in 0 .. 126, l <= Len(b)
  PROVE  decodeHeader(<<type, l>> \o b) = OK([type |-> type, length |-> l], b)
<1>1. <<l>> \o b \in Buffer /\ <<type, l>> \o b = <<type>> \o (<<l>> \o b)
  BY DEF Buffer, Bytes
<1>2. ReadByte(<<type, l>> \o b) = OK(type, <<l>> \o b)
  BY <1>1, ReadByteBack
<1>3. decodeLength(<<l>> \o b) = OK(l, b)
  BY ShortLength
<1>4. ~(l > Len(b))
  BY BufferFacts
<1>5. ASSUME NEW c, NEW d, ReadByte(c) = OK(type, d), decodeLength(d) = OK(l, b)
      PROVE  decodeHeader(c) = OK([type |-> type, length |-> l], b)
  BY <1>4, <1>5 DEF decodeHeader, Then, OK
<1>6. QED
  BY <1>2, <1>3, <1>5

\* also when the type is expected.
LEMMA ShortHeaderOf ==
  ASSUME NEW type \in Bytes, NEW b \in Buffer, NEW l \in 0 .. 126, l <= Len(b)
  PROVE  decodeHeaderOf(type, <<type, l>> \o b) = OK(l, b)
<1>1. decodeHeader(<<type, l>> \o b) = OK([type |-> type, length |-> l], b)
  BY ShortHeader
<1>2. QED
  BY <1>1 DEF decodeHeaderOf, Then, OK

\* The bytes of a block in short form: type, length and contents.
LEMMA ShortBlock ==
  ASSUME NEW type \in Bytes, NEW chain \in Chain, Len(FlattenSeq(chain)) < 127
  PROVE  FlattenSeq(Block(type, chain)) =
           <<type, Len(FlattenSeq(chain))>> \o FlattenSeq(chain)
<1> DEFINE l == Len(FlattenSeq(chain))
<1>1. FlattenSeq(chain) \in Buffer /\ l \in Nat
  BY FlattenType DEF Buffer
<1>2. encodeLength(l) = <<l>> /\ l \in Bytes
  <2>1. encodeLength(l) = <<l>>
    BY DEF encodeLength
  <2>2. \A k \in Nat : k < 127 => k \in Bytes
    BY DEF Bytes
  <2>3. QED
    BY <1>1, <2>1, <2>2
<1>3. <<type>> \o encodeLength(l) = <<type, l>> /\ <<type, l>> \in Buffer
  BY <1>2, TwoBytes
<1>4. <<<<type, l>>>> \in Chain
  BY <1>3 DEF Chain
<1>5. Block(type, chain) = <<<<type, l>>>> \o chain
  BY <1>3 DEF Block
<1>6. QED
  BY <1>3, <1>4, <1>5, FlattenConcat, FlattenOne

-----------------------------------------------------------------------------
(***************************************************************************)
(* Numbers from their digits.                                              *)
(***************************************************************************)

\* A set of numbers up to four has a maximum.
LEMMA MaxUpTo4 ==
  ASSUME NEW S \in SUBSET (0 .. 4), 0 \in S
  PROVE  Max(S) \in S /\ \A y \in S : y <= Max(S)
<1>1. \E x \in S : \A y \in S : x >= y
  <2>1. CASE 4 \in S
    BY <2>1
  <2>2. CASE 4 \notin S /\ 3 \in S
    BY <2>2
  <2>3. CASE 4 \notin S /\ 3 \notin S /\ 2 \in S
    BY <2>3
  <2>4. CASE 4 \notin S /\ 3 \notin S /\ 2 \notin S /\ 1 \in S
    BY <2>4
  <2>5. CASE 4 \notin S /\ 3 \notin S /\ 2 \notin S /\ 1 \notin S
    BY <2>5
  <2>6. QED
    BY <2>1, <2>2, <2>3, <2>4, <2>5
<1>2. Max(S) \in S /\ \A y \in S : Max(S) >= y
  BY <1>1, Zenon DEF Max
<1>3. QED
  BY <1>2

\* g is start with the first steps of combine applied to it.
Accumulates(g, n, V, start, combine) ==
  /\ g \in [0 .. n -> V] /\ g[0] = start
  /\ \A i \in 1 .. n : g[i] = combine[i][g[i - 1]]

\* There is such a function.
LEMMA Accumulation ==
  ASSUME NEW n \in Nat, NEW V, NEW start \in V, NEW combine \in [1 .. n -> [V -> V]]
  PROVE  \E g : Accumulates(g, n, V, start, combine)
<1> DEFINE D == 0 .. n
           size == [i \in D |-> i]
           stop == [i \in D |-> i = 0]
           next == [i \in D |-> IF i = 0 THEN 0 ELSE i - 1]
           base == [i \in D |-> start]
           cases == [i \in D |-> IF i = 0 THEN [v \in V |-> v] ELSE combine[i]]
<1>1. \A x \in D : stop[x] <=> x = 0
  OBVIOUS
<1>2. \A x \in D : size[x] = x /\ base[x] = start
  OBVIOUS
<1>3. \A x \in D : x # 0 => next[x] = x - 1 /\ next[x] \in D /\ cases[x] = combine[x]
  OBVIOUS
<1>4. /\ size \in [D -> Nat] /\ stop \in [D -> BOOLEAN] /\ next \in [D -> D]
      /\ base \in [D -> V]
  OBVIOUS
<1>5. cases \in [D -> [V -> V]]
  <2>1. [v \in V |-> v] \in [V -> V]
    OBVIOUS
  <2>2. \A i \in D : i # 0 => combine[i] \in [V -> V]
    OBVIOUS
  <2>3. QED
    BY <2>1, <2>2
<1>6. \A x \in D : ~stop[x] => size[next[x]] < size[x]
  <2> HIDE DEF size, stop, next, base, cases
  <2>1. QED
    BY <1>1, <1>2, <1>3
<1>7. PICK g \in [D -> V] :
        \A x \in D : g[x] = IF stop[x] THEN base[x] ELSE cases[x][g[next[x]]]
  <2> HIDE DEF D, size, stop, next, base, cases
  <2>1. Decreases(D, V, size, stop, next, base, cases)
    BY <1>4, <1>5, <1>6 DEF Decreases
  <2>2. QED
    BY <2>1, Recursion
<1>8. 0 \in D /\ \A i \in 1 .. n : i \in D /\ i # 0
  OBVIOUS
<1> HIDE DEF size, stop, next, base, cases
<1>9. g[0] = start
  BY <1>1, <1>2, <1>7, <1>8
<1>10. ASSUME NEW i \in 1 .. n PROVE g[i] = combine[i][g[i - 1]]
  BY <1>1, <1>3, <1>7, <1>8
<1>11. QED
  BY <1>7, <1>9, <1>10 DEF Accumulates

\* Digits, and the elements of identifiers as they are decoded.
Numbers == Seq(Int)

\* The numbers that more and more of the digits make.
Values(f, base, first, digits) ==
  /\ f \in [0 .. Len(digits) -> Int]
  /\ f[0] = first
  /\ \A i \in 1 .. Len(digits) : f[i] = base * f[i - 1] + digits[i]
  /\ Number(base, first, digits) = f[Len(digits)]

\* Number chooses a function of the positions of the digits; there is one,
LEMMA NumberFunction ==
  ASSUME NEW base \in {128, 256}, NEW first \in Int, NEW digits \in Numbers
  PROVE  \E f : Values(f, base, first, digits)
<1> USE DEF Numbers
<1> DEFINE n == Len(digits)
           plus(i, v) == base * v + digits[i]
           Step(f) == [i \in 0 .. n |-> IF i = 0 THEN first ELSE plus(i, f[i - 1])]
           F == CHOOSE f : f = Step(f)
           combine == [i \in 1 .. n |-> [v \in Int |-> plus(i, v)]]
<1>1. n \in Nat
  OBVIOUS
<1>2. ASSUME NEW i \in 1 .. n, NEW v \in Int PROVE plus(i, v) \in Int
  <2>1. digits[i] \in Int
    OBVIOUS
  <2>2. CASE base = 128
    BY <2>1, <2>2
  <2>3. CASE base = 256
    BY <2>1, <2>3
  <2>4. QED
    BY <2>2, <2>3
<1>3. Number(base, first, digits) = F[n]
  BY DEF Number
<1> HIDE DEF n, plus
<1>4. combine \in [1 .. n -> [Int -> Int]]
  <2>1. \A i \in 1 .. n : [v \in Int |-> plus(i, v)] \in [Int -> Int]
    BY <1>2
  <2>2. QED
    BY <2>1
<1>x. PICK g : Accumulates(g, n, Int, first, combine)
  <2> HIDE DEF combine
  <2>1. QED
    BY <1>1, <1>4, Accumulation
<1>5. g \in [0 .. n -> Int] /\ g[0] = first /\ \A i \in 1 .. n : g[i] = combine[i][g[i - 1]]
  BY <1>x DEF Accumulates
<1>6. \A i \in 1 .. n : g[i] = plus(i, g[i - 1])
  <2>1. \A i \in 1 .. n : g[i - 1] \in Int
    BY <1>1, <1>5
  <2>2. QED
    BY <1>5, <2>1
<1>7. g = Step(g)
  BY <1>1, <1>5, <1>6
<1>8. F = Step(F)
  <2> HIDE DEF Step
  <2>1. QED
    BY <1>7, Zenon
<1> HIDE DEF F
<1>9. F[0] = first /\ \A i \in 1 .. n : F[i] = plus(i, F[i - 1])
  <2>1. 0 \in 0 .. n /\ \A i \in 1 .. n : i \in 0 .. n /\ i # 0
    BY <1>1
  <2>2. F[0] = first
    BY <1>8, <2>1
  <2>3. ASSUME NEW i \in 1 .. n PROVE F[i] = plus(i, F[i - 1])
    <3>1. i \in 0 .. n /\ i # 0
      BY <2>1
    <3>2. Step(F)[i] = IF i = 0 THEN first ELSE plus(i, F[i - 1])
      BY <3>1, Zenon
    <3>3. Step(F)[i] = plus(i, F[i - 1])
      BY <3>1, <3>2, Zenon
    <3> HIDE DEF Step
    <3>4. QED
      BY <1>8, <3>3, Zenon
  <2>4. QED
    BY <2>2, <2>3
<1>10. \A i \in 0 .. n : F[i] = g[i]
  <2> DEFINE S == {k \in Nat : k \in 0 .. n => F[k] = g[k]}
  <2>1. ASSUME NEW k \in Nat, \A m \in Nat : m < k => m \in S PROVE k \in S
    <3>1. SUFFICES ASSUME k \in 0 .. n PROVE F[k] = g[k]
      OBVIOUS
    <3>2. CASE k = 0
      BY <1>5, <1>9, <3>2
    <3>3. CASE k # 0
      <4>1. k - 1 \in Nat /\ k - 1 < k /\ k - 1 \in 0 .. n /\ k \in 1 .. n
        BY <1>1, <3>1, <3>3
      <4>2. F[k - 1] = g[k - 1]
        BY <2>1, <4>1
      <4>3. QED
        BY <1>6, <1>9, <4>1, <4>2
    <3>4. QED
      BY <3>2, <3>3
  <2> HIDE DEF S
  <2>2. Nat \subseteq S
    BY <2>1, SetInduction, Zenon
  <2>3. \A i \in 0 .. n : i \in Nat
    BY <1>1
  <2>4. QED
    BY <2>2, <2>3 DEF S
<1>11. Number(base, first, digits) = g[n]
  BY <1>1, <1>3, <1>10
<1>12. QED
  BY <1>5, <1>6, <1>11 DEF n, plus, Values

\* and so a number has a value.
LEMMA NumberType ==
  ASSUME NEW base \in {128, 256}, NEW first \in Int, NEW digits \in Numbers
  PROVE  Number(base, first, digits) \in Int
<1>1. PICK f : Values(f, base, first, digits)
  BY NumberFunction
<1>2. QED
  BY <1>1 DEF Values, Numbers

\* The numbers of up to four further digits.
LEMMA NumberOfFew ==
  ASSUME NEW base \in {128, 256}, NEW first \in Int, NEW digits \in Numbers,
         Len(digits) \in 0 .. 4
  PROVE  /\ Len(digits) = 0 => Number(base, first, digits) = first
         /\ Len(digits) = 1 => Number(base, first, digits) = base * first + digits[1]
         /\ Len(digits) = 2 =>
              Number(base, first, digits) = base * (base * first + digits[1]) + digits[2]
         /\ Len(digits) = 3 =>
              Number(base, first, digits) =
                base * (base * (base * first + digits[1]) + digits[2]) + digits[3]
         /\ Len(digits) = 4 =>
              Number(base, first, digits) =
                base * (base * (base * (base * first + digits[1]) + digits[2]) + digits[3])
                  + digits[4]
<1>0. PICK f : Values(f, base, first, digits)
  BY NumberFunction
<1>1. /\ f[0] = first
      /\ \A i \in 1 .. Len(digits) : f[i] = base * f[i - 1] + digits[i]
      /\ Number(base, first, digits) = f[Len(digits)]
  BY <1>0 DEF Values
<1>3. /\ Len(digits) >= 1 => f[1] = base * f[0] + digits[1]
      /\ Len(digits) >= 2 => f[2] = base * f[1] + digits[2]
      /\ Len(digits) >= 3 => f[3] = base * f[2] + digits[3]
      /\ Len(digits) >= 4 => f[4] = base * f[3] + digits[4]
  BY <1>1
<1>4. CASE Len(digits) = 0
  BY <1>1, <1>4
<1>5. CASE Len(digits) = 1
  BY <1>1, <1>3, <1>5
<1>6. CASE Len(digits) = 2
  BY <1>1, <1>3, <1>6
<1>7. CASE Len(digits) = 3
  BY <1>1, <1>3, <1>7
<1>8. CASE Len(digits) = 4
  BY <1>1, <1>3, <1>8
<1>9. QED
  BY <1>4, <1>5, <1>6, <1>7, <1>8

-----------------------------------------------------------------------------
(***************************************************************************)
(* Integers are read back.                                                 *)
(***************************************************************************)

\* A number from its quotient and its last digit.
LEMMA Quotients ==
  ASSUME NEW v \in Int
  PROVE  /\ v = 256 * (v \div 256) + (v % 256)
         /\ v \div 256 = 256 * (v \div 65536) + ((v \div 256) % 256)
         /\ v \div 65536 = 256 * (v \div 16777216) + ((v \div 65536) % 256)
         /\ v = 128 * (v \div 128) + (v % 128)
         /\ v \div 128 = 128 * (v \div 16384) + ((v \div 128) % 128)
         /\ v \div 16384 = 128 * (v \div 2097152) + ((v \div 16384) % 128)
         /\ v \div 2097152 = 128 * (v \div 268435456) + ((v \div 2097152) % 128)
BY SMT

\* The powers of the bases, written out for the provers.
LEMMA Powers ==
  /\ Power256(0) = 1 /\ Power256(1) = 256 /\ Power256(2) = 65536 /\ Power256(3) = 16777216
  /\ Power128(0) = 1 /\ Power128(1) = 128 /\ Power128(2) = 16384 /\ Power128(3) = 2097152
  /\ Power128(4) = 268435456
BY SMT DEF Power256, Power128

\* The sign is extended from the first byte as it was cut off.
LEMMA Sign ==
  ASSUME NEW x \in -128 .. 127
  PROVE  extendSign(x % 256) = x
BY DEF extendSign

\* An integer of 32 bits takes one to four bytes, and the first holds its sign
\* (calculate2sComplementIntLen).
LEMMA IntegerLength ==
  ASSUME NEW v \in Int, v \div Power256(3) \in -128 .. 127
  PROVE  \E n \in 1 .. 4 :
           /\ n = calculate2sComplementIntLen(v)
           /\ v \div Power256(n - 1) \in -128 .. 127
<1> DEFINE S == {0} \union {k \in 1 .. 3 : v \div Power256(k - 1) \notin -128 .. 127}
<1>1. S \in SUBSET (0 .. 4) /\ 0 \in S
  OBVIOUS
<1>2. Max(S) \in S /\ \A y \in S : y <= Max(S)
  <2> HIDE DEF S
  <2>1. QED
    BY <1>1, MaxUpTo4
<1>3. PICK m \in S : m = Max(S) /\ \A y \in S : y <= m
  <2> HIDE DEF S
  <2>1. QED
    BY <1>2, Zenon
<1>4. calculate2sComplementIntLen(v) = 1 + m
  BY <1>3 DEF calculate2sComplementIntLen
<1>5. m \in 0 .. 3
  OBVIOUS
<1>6. m + 1 \notin S
  <2>1. ~(m + 1 <= m)
    BY <1>5
  <2>2. QED
    BY <1>3, <2>1, Zenon
<1>7. v \div Power256(m) \in -128 .. 127
  <2>1. CASE m = 3
    BY <2>1
  <2>2. CASE m # 3
    <3>1. m + 1 \in 1 .. 3 /\ (m + 1) - 1 = m
      BY <1>5, <2>2
    <3>2. QED
      BY <1>6, <3>1
  <2>3. QED
    BY <2>1, <2>2
<1>8. 1 + m \in 1 .. 4 /\ (1 + m) - 1 = m
  BY <1>5
<1>9. QED
  BY <1>4, <1>7, <1>8

\* What follows the first byte.
LEMMA TailFacts ==
  ASSUME NEW d \in Buffer, Len(d) >= 1
  PROVE  /\ Tail(d) \in Buffer /\ Tail(d) \in Numbers /\ Len(Tail(d)) = Len(d) - 1
         /\ \A i \in 1 .. Len(d) - 1 : Tail(d)[i] = d[i + 1]
<1>1. Tail(d) \in Seq(Bytes) /\ Len(Tail(d)) = Len(d) - 1
  BY DEF Buffer
<1>2. ASSUME NEW s \in Seq(Bytes) PROVE s \in Seq(Int)
  <2>1. \A b \in Bytes : b \in Int
    BY DEF Bytes
  <2>2. QED
    BY <2>1
<1>3. \A i \in 1 .. Len(d) - 1 : Tail(d)[i] = d[i + 1]
  BY DEF Buffer
<1>4. QED
  BY <1>1, <1>2, <1>3 DEF Buffer, Numbers

\* The bytes of an integer: a header in short form, and digits whose value it
\* is.
LEMMA EncodedInteger ==
  ASSUME NEW v \in Int, v \div Power256(3) \in -128 .. 127
  PROVE  \E d \in Buffer :
           /\ Len(d) \in 1 .. 4
           /\ FlattenSeq(encodeInteger(v)) = <<INTEGER, Len(d)>> \o d
           /\ Number(256, extendSign(d[1]), Tail(d)) = v
<1>1. PICK n \in 1 .. 4 : n = calculate2sComplementIntLen(v) /\ v \div Power256(n - 1) \in -128 .. 127
  BY IntegerLength
<1> DEFINE digit(k) == (v \div Power256(k)) % 256
           d == [i \in 1 .. n |-> digit(n - i)]
<1>2. \A k \in 0 .. 3 : digit(k) \in Bytes
  BY SMT, Powers DEF Bytes
<1>3. encodeInteger(v) = Block(INTEGER, <<d>>)
  BY <1>1 DEF encodeInteger
<1>4. v = 256 * (v \div Power256(1)) + digit(0)
  BY SMT, Powers, Quotients
<1>5. v \div Power256(1) = 256 * (v \div Power256(2)) + digit(1)
  BY SMT, Powers, Quotients
<1>6. v \div Power256(2) = 256 * (v \div Power256(3)) + digit(2)
  BY SMT, Powers, Quotients
<1>7. v \div Power256(0) = v
  BY SMT, Powers
<1>8. digit(n - 1) = (v \div Power256(n - 1)) % 256
  OBVIOUS
<1> HIDE DEF digit
<1>9. \A i \in 1 .. n : n - i \in 0 .. 3
  OBVIOUS
<1>10. d \in Seq(Bytes) /\ Len(d) = n
  BY <1>2, <1>9
<1>11. \A i \in 1 .. n : d[i] = digit(n - i)
  OBVIOUS
<1> HIDE DEF d
<1>12. d \in Buffer /\ Len(d) >= 1 /\ Len(d) < 127
  BY <1>10 DEF Buffer
<1>13. FlattenSeq(encodeInteger(v)) = <<INTEGER, n>> \o d
  <2>1. <<d>> \in Chain /\ FlattenSeq(<<d>>) = d /\ INTEGER \in Bytes
    BY <1>12, FlattenOne DEF Chain, INTEGER, Bytes
  <2>2. QED
    BY <1>3, <1>10, <1>12, <2>1, ShortBlock
<1>14. extendSign(d[1]) = v \div Power256(n - 1)
  <2>1. d[1] = digit(n - 1)
    BY <1>11
  <2>2. QED
    BY <1>1, <1>8, <2>1, Sign
<1> DEFINE t == Tail(d)
           first == extendSign(d[1])
<1>15. t \in Numbers /\ Len(t) = n - 1 /\ \A i \in 1 .. n - 1 : t[i] = digit(n - (i + 1))
  BY <1>10, <1>11, <1>12, TailFacts
<1>16. first \in Int
  BY <1>1, <1>14
<1>17. Number(256, first, t) = v
  <2> HIDE DEF t
  <2>1. Len(t) \in 0 .. 4
    BY <1>15
  <2>2. CASE n = 1
    <3>1. Len(t) = 0 /\ first = v
      BY <1>7, <1>14, <1>15, <2>2
    <3>2. QED
      BY <1>15, <1>16, <2>1, <3>1, NumberOfFew
  <2>3. CASE n = 2
    <3>1. Len(t) = 1 /\ first = v \div Power256(1) /\ t[1] = digit(0)
      BY <1>14, <1>15, <2>3
    <3> HIDE DEF first
    <3>2. Number(256, first, t) = 256 * first + t[1]
      BY <1>15, <1>16, <2>1, <3>1, NumberOfFew
    <3>3. QED
      BY <1>4, <3>1, <3>2
  <2>4. CASE n = 3
    <3>1. Len(t) = 2 /\ first = v \div Power256(2) /\ t[1] = digit(1) /\ t[2] = digit(0)
      BY <1>14, <1>15, <2>4
    <3> HIDE DEF first
    <3>2. Number(256, first, t) = 256 * (256 * first + t[1]) + t[2]
      BY <1>15, <1>16, <2>1, <3>1, NumberOfFew
    <3>3. QED
      BY <1>4, <1>5, <3>1, <3>2
  <2>5. CASE n = 4
    <3>1. /\ Len(t) = 3 /\ first = v \div Power256(3)
          /\ t[1] = digit(2) /\ t[2] = digit(1) /\ t[3] = digit(0)
      BY <1>14, <1>15, <2>5
    <3> HIDE DEF first
    <3>2. Number(256, first, t) = 256 * (256 * (256 * first + t[1]) + t[2]) + t[3]
      BY <1>15, <1>16, <2>1, <3>1, NumberOfFew
    <3>3. QED
      BY <1>4, <1>5, <1>6, <3>1, <3>2
  <2>6. QED
    BY <2>2, <2>3, <2>4, <2>5
<1>18. QED
  BY <1>10, <1>12, <1>13, <1>17

\* What is read back of an integer after its header.
LEMMA IntegerContents ==
  ASSUME NEW v, NEW d \in Buffer, Len(d) \in 1 .. 4,
         Number(256, extendSign(d[1]), Tail(d)) = v, NEW rest \in Buffer
  PROVE  decodeInteger(Len(d), d \o rest) = OK(v, rest)
<1>1. Read(Len(d), d \o rest) = OK(d, rest)
  BY ReadBack
<1>2. ASSUME NEW c, NEW n, n # 0, Read(n, c) = OK(d, rest)
      PROVE  decodeInteger(n, c) = OK(v, rest)
  BY <1>2 DEF decodeInteger, Then, OK
<1>3. Len(d) # 0
  <2>1. \A k \in 1 .. 4 : k # 0
    OBVIOUS
  <2>2. QED
    BY <2>1, Zenon
<1>4. QED
  BY <1>1, <1>2, <1>3, Zenon

\* An integer is received as it was sent.
THEOREM IntegerReadBack ==
  ASSUME NEW v \in Int, v \div Power256(3) \in -128 .. 127, NEW rest \in Buffer
  PROVE  decodeIntegerWithHeader(FlattenSeq(encodeInteger(v)) \o rest) = OK(v, rest)
<1>1. PICK d \in Buffer :
        /\ Len(d) \in 1 .. 4
        /\ FlattenSeq(encodeInteger(v)) = <<INTEGER, Len(d)>> \o d
        /\ Number(256, extendSign(d[1]), Tail(d)) = v
  BY EncodedInteger
<1>2. /\ INTEGER \in Bytes /\ Len(d) \in Bytes /\ Len(d) \in 0 .. 126
  BY <1>1 DEF INTEGER, Bytes
<1>3. d \o rest \in Buffer /\ Len(d) <= Len(d \o rest)
  BY BufferFacts
<1>4. (<<INTEGER, Len(d)>> \o d) \o rest = <<INTEGER, Len(d)>> \o (d \o rest)
  BY <1>2, TwoBytes, BufferAssociative
<1>5. decodeHeaderOf(INTEGER, <<INTEGER, Len(d)>> \o (d \o rest)) = OK(Len(d), d \o rest)
  BY <1>2, <1>3, ShortHeaderOf
<1>8. decodeInteger(Len(d), d \o rest) = OK(v, rest)
  BY <1>1, IntegerContents, Zenon
<1>9. ASSUME NEW c, NEW n, NEW b,
             decodeHeaderOf(INTEGER, c) = OK(n, b), decodeInteger(n, b) = OK(v, rest)
      PROVE  decodeIntegerWithHeader(c) = OK(v, rest)
  BY <1>9 DEF decodeIntegerWithHeader, Then, OK
<1>10. decodeIntegerWithHeader(<<INTEGER, Len(d)>> \o (d \o rest)) = OK(v, rest)
  BY <1>5, <1>8, <1>9, Zenon
<1>11. QED
  BY <1>1, <1>4, <1>10, Zenon

-----------------------------------------------------------------------------
(***************************************************************************)
(* An element of an identifier is read back, if it has no more than four   *)
(* digits.                                                                 *)
(***************************************************************************)

\* An element takes one to five digits, and five only if four are too few
\* (calculateBase128IntLen).
LEMMA Base128Length ==
  ASSUME NEW v \in Nat
  PROVE  \E n \in 1 .. 5 :
           /\ n = calculateBase128IntLen(v)
           /\ n # 5 => v \div Power128(n) = 0
           /\ n = 5 => v \div Power128(4) > 0
<1> DEFINE S == {0} \union {k \in 1 .. 4 : v \div Power128(k) > 0}
<1>1. S \in SUBSET (0 .. 4) /\ 0 \in S
  OBVIOUS
<1>2. PICK m \in S : m = Max(S) /\ \A y \in S : y <= m
  <2> HIDE DEF S
  <2>1. Max(S) \in S /\ \A y \in S : y <= Max(S)
    BY <1>1, MaxUpTo4
  <2>2. QED
    BY <2>1, Zenon
<1>3. calculateBase128IntLen(v) = 1 + m
  BY <1>2 DEF calculateBase128IntLen
<1>4. m \in 0 .. 4
  OBVIOUS
<1>5. m + 1 \notin S
  <2>1. ~(m + 1 <= m)
    BY <1>4
  <2>2. QED
    BY <1>2, <2>1, Zenon
<1>6. /\ v \div Power128(0) \in Nat /\ v \div Power128(1) \in Nat /\ v \div Power128(2) \in Nat
      /\ v \div Power128(3) \in Nat /\ v \div Power128(4) \in Nat
  BY SMT, Powers
<1>7. \A k \in 1 .. 4 : v \div Power128(k) \in Nat
  BY <1>6
<1>8. 1 + m # 5 => v \div Power128(1 + m) = 0
  <2>1. SUFFICES ASSUME 1 + m # 5 PROVE v \div Power128(1 + m) = 0
    OBVIOUS
  <2>2. 1 + m \in 1 .. 4 /\ m + 1 = 1 + m
    BY <1>4, <2>1
  <2>3. ~(v \div Power128(1 + m) > 0)
    BY <1>5, <2>2
  <2>4. QED
    BY <1>7, <2>2, <2>3
<1>9. 1 + m = 5 => v \div Power128(4) > 0
  BY <1>4
<1>10. 1 + m \in 1 .. 5
  BY <1>4
<1>11. QED
  BY <1>3, <1>8, <1>9, <1>10

\* An element of an identifier: each byte but the last has its highest bit set.
Element(v, e) ==
  /\ e \in Buffer /\ Len(e) \in 1 .. 5
  /\ Len(e) = 5 => v \div Power128(4) > 0
  /\ \A i \in 1 .. Len(e) - 1 : ~(e[i] < 128)
  /\ e[Len(e)] < 128
  /\ Len(e) # 5 =>
       \A d : d = [i \in 1 .. Len(e) |-> Digit(e[i])] => Number(128, 0, d) = v

\* What is encoded of an element is such an element.
LEMMA EncodedElement ==
  ASSUME NEW v \in Nat
  PROVE  Element(v, encodeBase128Int(v))
<1>1. PICK n \in 1 .. 5 : /\ n = calculateBase128IntLen(v)
                          /\ n # 5 => v \div Power128(n) = 0
                          /\ n = 5 => v \div Power128(4) > 0
  BY Base128Length
<1> DEFINE digit(k) == (v \div Power128(k)) % 128
           byte(i) == digit(n - i) + (IF i < n THEN 128 ELSE 0)
           e == [i \in 1 .. n |-> byte(i)]
<1>2. encodeBase128Int(v) = e
  BY <1>1 DEF encodeBase128Int
<1>3. \A k \in 0 .. 4 : digit(k) \in 0 .. 127
  BY SMT, Powers
<1>4. v = 128 * (v \div Power128(1)) + digit(0)
  BY SMT, Powers, Quotients
<1>5. v \div Power128(1) = 128 * (v \div Power128(2)) + digit(1)
  BY SMT, Powers, Quotients
<1>6. v \div Power128(2) = 128 * (v \div Power128(3)) + digit(2)
  BY SMT, Powers, Quotients
<1>7. v \div Power128(3) = 128 * (v \div Power128(4)) + digit(3)
  BY SMT, Powers, Quotients
<1> HIDE DEF digit
<1>8. \A i \in 1 .. n : n - i \in 0 .. 4
  OBVIOUS
<1>9. ASSUME NEW i \in 1 .. n
      PROVE  /\ byte(i) \in Bytes /\ byte(i) % 128 = digit(n - i)
             /\ i # n => ~(byte(i) < 128)
             /\ i = n => byte(i) < 128
  <2>1. digit(n - i) \in 0 .. 127
    BY <1>3, <1>8
  <2>2. PICK x \in 0 .. 127 : x = digit(n - i)
    BY <2>1
  <2>3. CASE i < n
    <3>1. byte(i) = x + 128
      BY <2>2, <2>3
    <3>2. QED
      BY <2>2, <2>3, <3>1 DEF Bytes
  <2>4. CASE i = n
    <3>1. byte(i) = x
      BY <2>2, <2>4
    <3>2. QED
      BY <2>2, <2>4, <3>1 DEF Bytes
  <2>5. QED
    BY <2>3, <2>4
<1> HIDE DEF byte
<1>10. e \in Seq(Bytes) /\ Len(e) = n /\ \A i \in 1 .. n : e[i] = byte(i)
  BY <1>9
<1> HIDE DEF e
<1>11. \A i \in 1 .. n : Digit(e[i]) = digit(n - i)
  BY <1>9, <1>10 DEF Digit
<1>12. ASSUME n # 5, NEW d, d = [i \in 1 .. n |-> Digit(e[i])]
       PROVE  Number(128, 0, d) = v
  <2>1. /\ \A i \in 1 .. n : d[i] = digit(n - i)
        /\ d \in Seq(Int) /\ Len(d) = n
    BY <1>3, <1>8, <1>11, <1>12
  <2>2. d \in Numbers /\ Len(d) \in 0 .. 4
    BY <1>12, <2>1 DEF Numbers
  <2>0. PICK z \in Int : z = 0
    OBVIOUS
  <2>3. CASE n = 1
    <3>1. Len(d) = 1 /\ d[1] = digit(0) /\ v \div Power128(1) = 0
      BY <1>1, <2>1, <2>3
    <3>2. Number(128, z, d) = 128 * z + d[1]
      BY <2>2, <3>1, NumberOfFew
    <3>3. QED
      BY <2>0, <1>4, <3>1, <3>2
  <2>4. CASE n = 2
    <3>1. Len(d) = 2 /\ d[1] = digit(1) /\ d[2] = digit(0) /\ v \div Power128(2) = 0
      BY <1>1, <2>1, <2>4
    <3>2. Number(128, z, d) = 128 * (128 * z + d[1]) + d[2]
      BY <2>2, <3>1, NumberOfFew
    <3>3. QED
      BY <2>0, <1>4, <1>5, <3>1, <3>2
  <2>5. CASE n = 3
    <3>1. /\ Len(d) = 3 /\ d[1] = digit(2) /\ d[2] = digit(1) /\ d[3] = digit(0)
          /\ v \div Power128(3) = 0
      BY <1>1, <2>1, <2>5
    <3>2. Number(128, z, d) = 128 * (128 * (128 * z + d[1]) + d[2]) + d[3]
      BY <2>2, <3>1, NumberOfFew
    <3>3. QED
      BY <2>0, <1>4, <1>5, <1>6, <3>1, <3>2
  <2>6. CASE n = 4
    <3>1. /\ Len(d) = 4 /\ d[1] = digit(3) /\ d[2] = digit(2) /\ d[3] = digit(1)
          /\ d[4] = digit(0) /\ v \div Power128(4) = 0
      BY <1>1, <2>1, <2>6
    <3>2. Number(128, z, d) = 128 * (128 * (128 * (128 * z + d[1]) + d[2]) + d[3]) + d[4]
      BY <2>2, <3>1, NumberOfFew
    <3>3. QED
      BY <2>0, <1>4, <1>5, <1>6, <1>7, <3>1, <3>2
  <2>7. QED
    BY <1>12, <2>3, <2>4, <2>5, <2>6
<1>13. e \in Buffer /\ Len(e) \in 1 .. 5
  BY <1>10 DEF Buffer
<1>14. \A i \in 1 .. n - 1 : ~(e[i] < 128)
  BY <1>9, <1>10
<1>15. e[n] < 128
  BY <1>9, <1>10
<1>16. Element(v, e)
  BY <1>1, <1>10, <1>12, <1>13, <1>14, <1>15 DEF Element
<1>17. QED
  BY <1>2, <1>16

\* The minimum of a set, if it is known.
LEMMA LeastOf ==
  ASSUME NEW S \in SUBSET Int, NEW n \in S, \A i \in S : n <= i
  PROVE  Min(S) = n
<1>1. Min(S) \in S /\ \A i \in S : Min(S) <= i
  BY Zenon DEF Min
<1>2. Min(S) <= n /\ n <= Min(S) /\ Min(S) \in Int
  BY <1>1
<1>3. QED
  BY <1>2

\* An element is read back, if it has no more than four bytes.
LEMMA ElementReadBack ==
  ASSUME NEW v, NEW e, Element(v, e), NEW rest \in Buffer
  PROVE  /\ Len(e) # 5 => decodeBase128Int(e \o rest) = OK(v, rest)
         /\ Len(e) = 5 => \E r \in Buffer : /\ decodeBase128Int(e \o rest) = Error(r)
                                            /\ Len(r) > Len(rest)
<1> DEFINE b == e \o rest
           last == {i \in 1 .. 4 : i <= Len(b) /\ b[i] < 128}
           n == Len(e)
<1>1. /\ e \in Buffer /\ n \in 1 .. 5
      /\ \A i \in 1 .. n - 1 : ~(e[i] < 128)
      /\ e[n] < 128
      /\ n # 5 => \A d : d = [i \in 1 .. n |-> Digit(e[i])] => Number(128, 0, d) = v
  BY DEF Element
<1>2. /\ b \in Buffer /\ Len(b) = n + Len(rest) /\ Len(rest) \in Nat
      /\ \A i \in 1 .. n : b[i] = e[i]
  BY <1>1, BufferFacts DEF Buffer
<1>3. ASSUME n # 5 PROVE decodeBase128Int(b) = OK(v, rest)
  <2>1. n \in last /\ \A i \in last : n <= i
    <3>1. n \in last
      BY <1>1, <1>2, <1>3
    <3>2. ASSUME NEW i \in last, ~(n <= i) PROVE FALSE
      <4>1. i \in 1 .. n - 1 /\ i \in 1 .. n
        BY <1>1, <3>2
      <4>2. b[i] < 128
        OBVIOUS
      <4>3. QED
        BY <1>1, <1>2, <4>1, <4>2
    <3>3. QED
      BY <3>1, <3>2
  <2>2. last \in SUBSET Int /\ last # {}
    <3>1. last \subseteq Int
      OBVIOUS
    <3> HIDE DEF last
    <3>2. QED
      BY <2>1, <3>1
  <2>3. Min(last) = n
    <3> HIDE DEF last
    <3>1. QED
      BY <2>1, <2>2, LeastOf
  <2>4. Read(n, b) = OK(e, rest)
    BY <1>1, ReadBack
  <2>5. DOMAIN e = 1 .. n
    BY <1>1 DEF Buffer
  <2>6. Number(128, 0, [i \in DOMAIN e |-> Digit(e[i])]) = v
    BY <1>1, <1>3, <2>5
  <2>7. decodeBase128Int(b) =
          Then(Read(Min(last), b), LAMBDA digits, left :
            OK(Number(128, 0, [i \in DOMAIN digits |-> Digit(digits[i])]), left))
    BY <2>2 DEF decodeBase128Int
  <2> HIDE DEF last, b, n
  <2>8. QED
    BY <2>3, <2>4, <2>6, <2>7 DEF Then, OK
<1>4. ASSUME n = 5
      PROVE  \E r \in Buffer : decodeBase128Int(b) = Error(r) /\ Len(r) > Len(rest)
  <2>1. last = {}
    <3>1. \A i \in 1 .. 4 : ~(b[i] < 128)
      BY <1>1, <1>2, <1>4
    <3>2. QED
      BY <3>1
  <2>2. decodeBase128Int(b) = Error(SubSeq(b, 5, Len(b)))
    BY <2>1 DEF decodeBase128Int
  <2>3. SubSeq(b, 5, Len(b)) \in Buffer /\ Len(SubSeq(b, 5, Len(b))) = Len(rest) + 1
    <3> HIDE DEF b
    <3>1. QED
      BY <1>2, <1>4 DEF Buffer
  <2>4. QED
    <3>1. Len(SubSeq(b, 5, Len(b))) > Len(rest)
      BY <1>2, <2>3
    <3>2. QED
      BY <2>2, <2>3, <3>1, Zenon
<1>5. QED
  BY <1>3, <1>4

-----------------------------------------------------------------------------
(***************************************************************************)
(* What decoders return, whatever the bytes.                               *)
(***************************************************************************)

\* What a decoder may return that has n bytes left to leave.
Outcome(r, X, n) ==
  \/ \E v \in X, b \in Buffer : r = OK(v, b) /\ Len(b) <= n
  \/ \E b \in Buffer : r = Error(b) /\ Len(b) <= n
  \/ r = Panic

\* Whether it was decoded, is an error, or ends the program.
LEMMA Status ==
  /\ \A v, b : OK(v, b).status = "ok" /\ OK(v, b).val = v /\ OK(v, b).rest = b
  /\ \A b : Error(b).status = "error" /\ Error(b).rest = b
  /\ Panic.status = "panic"
  /\ "ok" # "error" /\ "ok" # "panic" /\ "error" # "panic"
BY DEF OK, Error, Panic

\* A decoder that stops with the outcome of the one before it.
LEMMA Stops ==
  ASSUME NEW r, NEW X, NEW n, NEW Y, NEW m, n \in Nat, m \in Nat, n <= m,
         Outcome(r, X, n), r.status # "ok"
  PROVE  Outcome(r, Y, m)
<1>1. CASE \E v \in X, b \in Buffer : r = OK(v, b) /\ Len(b) <= n
  BY <1>1, Status
<1>2. CASE \E b \in Buffer : r = Error(b) /\ Len(b) <= n
  <2>1. PICK b \in Buffer : r = Error(b) /\ Len(b) <= n
    BY <1>2
  <2>2. Len(b) \in Nat
    BY BufferFacts
  <2>3. \A k \in Nat : k <= n => k <= m
    OBVIOUS
  <2>4. Len(b) <= m
    BY <2>1, <2>2, <2>3
  <2>5. QED
    BY <2>1, <2>4 DEF Outcome
<1>3. QED
  BY <1>1, <1>2 DEF Outcome

\* What was decoded, and what is left of the bytes.
LEMMA OutcomeOK ==
  ASSUME NEW r, NEW X, NEW n, Outcome(r, X, n), r.status = "ok"
  PROVE  \E v \in X, b \in Buffer : r = OK(v, b) /\ Len(b) <= n
<1>1. ~\E b \in Buffer : r = Error(b) /\ Len(b) <= n
  BY Status
<1>2. r # Panic
  BY Status
<1>3. QED
  BY <1>1, <1>2 DEF Outcome

\* What leaves at most n bytes leaves at most m,
LEMMA ShorterOutcome ==
  ASSUME NEW r, NEW X, NEW n \in Nat, NEW m \in Nat, n <= m, Outcome(r, X, n)
  PROVE  Outcome(r, X, m)
<1>1. \A b \in Buffer : Len(b) <= n => Len(b) <= m
  <2>1. \A k \in Nat : k <= n => k <= m
    OBVIOUS
  <2>2. QED
    BY <2>1, BufferFacts
<1>2. QED
  BY <1>1 DEF Outcome

\* The outcome of a decoder, of what is left by the one before it.
LEMMA OutcomeAfter ==
  ASSUME NEW b \in Buffer, NEW n \in Nat, Len(b) <= n, NEW r, NEW X, Outcome(r, X, Len(b))
  PROVE  Outcome(r, X, n)
BY ShorterOutcome, BufferFacts

\* an error is an outcome of any type,
LEMMA OutcomeError ==
  ASSUME NEW r, NEW X, NEW b \in Buffer, NEW n, Len(b) <= n, r = Error(b)
  PROVE  Outcome(r, X, n)
BY DEF Outcome

\* and an outcome of one type is one of a larger type.
LEMMA OutcomeOfMore ==
  ASSUME NEW r, NEW X, NEW Y, NEW n, Outcome(r, X, n), X \subseteq Y
  PROVE  Outcome(r, Y, n)
BY DEF Outcome

\* Read gives as many bytes as it was asked for, or an error,
LEMMA ReadType ==
  ASSUME NEW n \in Nat, NEW bytes \in Buffer
  PROVE  \/ n > Len(bytes) /\ Read(n, bytes) = Error(<<>>)
         \/ \E v \in Buffer, b \in Buffer :
              /\ Read(n, bytes) = OK(v, b)
              /\ Len(v) = n /\ Len(b) = Len(bytes) - n
<1>1. CASE n > Len(bytes)
  BY <1>1 DEF Read
<1>2. CASE ~(n > Len(bytes))
  <2>1. n \in 0 .. Len(bytes)
    BY <1>2 DEF Buffer
  <2>2. SubSeq(bytes, 1, n) \in Buffer /\ Len(SubSeq(bytes, 1, n)) = n
    BY <2>1 DEF Buffer
  <2>3. /\ SubSeq(bytes, n + 1, Len(bytes)) \in Buffer
        /\ Len(SubSeq(bytes, n + 1, Len(bytes))) = Len(bytes) - n
    BY <2>1 DEF Buffer
  <2>4. Read(n, bytes) = OK(SubSeq(bytes, 1, n), SubSeq(bytes, n + 1, Len(bytes)))
    BY <1>2 DEF Read
  <2>5. QED
    BY <2>2, <2>3, <2>4, Zenon
<1>3. QED
  BY <1>1, <1>2

\* and so never more than there were.
LEMMA ReadOutcome ==
  ASSUME NEW n \in Nat, NEW bytes \in Buffer
  PROVE  Outcome(Read(n, bytes), Buffer, Len(bytes))
<1>1. CASE Read(n, bytes) = Error(<<>>)
  <2>1. Len(<<>>) <= Len(bytes)
    BY EmptyBuffer, BufferFacts
  <2>2. QED
    BY <1>1, <2>1, EmptyBuffer DEF Outcome
<1>2. CASE Read(n, bytes) # Error(<<>>)
  <2>1. PICK v \in Buffer, b \in Buffer : Read(n, bytes) = OK(v, b) /\ Len(b) = Len(bytes) - n
    BY <1>2, ReadType
  <2>2. Len(b) <= Len(bytes)
    BY <2>1, BufferFacts
  <2>3. QED
    BY <2>1, <2>2 DEF Outcome
<1>3. QED
  BY <1>1, <1>2

\* ReadByte gives one byte, or an error.
LEMMA ReadByteType ==
  ASSUME NEW bytes \in Buffer
  PROVE  \/ bytes = <<>> /\ ReadByte(bytes) = Error(<<>>)
         \/ \E x \in Bytes, b \in Buffer : ReadByte(bytes) = OK(x, b) /\ Len(b) = Len(bytes) - 1
<1>1. CASE bytes = <<>>
  BY <1>1 DEF ReadByte
<1>2. CASE bytes # <<>>
  <2>1. Head(bytes) \in Bytes /\ Tail(bytes) \in Buffer /\ Len(Tail(bytes)) = Len(bytes) - 1
    BY <1>2 DEF Buffer
  <2>2. ReadByte(bytes) = OK(Head(bytes), Tail(bytes))
    BY <1>2 DEF ReadByte
  <2>3. QED
    BY <2>1, <2>2, Zenon
<1>3. QED
  BY <1>1, <1>2

\* A length in long form is a number.
LEMMA LengthValueType ==
  ASSUME NEW digits \in Buffer
  PROVE  LengthValue(digits) \in Int
<1> DEFINE int == SubSeq(digits, IF Len(digits) > 8 THEN Len(digits) - 7 ELSE 1, Len(digits))
           high == Len(int) - 3
<1>1. LengthValue(digits) = IF \E i \in 1 .. high : int[i] # 0 THEN -1 ELSE Number(256, 0, int)
  BY DEF LengthValue
<1>2. int \in Numbers
  <2>1. PICK m \in 1 .. Len(digits) + 1 : m = IF Len(digits) > 8 THEN Len(digits) - 7 ELSE 1
    <3>1. \A k \in Nat : (IF k > 8 THEN k - 7 ELSE 1) \in 1 .. k + 1
      OBVIOUS
    <3>2. QED
      BY <3>1, BufferFacts
  <2>2. SubSeq(digits, m, Len(digits)) \in Seq(Bytes)
    BY <2>1 DEF Buffer
  <2>3. int \in Seq(Bytes)
    BY <2>1, <2>2
  <2>4. \A b \in Bytes : b \in Int
    BY DEF Bytes
  <2>5. ASSUME NEW s \in Seq(Bytes) PROVE s \in Seq(Int)
    BY <2>4
  <2> HIDE DEF int
  <2>6. QED
    BY <2>3, <2>5 DEF Numbers
<1> HIDE DEF int, high
<1>3. PICK base \in {128, 256}, z \in Int : base = 256 /\ z = 0
  OBVIOUS
<1>4. Number(base, z, int) \in Int
  BY <1>2, NumberType
<1>5. Number(256, 0, int) \in Int
  BY <1>3, <1>4
<1>6. -1 \in Int
  OBVIOUS
<1>7. QED
  BY <1>1, <1>5, <1>6

\* decodeLength returns a length, whatever the bytes.
LEMMA decodeLengthType ==
  ASSUME NEW bytes \in Buffer
  PROVE  /\ Outcome(decodeLength(bytes), Nat, Len(bytes))
<1>1. Len(bytes) \in Nat
  BY BufferFacts
<1>2. CASE ReadByte(bytes) = Error(<<>>)
  <2>1. decodeLength(bytes) = Error(<<>>)
    BY <1>2 DEF decodeLength, Then, Error
  <2>2. QED
    BY <1>1, <2>1, EmptyBuffer DEF Outcome
<1>3. CASE ReadByte(bytes) # Error(<<>>)
  <2>1. PICK x \in Bytes, b \in Buffer : ReadByte(bytes) = OK(x, b) /\ Len(b) = Len(bytes) - 1
    BY <1>3, ReadByteType
  <2>2. x \in Nat /\ Len(b) <= Len(bytes) /\ Len(b) \in Nat
    <3>1. \A y \in Bytes : y \in Nat
      BY DEF Bytes
    <3>2. Len(b) \in Nat
      BY BufferFacts
    <3>3. QED
      BY <1>1, <2>1, <3>1, <3>2
  <2>3. CASE x < 127
    <3>1. decodeLength(bytes) = OK(x, b)
      BY <2>1, <2>3 DEF decodeLength, Then, OK
    <3>2. QED
      BY <2>2, <3>1 DEF Outcome
  <2>4. CASE ~(x < 127)
    <3>1. CASE Read(x, b) = Error(<<>>)
      <4>1. decodeLength(bytes) = Error(<<>>)
        BY <2>1, <2>4, <3>1 DEF decodeLength, Then, OK, Error
      <4>2. QED
        BY <1>1, <4>1, EmptyBuffer DEF Outcome
    <3>2. CASE Read(x, b) # Error(<<>>)
      <4>1. PICK d \in Buffer, c \in Buffer : Read(x, b) = OK(d, c) /\ Len(c) = Len(b) - x
        BY <2>2, <3>2, ReadType
      <4>2. Len(c) <= Len(bytes)
        BY <1>1, <2>1, <2>2, <4>1
      <4>3. LengthValue(d) \in Int
        BY LengthValueType
      <4>4. decodeLength(bytes) = IF LengthValue(d) < 0 THEN Error(c) ELSE OK(LengthValue(d), c)
        BY <2>1, <2>4, <4>1 DEF decodeLength, Then, OK
      <4>5. CASE LengthValue(d) < 0
        BY <4>2, <4>4, <4>5 DEF Outcome
      <4>6. CASE ~(LengthValue(d) < 0)
        <5>1. LengthValue(d) \in Nat
          BY <4>3, <4>6
        <5>2. QED
          BY <4>2, <4>4, <4>6, <5>1 DEF Outcome
      <4>7. QED
        BY <4>5, <4>6
    <3>3. QED
      BY <3>1, <3>2
  <2>5. QED
    BY <2>3, <2>4
<1>4. QED
  BY <1>2, <1>3

\* What decodeHeader returns.
Header == [type : Bytes, length : Nat]

\* A header leaves fewer bytes than there were.
LEMMA decodeHeaderType ==
  ASSUME NEW bytes \in Buffer
  PROVE  \/ \E h \in Header, b \in Buffer : decodeHeader(bytes) = OK(h, b) /\ Len(b) < Len(bytes)
         \/ \E b \in Buffer : decodeHeader(bytes) = Error(b) /\ Len(b) <= Len(bytes)
         \/ decodeHeader(bytes) = Panic
<1>1. CASE ReadByte(bytes) = Error(<<>>)
  <2>1. decodeHeader(bytes) = Error(<<>>)
    BY <1>1 DEF decodeHeader, Then, Error
  <2>2. Len(<<>>) <= Len(bytes)
    BY EmptyBuffer, BufferFacts
  <2>3. QED
    BY <2>1, <2>2, EmptyBuffer
<1>2. CASE ReadByte(bytes) # Error(<<>>)
  <2>1. PICK x \in Bytes, b \in Buffer : ReadByte(bytes) = OK(x, b) /\ Len(b) = Len(bytes) - 1
    BY <1>2, ReadByteType
  <2>2. Outcome(decodeLength(b), Nat, Len(b))
    BY decodeLengthType
  <2>3. Len(b) \in Nat /\ Len(bytes) \in Nat
    BY BufferFacts
  <2>4. \A c \in Buffer : Len(c) <= Len(b) => Len(c) < Len(bytes) /\ Len(c) <= Len(bytes)
    <3>1. \A k \in Nat : k <= Len(b) => k < Len(bytes) /\ k <= Len(bytes)
      BY <2>1, <2>3
    <3>2. QED
      BY <3>1, BufferFacts
  <2>5. CASE decodeLength(b).status = "ok"
    <3>1. PICK l \in Nat, c \in Buffer : decodeLength(b) = OK(l, c) /\ Len(c) <= Len(b)
      BY <2>2, <2>5, OutcomeOK
    <3>2. decodeHeader(bytes) =
            IF l > Len(c) THEN Error(c) ELSE OK([type |-> x, length |-> l], c)
      BY <2>1, <3>1 DEF decodeHeader, Then, OK
    <3>3. [type |-> x, length |-> l] \in Header
      BY DEF Header
    <3>4. QED
      BY <2>4, <3>1, <3>2, <3>3
  <2>6. CASE decodeLength(b).status # "ok"
    <3>1. decodeHeader(bytes) = decodeLength(b)
      BY <2>1, <2>6 DEF decodeHeader, Then, OK
    <3>2. CASE decodeLength(b) = Panic
      BY <3>1, <3>2
    <3>3. CASE \E c \in Buffer : decodeLength(b) = Error(c) /\ Len(c) <= Len(b)
      BY <2>4, <3>1, <3>3
    <3>4. ~\E v \in Nat, c \in Buffer : decodeLength(b) = OK(v, c) /\ Len(c) <= Len(b)
      BY <2>6, Status
    <3>5. QED
      BY <2>2, <3>2, <3>3, <3>4 DEF Outcome
  <2>7. QED
    BY <2>5, <2>6
<1>3. QED
  BY <1>1, <1>2

\* A header of the type that is expected takes at least one byte.
LEMMA decodeHeaderOfType ==
  ASSUME NEW type, NEW bytes \in Buffer
  PROVE  \/ /\ \E n \in Nat, b \in Buffer :
                 decodeHeaderOf(type, bytes) = OK(n, b) /\ Len(b) < Len(bytes)
         \/ \E b \in Buffer : decodeHeaderOf(type, bytes) = Error(b) /\ Len(b) <= Len(bytes)
         \/ decodeHeaderOf(type, bytes) = Panic
<1>1. CASE \E h \in Header, b \in Buffer : decodeHeader(bytes) = OK(h, b) /\ Len(b) < Len(bytes)
  <2>1. PICK h \in Header, b \in Buffer : decodeHeader(bytes) = OK(h, b) /\ Len(b) < Len(bytes)
    BY <1>1
  <2>2. decodeHeaderOf(type, bytes) = IF h.type # type THEN Error(b) ELSE OK(h.length, b)
    BY <2>1 DEF decodeHeaderOf, Then, OK
  <2>3. h.length \in Nat
    BY DEF Header
  <2>4. Len(b) <= Len(bytes)
    BY <2>1, BufferFacts
  <2>5. QED
    BY <2>1, <2>2, <2>3, <2>4
<1>2. CASE \E b \in Buffer : decodeHeader(bytes) = Error(b) /\ Len(b) <= Len(bytes)
  <2>1. PICK b \in Buffer : decodeHeader(bytes) = Error(b) /\ Len(b) <= Len(bytes)
    BY <1>2
  <2>2. decodeHeaderOf(type, bytes) = Error(b)
    BY <2>1 DEF decodeHeaderOf, Then, Error
  <2>3. QED
    BY <2>1, <2>2
<1>3. CASE decodeHeader(bytes) = Panic
  BY <1>3 DEF decodeHeaderOf, Then, Panic
<1>4. QED
  BY <1>1, <1>2, <1>3, decodeHeaderType

\* The same as an outcome.
LEMMA decodeHeaderOfOutcome ==
  ASSUME NEW type, NEW bytes \in Buffer
  PROVE  Outcome(decodeHeaderOf(type, bytes), Nat, Len(bytes))
<1>1. \A b \in Buffer : Len(b) < Len(bytes) => Len(b) <= Len(bytes)
  BY BufferFacts
<1>2. QED
  BY <1>1, decodeHeaderOfType DEF Outcome

\* decodeInteger returns an integer,
LEMMA decodeIntegerType ==
  ASSUME NEW n \in Nat, NEW bytes \in Buffer
  PROVE  Outcome(decodeInteger(n, bytes), Int, Len(bytes))
<1>1. CASE Read(n, bytes).status # "ok"
  <2>1. decodeInteger(n, bytes) = Read(n, bytes)
    BY <1>1 DEF decodeInteger, Then
  <2>2. Len(bytes) \in Nat /\ Len(bytes) <= Len(bytes)
    BY BufferFacts
  <2>3. QED
    BY <1>1, <2>1, <2>2, ReadOutcome, Stops
<1>2. CASE Read(n, bytes).status = "ok"
  <2>1. ~(Read(n, bytes) = Error(<<>>))
    BY <1>2, Status
  <2>2. PICK d \in Buffer, b \in Buffer :
          Read(n, bytes) = OK(d, b) /\ Len(d) = n /\ Len(b) = Len(bytes) - n
    BY <2>1, ReadType
  <2>3. Len(b) <= Len(bytes)
    BY <2>2, BufferFacts
  <2>4. CASE n = 0
    <3>1. decodeInteger(n, bytes) = OK(0, b)
      BY <2>2, <2>4 DEF decodeInteger, Then, OK
    <3>2. QED
      BY <2>3, <3>1 DEF Outcome
  <2>5. CASE n # 0
    <3>1. decodeInteger(n, bytes) = OK(Number(256, extendSign(d[1]), Tail(d)), b)
      BY <2>2, <2>5 DEF decodeInteger, Then, OK
    <3>2. Len(d) >= 1
      BY <2>2, <2>5
    <3>3. d[1] \in Bytes
      BY <3>2 DEF Buffer
    <3>4. extendSign(d[1]) \in Int
      BY <3>3 DEF extendSign, Bytes
    <3>5. Number(256, extendSign(d[1]), Tail(d)) \in Int
      BY <3>2, <3>4, TailFacts, NumberType
    <3>6. QED
      BY <2>3, <3>1, <3>5 DEF Outcome
  <2>6. QED
    BY <2>4, <2>5
<1>3. QED
  BY <1>1, <1>2

\* with its header too,
LEMMA decodeIntegerWithHeaderType ==
  ASSUME NEW bytes \in Buffer
  PROVE  Outcome(decodeIntegerWithHeader(bytes), Int, Len(bytes))
<1>1. Outcome(decodeHeaderOf(INTEGER, bytes), Nat, Len(bytes)) /\ Len(bytes) \in Nat
      /\ Len(bytes) <= Len(bytes)
  BY decodeHeaderOfOutcome, BufferFacts
<1>2. CASE decodeHeaderOf(INTEGER, bytes).status # "ok"
  <2>1. decodeIntegerWithHeader(bytes) = decodeHeaderOf(INTEGER, bytes)
    BY <1>2 DEF decodeIntegerWithHeader, Then
  <2>2. QED
    BY <1>1, <1>2, <2>1, Stops
<1>3. CASE decodeHeaderOf(INTEGER, bytes).status = "ok"
  <2>1. PICK n \in Nat, b \in Buffer :
          decodeHeaderOf(INTEGER, bytes) = OK(n, b) /\ Len(b) <= Len(bytes)
    BY <1>1, <1>3, OutcomeOK
  <2>2. decodeIntegerWithHeader(bytes) = decodeInteger(n, b)
    BY <2>1 DEF decodeIntegerWithHeader, Then, OK
  <2>3. Outcome(decodeInteger(n, b), Int, Len(b)) /\ Len(b) \in Nat
    BY decodeIntegerType, BufferFacts
  <2>4. QED
    BY <1>1, <2>1, <2>2, <2>3, ShorterOutcome
<1>4. QED
  BY <1>2, <1>3

\* and decodeUint32WithHeader none that is negative.
LEMMA decodeUint32Type ==
  ASSUME NEW bytes \in Buffer
  PROVE  Outcome(decodeUint32WithHeader(bytes), Nat, Len(bytes))
<1> DEFINE r == decodeIntegerWithHeader(bytes)
<1>1. Outcome(r, Int, Len(bytes)) /\ Len(bytes) \in Nat /\ Len(bytes) <= Len(bytes)
  BY decodeIntegerWithHeaderType, BufferFacts
<1>2. CASE r.status # "ok"
  <2>1. decodeUint32WithHeader(bytes) = r
    BY <1>2 DEF decodeUint32WithHeader, Then
  <2> HIDE DEF r
  <2>2. QED
    BY <1>1, <1>2, <2>1, Stops
<1>3. CASE r.status = "ok"
  <2>1. PICK v \in Int, b \in Buffer : r = OK(v, b) /\ Len(b) <= Len(bytes)
    BY <1>1, <1>3, OutcomeOK
  <2>2. decodeUint32WithHeader(bytes) = IF v < 0 THEN Error(b) ELSE OK(v, b)
    BY <2>1 DEF decodeUint32WithHeader, Then, OK
  <2>3. ~(v < 0) => v \in Nat
    OBVIOUS
  <2>4. QED
    BY <2>1, <2>2, <2>3 DEF Outcome
<1>4. QED
  BY <1>2, <1>3

\* Reading an element consumes at least one byte.
LEMMA decodeBase128IntType ==
  ASSUME NEW bytes \in Buffer
  PROVE  Outcome(decodeBase128Int(bytes), Int, Len(bytes))
<1> DEFINE last == {i \in 1 .. 4 : i <= Len(bytes) /\ bytes[i] < 128}
<1>1. Len(bytes) \in Nat
  BY BufferFacts
<1>2. CASE last = {}
  <2>1. decodeBase128Int(bytes) = Error(SubSeq(bytes, 5, Len(bytes)))
    BY <1>2 DEF decodeBase128Int
  <2>2. /\ SubSeq(bytes, 5, Len(bytes)) \in Buffer
        /\ Len(SubSeq(bytes, 5, Len(bytes))) <= Len(bytes)
    <3>1. CASE Len(bytes) >= 5
      BY <1>1, <3>1 DEF Buffer
    <3>2. CASE ~(Len(bytes) >= 5)
      <4>1. SubSeq(bytes, 5, Len(bytes)) = <<>>
        BY <1>1, <3>2 DEF Buffer
      <4>2. QED
        <5>1. 0 <= Len(bytes)
          BY <1>1
        <5>2. QED
          BY <4>1, <5>1, EmptyBuffer
    <3>3. QED
      BY <3>1, <3>2
  <2>3. QED
    BY <2>1, <2>2 DEF Outcome
<1>3. CASE last # {}
  <2>1. PICK m \in Nat : m = Min(last)
    <3>1. \E n \in last : \A i \in last : n <= i
      <4>1. CASE 1 \in last
        BY <4>1
      <4>2. CASE 1 \notin last /\ 2 \in last
        BY <4>2
      <4>3. CASE 1 \notin last /\ 2 \notin last /\ 3 \in last
        BY <4>3
      <4>4. CASE 1 \notin last /\ 2 \notin last /\ 3 \notin last
        <5>1. 4 \in last
          BY <1>3, <4>4
        <5>2. QED
          BY <4>4, <5>1
      <4>5. QED
        BY <4>1, <4>2, <4>3, <4>4
    <3>2. last \subseteq Nat
      OBVIOUS
    <3> HIDE DEF last
    <3>3. Min(last) \in last
      BY <3>1, Zenon DEF Min
    <3>4. QED
      BY <3>2, <3>3
  <2>2. decodeBase128Int(bytes) =
          Then(Read(m, bytes), LAMBDA digits, left :
            OK(Number(128, 0, [i \in DOMAIN digits |-> Digit(digits[i])]), left))
    BY <1>3, <2>1 DEF decodeBase128Int
  <2> HIDE DEF last
  <2>3. CASE Read(m, bytes) = Error(<<>>)
    <3>1. decodeBase128Int(bytes) = Error(<<>>)
      BY <2>2, <2>3 DEF Then, Error
    <3>2. QED
      BY <1>1, <3>1, EmptyBuffer DEF Outcome
  <2>4. CASE Read(m, bytes) # Error(<<>>)
    <3>1. PICK d \in Buffer, b \in Buffer : Read(m, bytes) = OK(d, b) /\ Len(b) = Len(bytes) - m
      BY <2>4, ReadType
    <3>2. Len(b) <= Len(bytes)
      BY <1>1, <3>1
    <3> DEFINE v == Number(128, 0, [i \in DOMAIN d |-> Digit(d[i])])
    <3>3. decodeBase128Int(bytes) = OK(v, b)
      BY <2>2, <3>1 DEF Then, OK
    <3>4. v \in Int
      <4>1. DOMAIN d = 1 .. Len(d) /\ Len(d) \in Nat /\ \A i \in 1 .. Len(d) : d[i] \in Bytes
        BY DEF Buffer
      <4>2. \A b1 \in Bytes : Digit(b1) \in Int
        BY DEF Digit, Bytes
      <4>3. [i \in DOMAIN d |-> Digit(d[i])] \in Numbers
        BY <4>1, <4>2 DEF Numbers
      <4>4. PICK base \in {128, 256}, z \in Int : base = 128 /\ z = 0
        OBVIOUS
      <4>5. Number(base, z, [i \in DOMAIN d |-> Digit(d[i])]) \in Int
        BY <4>3, NumberType
      <4>6. QED
        BY <4>4, <4>5
    <3> HIDE DEF v
    <3>5. QED
      BY <3>2, <3>3, <3>4 DEF Outcome
  <2>5. QED
    BY <2>3, <2>4
<1>4. QED
  BY <1>2, <1>3

-----------------------------------------------------------------------------
(***************************************************************************)
(* The elements of an identifier: the recursion of decodeIdentifiers.      *)
(***************************************************************************)

\* What any decoder of X returns.
Outcomes(X) ==
  [status : {"ok"}, val : X, rest : Buffer]
    \union [status : {"error"}, rest : Buffer] \union {Panic}

\* The three kinds of outcome are such,
LEMMA InOutcomes ==
  ASSUME NEW X
  PROVE  /\ \A v \in X, b \in Buffer : OK(v, b) \in Outcomes(X)
         /\ \A b \in Buffer : Error(b) \in Outcomes(X)
         /\ Panic \in Outcomes(X)
         /\ \A r \in Outcomes(X) :
              r.status = "ok" => r.val \in X /\ r.rest \in Buffer /\ r = OK(r.val, r.rest)
BY DEF Outcomes, OK, Error, Panic

\* and every outcome is one of them.
LEMMA OutcomeIn ==
  ASSUME NEW r, NEW X, NEW n, Outcome(r, X, n)
  PROVE  r \in Outcomes(X)
BY InOutcomes DEF Outcome

\* What is left after an element, if anything is.
LeftAfter(at, rest) == at.left - (Len(at.bytes) - Len(rest))

\* Where it stands one element later.
NextPlace(at, rest) == At(at.room - 1, LeftAfter(at, rest), rest)

\* One step of the recursion of decodeIdentifiers, with f for what follows.
IdentifierStep(f, at) ==
  Then(decodeBase128Int(at.bytes), LAMBDA val, rest :
    LET left == at.left - (Len(at.bytes) - Len(rest))
    IN IF at.room = 0 THEN Panic
       ELSE IF left = 0 THEN OK(<<val>>, rest)
       ELSE IF left < 0 THEN Error(rest)
       ELSE Then(f[At(at.room - 1, left, rest)], LAMBDA vals, end :
              OK(<<val>> \o vals, end)))

\* It stops at an element that cannot be decoded,
LEMMA IdentifierStops ==
  ASSUME NEW f, NEW at, decodeBase128Int(at.bytes).status # "ok"
  PROVE  IdentifierStep(f, at) = decodeBase128Int(at.bytes)
BY DEF IdentifierStep, Then

\* panics without room, is done at the end of the block, or goes on.
LEMMA IdentifierGoesOn ==
  ASSUME NEW f, NEW at, NEW v, NEW b, decodeBase128Int(at.bytes) = OK(v, b)
  PROVE  IdentifierStep(f, at) =
           IF at.room = 0 THEN Panic
           ELSE IF LeftAfter(at, b) = 0 THEN OK(<<v>>, b)
           ELSE IF LeftAfter(at, b) < 0 THEN Error(b)
           ELSE IF f[NextPlace(at, b)].status = "ok"
           THEN OK(<<v>> \o f[NextPlace(at, b)].val, f[NextPlace(at, b)].rest)
           ELSE f[NextPlace(at, b)]
<1>1. decodeBase128Int(at.bytes).status = "ok" /\ decodeBase128Int(at.bytes).val = v
      /\ decodeBase128Int(at.bytes).rest = b
  BY Status
<1>2. QED
  BY <1>1 DEF IdentifierStep, Then, LeftAfter, NextPlace

\* decodeIdentifiers is the function that its definition describes, at every
\* place: each step has less room than the one before.
LEMMA IdentifierFunction ==
  \A at \in Places : decodeIdentifiers[at] = IdentifierStep(decodeIdentifiers, at)
<1> DEFINE el(at) == decodeBase128Int(at.bytes)
           V == Outcomes(Numbers)
           ends(at) == \/ el(at).status # "ok" \/ at.room = 0
                       \/ LeftAfter(at, el(at).rest) = 0
                       \/ LeftAfter(at, el(at).rest) < 0
           size == [at \in Places |-> at.room]
           stop == [at \in Places |-> ends(at)]
           next == [at \in Places |-> IF ends(at) THEN at ELSE NextPlace(at, el(at).rest)]
           base == [at \in Places |-> IF ends(at) THEN IdentifierStep(<<>>, at) ELSE Panic]
           after(at, r) ==
             IF ends(at) \/ r.status # "ok" THEN r ELSE OK(<<el(at).val>> \o r.val, r.rest)
           combine == [at \in Places |-> [r \in V |-> after(at, r)]]
<1>1. ASSUME NEW at \in Places
      PROVE  /\ at.room \in Nat /\ at.left \in Int /\ at.bytes \in Buffer
             /\ Outcome(el(at), Int, Len(at.bytes))
  BY decodeBase128IntType DEF Places, Buffer
<1>2. ASSUME NEW at \in Places, el(at).status = "ok"
      PROVE  /\ el(at) = OK(el(at).val, el(at).rest)
             /\ el(at).val \in Int /\ el(at).rest \in Buffer
             /\ LeftAfter(at, el(at).rest) \in Int
  <2>1. PICK v \in Int, b \in Buffer : el(at) = OK(v, b)
    BY <1>1, <1>2, OutcomeOK
  <2>2. at.left \in Int /\ Len(at.bytes) \in Nat /\ Len(b) \in Nat
    BY <1>1, BufferFacts
  <2>4. LeftAfter(at, b) \in Int
    BY <2>2 DEF LeftAfter
  <2>3. QED
    BY <2>1, <2>4, Status
<1>3. ASSUME NEW at \in Places, ends(at), NEW f
      PROVE  IdentifierStep(f, at) = IdentifierStep(<<>>, at) /\ IdentifierStep(f, at) \in V
  <2>1. CASE el(at).status # "ok"
    <3>1. IdentifierStep(f, at) = el(at) /\ IdentifierStep(<<>>, at) = el(at)
      BY <2>1, IdentifierStops
    <3>2. el(at) \in V
      <4>1. ~\E v \in Int, b \in Buffer : el(at) = OK(v, b) /\ Len(b) <= Len(at.bytes)
        BY <2>1, Status
      <4>2. QED
        BY <1>1, <4>1, InOutcomes DEF Outcome
    <3>3. QED
      BY <3>1, <3>2
  <2>2. CASE el(at).status = "ok"
    <3>1. PICK v \in Int, b \in Buffer : el(at) = OK(v, b) /\ v = el(at).val /\ b = el(at).rest
      BY <1>2, <2>2
    <3>2. <<v>> \in Numbers
      BY DEF Numbers
    <3>3. CASE at.room = 0
      <4>1. IdentifierStep(f, at) = Panic /\ IdentifierStep(<<>>, at) = Panic
        BY <3>1, <3>3, IdentifierGoesOn
      <4>2. QED
        BY <4>1, InOutcomes
    <3>4. CASE at.room # 0 /\ LeftAfter(at, b) = 0
      <4>1. IdentifierStep(f, at) = OK(<<v>>, b) /\ IdentifierStep(<<>>, at) = OK(<<v>>, b)
        BY <3>1, <3>4, IdentifierGoesOn
      <4>2. QED
        BY <3>2, <4>1, InOutcomes
    <3>5. CASE at.room # 0 /\ LeftAfter(at, b) # 0 /\ LeftAfter(at, b) < 0
      <4>1. IdentifierStep(f, at) = Error(b) /\ IdentifierStep(<<>>, at) = Error(b)
        BY <3>1, <3>5, IdentifierGoesOn
      <4>2. QED
        BY <3>1, <4>1, InOutcomes
    <3>6. QED
      BY <1>3, <2>2, <3>1, <3>3, <3>4, <3>5
  <2>3. QED
    BY <2>1, <2>2
<1>4. ASSUME NEW at \in Places, ~ends(at)
      PROVE  /\ NextPlace(at, el(at).rest) \in Places
             /\ NextPlace(at, el(at).rest).room = at.room - 1 /\ at.room - 1 < at.room
  <2>1. /\ el(at).rest \in Buffer /\ LeftAfter(at, el(at).rest) \in Int
        /\ at.room \in Nat /\ at.room # 0
    BY <1>1, <1>2, <1>4
  <2>2. at.room - 1 \in Nat /\ at.room - 1 < at.room
    BY <2>1
  <2>3. QED
    BY <2>1, <2>2 DEF NextPlace, At, Places, Buffer
<1>5. ASSUME NEW at \in Places, NEW r \in V PROVE after(at, r) \in V
  <2>1. CASE ends(at) \/ r.status # "ok"
    BY <2>1
  <2>2. CASE ~(ends(at) \/ r.status # "ok")
    <3>1. r.val \in Numbers /\ r.rest \in Buffer
      BY <2>2, InOutcomes
    <3>2. el(at).val \in Int
      BY <1>2, <2>2
    <3>3. <<el(at).val>> \o r.val \in Numbers
      BY <3>1, <3>2 DEF Numbers
    <3>4. QED
      BY <2>2, <3>1, <3>3, InOutcomes
  <2>3. QED
    BY <2>1, <2>2
<1>6. ASSUME NEW at \in Places, ~ends(at), NEW f
      PROVE  IdentifierStep(f, at) = after(at, f[NextPlace(at, el(at).rest)])
  <2>1. PICK v \in Int, b \in Buffer : el(at) = OK(v, b) /\ v = el(at).val /\ b = el(at).rest
    BY <1>2, <1>6
  <2>2. at.room # 0 /\ LeftAfter(at, b) # 0 /\ ~(LeftAfter(at, b) < 0)
    BY <1>6, <2>1
  <2>3. QED
    BY <1>6, <2>1, <2>2, IdentifierGoesOn
<1> HIDE DEF el, V, ends, after
<1>7. /\ size \in [Places -> Nat] /\ next \in [Places -> Places] /\ base \in [Places -> V]
      /\ combine \in [Places -> [V -> V]]
  <2>1. size \in [Places -> Nat]
    BY <1>1
  <2>2. next \in [Places -> Places]
    BY <1>4
  <2>3. base \in [Places -> V]
    BY <1>3, InOutcomes DEF V
  <2>4. \A at \in Places : [r \in V |-> after(at, r)] \in [V -> V]
    BY <1>5
  <2>5. combine \in [Places -> [V -> V]]
    BY <2>4
  <2>6. QED
    BY <2>1, <2>2, <2>3, <2>5
<1>8. stop \in [Places -> BOOLEAN] /\ \A at \in Places : stop[at] <=> ends(at)
  BY DEF ends
<1>9. \A at \in Places : ~stop[at] => size[next[at]] < size[at]
  BY <1>4, <1>8
<1>10. PICK g \in [Places -> V] :
         \A at \in Places : g[at] = IF stop[at] THEN base[at] ELSE combine[at][g[next[at]]]
  <2> HIDE DEF size, stop, next, base, combine
  <2>1. Decreases(Places, V, size, stop, next, base, combine)
    BY <1>7, <1>8, <1>9 DEF Decreases
  <2>2. QED
    BY <2>1, Recursion
<1>11. ASSUME NEW at \in Places PROVE g[at] = IdentifierStep(g, at)
  <2>1. CASE ends(at)
    BY <1>3, <1>8, <1>10, <2>1
  <2>2. CASE ~ends(at)
    <3>1. g[at] = combine[at][g[NextPlace(at, el(at).rest)]]
      BY <1>8, <1>10, <2>2
    <3>2. NextPlace(at, el(at).rest) \in Places
      BY <1>4, <2>2
    <3>3. g[at] = after(at, g[NextPlace(at, el(at).rest)])
      BY <3>1, <3>2
    <3>4. QED
      BY <1>6, <2>2, <3>3
  <2>3. QED
    BY <2>1, <2>2
<1>12. g = [at \in Places |-> IdentifierStep(g, at)]
  BY <1>11
<1>13. decodeIdentifiers = CHOOSE f : f = [at \in Places |-> IdentifierStep(f, at)]
  BY Zenon DEF decodeIdentifiers, IdentifierStep, Places, Buffer
<1>14. decodeIdentifiers = [at \in Places |-> IdentifierStep(decodeIdentifiers, at)]
  BY <1>12, <1>13, Zenon
<1>15. QED
  BY <1>14, Zenon

\* decodeIdentifiers returns elements, an error or a panic.
LEMMA decodeIdentifiersType ==
  ASSUME NEW at \in Places
  PROVE  Outcome(decodeIdentifiers[at], Numbers, Len(at.bytes))
<1> DEFINE D(a) == decodeIdentifiers[a]
           S == {n \in Nat : \A a \in Places : a.room = n => Outcome(D(a), Numbers, Len(a.bytes))}
<1> HIDE DEF D
<1>1. ASSUME NEW n \in Nat, \A m \in Nat : m < n => m \in S PROVE n \in S
  <2>1. SUFFICES ASSUME NEW a \in Places, a.room = n
                 PROVE  Outcome(D(a), Numbers, Len(a.bytes))
    OBVIOUS
  <2>2. D(a) = IdentifierStep(decodeIdentifiers, a)
    BY IdentifierFunction DEF D
  <2>3. /\ a.left \in Int /\ a.bytes \in Buffer /\ Len(a.bytes) \in Nat
        /\ Len(a.bytes) <= Len(a.bytes)
    BY BufferFacts DEF Places, Buffer
  <2>4. Outcome(decodeBase128Int(a.bytes), Int, Len(a.bytes))
    BY <2>3, decodeBase128IntType
  <2>5. CASE decodeBase128Int(a.bytes).status # "ok"
    <3>1. D(a) = decodeBase128Int(a.bytes)
      BY <2>2, <2>5, IdentifierStops
    <3>2. QED
      BY <2>3, <2>4, <2>5, <3>1, Stops
  <2>6. CASE decodeBase128Int(a.bytes).status = "ok"
    <3>1. PICK v \in Int, b \in Buffer :
            decodeBase128Int(a.bytes) = OK(v, b) /\ Len(b) <= Len(a.bytes)
      BY <2>4, <2>6, OutcomeOK
    <3>2. D(a) =
            IF a.room = 0 THEN Panic
            ELSE IF LeftAfter(a, b) = 0 THEN OK(<<v>>, b)
            ELSE IF LeftAfter(a, b) < 0 THEN Error(b)
            ELSE IF D(NextPlace(a, b)).status = "ok"
            THEN OK(<<v>> \o D(NextPlace(a, b)).val, D(NextPlace(a, b)).rest)
            ELSE D(NextPlace(a, b))
      BY <2>2, <3>1, IdentifierGoesOn DEF D
    <3>3. <<v>> \in Numbers
      BY DEF Numbers
    <3>4. CASE a.room # 0 /\ LeftAfter(a, b) # 0 /\ ~(LeftAfter(a, b) < 0)
      <4>1. Len(b) \in Nat
        BY BufferFacts
      <4>2. n - 1 \in Nat /\ n - 1 < n /\ LeftAfter(a, b) \in Int
        BY <2>1, <2>3, <3>4, <4>1 DEF LeftAfter
      <4>3. NextPlace(a, b) \in Places /\ NextPlace(a, b).room = n - 1 /\ NextPlace(a, b).bytes = b
        BY <2>1, <4>2 DEF NextPlace, At, Places, Buffer
      <4>4. Outcome(D(NextPlace(a, b)), Numbers, Len(b))
        BY <1>1, <4>2, <4>3
      <4>5. CASE D(NextPlace(a, b)).status # "ok"
        <5>1. D(a) = D(NextPlace(a, b))
          BY <3>2, <3>4, <4>5
        <5>2. QED
          BY <2>3, <3>1, <4>1, <4>4, <5>1, ShorterOutcome
      <4>6. CASE D(NextPlace(a, b)).status = "ok"
        <5>1. PICK w \in Numbers, c \in Buffer :
                D(NextPlace(a, b)) = OK(w, c) /\ Len(c) <= Len(b)
          BY <4>4, <4>6, OutcomeOK
        <5>2. D(a) = OK(<<v>> \o w, c)
          BY <3>2, <3>4, <4>6, <5>1, Status
        <5>3. <<v>> \o w \in Numbers
          BY DEF Numbers
        <5>4. Len(c) <= Len(a.bytes)
          <6>1. Len(c) \in Nat
            BY BufferFacts
          <6>2. QED
            BY <2>3, <3>1, <4>1, <5>1, <6>1
        <5>5. QED
          BY <5>2, <5>3, <5>4 DEF Outcome
      <4>7. QED
        BY <4>5, <4>6
    <3>5. CASE a.room = 0
      BY <3>2, <3>5 DEF Outcome
    <3>6. CASE a.room # 0 /\ LeftAfter(a, b) = 0
      BY <3>1, <3>2, <3>3, <3>6 DEF Outcome
    <3>7. CASE a.room # 0 /\ LeftAfter(a, b) # 0 /\ LeftAfter(a, b) < 0
      BY <3>1, <3>2, <3>7 DEF Outcome
    <3>8. QED
      BY <3>4, <3>5, <3>6, <3>7
  <2>7. QED
    BY <2>5, <2>6
<1> HIDE DEF S
<1>2. Nat \subseteq S
  BY <1>1, SetInduction, Zenon
<1>3. at.room \in Nat
  BY DEF Places, Buffer
<1>4. QED
  BY <1>2, <1>3 DEF S, D

\* decodeObjectIdentifier returns an identifier,
LEMMA decodeObjectIdentifierType ==
  ASSUME NEW n \in Nat, NEW bytes \in Buffer
  PROVE  Outcome(decodeObjectIdentifier(n, bytes), Numbers, Len(bytes))
<1>1. Len(bytes) \in Nat /\ Len(bytes) <= Len(bytes)
  BY BufferFacts
<1>2. CASE n > Len(bytes)
  <2>1. decodeObjectIdentifier(n, bytes) = Error(bytes)
    BY <1>2 DEF decodeObjectIdentifier
  <2>2. QED
    BY <1>1, <2>1 DEF Outcome
<1>3. CASE ~(n > Len(bytes))
  <2>1. CASE ReadByte(bytes) = Error(<<>>)
    <3>1. decodeObjectIdentifier(n, bytes) = Error(<<>>)
      BY <1>3, <2>1 DEF decodeObjectIdentifier, Then, Error
    <3>2. QED
      BY <1>1, <3>1, EmptyBuffer DEF Outcome
  <2>2. CASE ReadByte(bytes) # Error(<<>>)
    <3>1. PICK x \in Bytes, b \in Buffer : ReadByte(bytes) = OK(x, b) /\ Len(b) = Len(bytes) - 1
      BY <2>2, ReadByteType
    <3> DEFINE at == At(MaxElements(n) - 2, n - 1, b)
               ids == decodeIdentifiers[at]
    <3>2. decodeObjectIdentifier(n, bytes) =
            IF MaxElements(n) < 2 THEN Panic
            ELSE IF ids.status = "ok"
                 THEN OK(<<x \div 40, x % 40>> \o ids.val, ids.rest) ELSE ids
      BY <1>3, <3>1 DEF decodeObjectIdentifier, Then, OK
    <3>3. CASE MaxElements(n) < 2
      BY <3>2, <3>3 DEF Outcome
    <3>4. CASE ~(MaxElements(n) < 2)
      <4>1. at \in Places /\ at.bytes = b
        BY <3>4 DEF MaxElements, Places, Buffer, At
      <4>2. Outcome(ids, Numbers, Len(b)) /\ Len(b) \in Nat
        BY <4>1, decodeIdentifiersType, BufferFacts
      <4>3. Len(b) <= Len(bytes)
        BY <1>1, <3>1, <4>2
      <4>4. CASE ids.status # "ok"
        <5>1. decodeObjectIdentifier(n, bytes) = ids
          BY <3>2, <3>4, <4>4
        <5>2. QED
          BY <1>1, <4>2, <4>3, <5>1, ShorterOutcome
      <4>5. CASE ids.status = "ok"
        <5>1. PICK w \in Numbers, c \in Buffer : ids = OK(w, c) /\ Len(c) <= Len(b)
          BY <4>2, <4>5, OutcomeOK
        <5>2. <<x \div 40, x % 40>> \in Numbers
          BY DEF Bytes, Numbers
        <5> HIDE DEF ids
        <5>3. decodeObjectIdentifier(n, bytes) = OK(<<x \div 40, x % 40>> \o w, c)
          BY <3>2, <3>4, <4>5, <5>1, Status
        <5>4. \A s, t \in Numbers : s \o t \in Numbers
          BY DEF Numbers
        <5>5. Len(c) <= Len(bytes)
          BY <1>1, <4>2, <4>3, <5>1, BufferFacts
        <5>6. QED
          BY <5>2, <5>3, <5>4, <5>5 DEF Outcome
      <4>6. QED
        BY <4>4, <4>5
    <3>5. QED
      BY <3>3, <3>4
  <2>3. QED
    BY <2>1, <2>2
<1>4. QED
  BY <1>2, <1>3

\* with its header too.
LEMMA decodeObjectIdentifierWithHeaderType ==
  ASSUME NEW bytes \in Buffer
  PROVE  Outcome(decodeObjectIdentifierWithHeader(bytes), Numbers, Len(bytes))
<1>1. Outcome(decodeHeaderOf(OBJECT_IDENTIFIER, bytes), Nat, Len(bytes)) /\ Len(bytes) \in Nat
      /\ Len(bytes) <= Len(bytes)
  BY decodeHeaderOfOutcome, BufferFacts
<1>2. CASE decodeHeaderOf(OBJECT_IDENTIFIER, bytes).status # "ok"
  <2>1. decodeObjectIdentifierWithHeader(bytes) = decodeHeaderOf(OBJECT_IDENTIFIER, bytes)
    BY <1>2 DEF decodeObjectIdentifierWithHeader, Then
  <2>2. QED
    BY <1>1, <1>2, <2>1, Stops
<1>3. CASE decodeHeaderOf(OBJECT_IDENTIFIER, bytes).status = "ok"
  <2>1. PICK n \in Nat, b \in Buffer :
          decodeHeaderOf(OBJECT_IDENTIFIER, bytes) = OK(n, b) /\ Len(b) <= Len(bytes)
    BY <1>1, <1>3, OutcomeOK
  <2>2. decodeObjectIdentifierWithHeader(bytes) = decodeObjectIdentifier(n, b)
    BY <2>1 DEF decodeObjectIdentifierWithHeader, Then, OK
  <2>3. Outcome(decodeObjectIdentifier(n, b), Numbers, Len(b)) /\ Len(b) \in Nat
    BY decodeObjectIdentifierType, BufferFacts
  <2>4. QED
    BY <1>1, <2>1, <2>2, <2>3, ShorterOutcome
<1>4. QED
  BY <1>2, <1>3

-----------------------------------------------------------------------------
(***************************************************************************)
(* Strings and addresses.                                                  *)
(***************************************************************************)

\* Bytes are numbers.
LEMMA BufferIsNumbers == Buffer \subseteq Numbers
<1>1. \A b \in Bytes : b \in Int
  BY DEF Bytes
<1>2. ASSUME NEW s \in Seq(Bytes) PROVE s \in Seq(Int)
  BY <1>1
<1>3. QED
  BY <1>2 DEF Buffer, Numbers

\* decodeOctetStringWithHeader returns bytes.
LEMMA decodeOctetStringType ==
  ASSUME NEW bytes \in Buffer
  PROVE  Outcome(decodeOctetStringWithHeader(bytes), Buffer, Len(bytes))
<1>1. Outcome(decodeHeaderOf(OCTET_STRING, bytes), Nat, Len(bytes)) /\ Len(bytes) \in Nat
      /\ Len(bytes) <= Len(bytes)
  BY decodeHeaderOfOutcome, BufferFacts
<1>2. CASE decodeHeaderOf(OCTET_STRING, bytes).status # "ok"
  <2>1. decodeOctetStringWithHeader(bytes) = decodeHeaderOf(OCTET_STRING, bytes)
    BY <1>2 DEF decodeOctetStringWithHeader, Then
  <2>2. QED
    BY <1>1, <1>2, <2>1, Stops
<1>3. CASE decodeHeaderOf(OCTET_STRING, bytes).status = "ok"
  <2>1. PICK n \in Nat, b \in Buffer :
          decodeHeaderOf(OCTET_STRING, bytes) = OK(n, b) /\ Len(b) <= Len(bytes)
    BY <1>1, <1>3, OutcomeOK
  <2>2. decodeOctetStringWithHeader(bytes) = Read(n, b)
    BY <2>1 DEF decodeOctetStringWithHeader, Then, OK
  <2>3. Outcome(Read(n, b), Buffer, Len(b)) /\ Len(b) \in Nat
    BY ReadOutcome, BufferFacts
  <2>4. QED
    BY <1>1, <2>1, <2>2, <2>3, ShorterOutcome
<1>4. QED
  BY <1>2, <1>3

\* A bit string has as many bytes as its bits need.
Fits(val) == 8 * Len(val.bytes) - val.bitLength \in 0 .. 7

\* Bit strings as they are decoded.
FittingBits == {val \in [bytes : Buffer, bitLength : Int] : Fits(val)}

\* decodeBitString returns a bit string with up to seven bits of padding.
LEMMA decodeBitStringType ==
  ASSUME NEW n \in Nat, NEW bytes \in Buffer
  PROVE  Outcome(decodeBitString(n, bytes), FittingBits, Len(bytes))
<1>1. Len(bytes) \in Nat /\ Len(bytes) <= Len(bytes)
  BY BufferFacts
<1>2. CASE n < 1
  <2>1. decodeBitString(n, bytes) = Error(bytes)
    BY <1>2 DEF decodeBitString
  <2>2. QED
    BY <1>1, <2>1 DEF Outcome
<1>3. CASE ~(n < 1)
  <2>1. CASE ReadByte(bytes) = Error(<<>>)
    <3>1. decodeBitString(n, bytes) = Error(<<>>)
      BY <1>3, <2>1 DEF decodeBitString, Then, Error
    <3>2. QED
      BY <1>1, <3>1, EmptyBuffer DEF Outcome
  <2>2. CASE ReadByte(bytes) # Error(<<>>)
    <3>1. PICK x \in Bytes, b \in Buffer : ReadByte(bytes) = OK(x, b) /\ Len(b) = Len(bytes) - 1
      BY <2>2, ReadByteType
    <3>2. Len(b) \in Nat
      BY BufferFacts
    <3>3. Len(b) <= Len(bytes)
      BY <1>1, <3>1, <3>2
    <3>4. decodeBitString(n, bytes) =
            IF x > 7 THEN Error(b)
            ELSE Then(Read(n - 1, b), LAMBDA val, left :
                   OK([bytes |-> val, bitLength |-> BitLength(n, x)], left))
      BY <1>3, <3>1 DEF decodeBitString, Then, OK
    <3>5. CASE x > 7
      BY <3>3, <3>4, <3>5 DEF Outcome
    <3>6. CASE ~(x > 7)
      <4>1. PICK k \in Nat : k = n - 1
        BY <1>3
      <4>5. decodeBitString(n, bytes) =
              Then(Read(k, b), LAMBDA val, left :
                OK([bytes |-> val, bitLength |-> BitLength(n, x)], left))
        BY <3>4, <3>6, <4>1
      <4>2. CASE Read(k, b) = Error(<<>>)
        <5>1. decodeBitString(n, bytes) = Error(<<>>)
          BY <4>2, <4>5 DEF Then, Error
        <5>2. QED
          BY <1>1, <5>1, EmptyBuffer DEF Outcome
      <4>3. CASE Read(k, b) # Error(<<>>)
        <5>1. PICK d \in Buffer, c \in Buffer :
                Read(k, b) = OK(d, c) /\ Len(d) = k /\ Len(c) = Len(b) - k
          BY <4>3, ReadType
        <5> DEFINE val == [bytes |-> d, bitLength |-> BitLength(n, x)]
        <5>2. decodeBitString(n, bytes) = OK(val, c)
          BY <4>5, <5>1 DEF Then, OK
        <5>3. x \in 0 .. 7 /\ Len(d) \in Nat
          BY <3>6, BufferFacts DEF Bytes
        <5>4. BitLength(n, x) \in Int /\ 8 * Len(d) - BitLength(n, x) \in 0 .. 7
          BY <4>1, <5>1, <5>3 DEF BitLength
        <5>5. val \in FittingBits
          BY <5>4 DEF FittingBits, Fits
        <5>6. Len(c) \in Nat
          BY BufferFacts
        <5>7. Len(c) <= Len(bytes)
          BY <1>1, <3>2, <3>3, <4>1, <5>1, <5>6
        <5> HIDE DEF val
        <5>8. QED
          BY <5>2, <5>5, <5>7 DEF Outcome
      <4>4. QED
        BY <4>2, <4>3
    <3>7. QED
      BY <3>5, <3>6
  <2>3. QED
    BY <2>1, <2>2
<1>4. QED
  BY <1>2, <1>3

\* The long form of an address is bytes.
LEMMA MappedType ==
  ASSUME NEW addr \in Buffer
  PROVE  Mapped(addr) \in Buffer
<1>1. 0 \in Bytes /\ 255 \in Bytes
  BY DEF Bytes
<1>2. [i \in 1 .. 10 |-> 0] \in Buffer
  BY <1>1 DEF Buffer
<1>3. <<255, 255>> \in Buffer
  BY <1>1, TwoBytes
<1>4. QED
  BY <1>2, <1>3, BufferFacts DEF Mapped

\* decodeIPv4Address returns an address.
LEMMA decodeIPv4AddressType ==
  ASSUME NEW n \in Nat, NEW bytes \in Buffer
  PROVE  Outcome(decodeIPv4Address(n, bytes), Buffer, Len(bytes))
<1>1. Len(bytes) \in Nat /\ Len(bytes) <= Len(bytes)
  BY BufferFacts
<1>2. CASE n # 4
  <2>1. decodeIPv4Address(n, bytes) = Error(bytes)
    BY <1>2 DEF decodeIPv4Address
  <2>2. QED
    BY <1>1, <2>1 DEF Outcome
<1>3. CASE n = 4
  <2>1. CASE Read(4, bytes) = Error(<<>>)
    <3>1. decodeIPv4Address(n, bytes) = Error(<<>>)
      BY <1>3, <2>1 DEF decodeIPv4Address, Then, Error
    <3>2. QED
      BY <1>1, <3>1, EmptyBuffer DEF Outcome
  <2>2. CASE Read(4, bytes) # Error(<<>>)
    <3>1. PICK d \in Buffer, c \in Buffer : Read(n, bytes) = OK(d, c) /\ Len(c) = Len(bytes) - n
      BY <1>3, <2>2, ReadType
    <3>2. decodeIPv4Address(n, bytes) = OK(Mapped(d), c)
      BY <1>3, <3>1 DEF decodeIPv4Address, Then, OK
    <3>3. Len(c) \in Nat
      BY BufferFacts
    <3>4. Len(c) <= Len(bytes)
      BY <1>1, <3>1, <3>3
    <3>5. QED
      BY <3>2, <3>4, MappedType DEF Outcome
  <2>3. QED
    BY <2>1, <2>2
<1>4. QED
  BY <1>2, <1>3

-----------------------------------------------------------------------------
(***************************************************************************)
(* What encoders return.                                                   *)
(***************************************************************************)

\* A length is encoded in at least one byte, in long form too.
LEMMA encodeLengthType ==
  ASSUME NEW l \in Nat
  PROVE  encodeLength(l) \in Buffer /\ Len(encodeLength(l)) >= 1
<1>1. CASE l < 127
  <2>1. encodeLength(l) = <<l>>
    BY <1>1 DEF encodeLength
  <2>2. l \in Bytes
    BY <1>1 DEF Bytes
  <2>3. <<l>> \in Buffer
    BY <2>2, TwoBytes
  <2>4. Len(<<l>>) >= 1
    OBVIOUS
  <2>5. QED
    BY <2>1, <2>3, <2>4, Zenon
<1>2. CASE ~(l < 127)
  <2> DEFINE S == {0} \union {k \in 1 .. 3 : l \div Power256(k) > 0}
             d(n) == [i \in 1 .. n |-> (l \div Power256(n - i)) % 256]
  <2>1. calculateLengthLen(l) = 1 + Max(S)
    BY DEF calculateLengthLen
  <2>2. S \in SUBSET (0 .. 4) /\ 0 \in S /\ S \subseteq 0 .. 3
    OBVIOUS
  <2> HIDE DEF S
  <2>3. Max(S) \in 0 .. 3
    BY <2>2, MaxUpTo4
  <2>4. PICK n \in 1 .. 4 : n = calculateLengthLen(l)
    BY <2>1, <2>3
  <2>5. encodeLength(l) = <<128 + n>> \o d(n)
    BY <1>2, <2>4 DEF encodeLength
  <2>6. \A k \in 0 .. 3 : (l \div Power256(k)) % 256 \in Bytes
    BY SMT, Powers DEF Bytes
  <2>7. \A i \in 1 .. n : n - i \in 0 .. 3
    OBVIOUS
  <2>8. d(n) \in Buffer
    BY <2>6, <2>7 DEF Buffer
  <2>9. 128 + n \in Bytes
    BY DEF Bytes
  <2> DEFINE first == <<128 + n>>
  <2>10. first \in Buffer /\ Len(first) = 1
    BY <2>9, TwoBytes
  <2> HIDE DEF d, first
  <2>11. first \o d(n) \in Buffer /\ Len(first \o d(n)) >= 1
    <3>1. /\ first \o d(n) \in Buffer /\ Len(first \o d(n)) = Len(first) + Len(d(n))
          /\ Len(d(n)) \in Nat
      BY <2>8, <2>10, BufferFacts
    <3>2. QED
      BY <2>10, <3>1
  <2>12. QED
    BY <2>5, <2>11, Zenon DEF first
<1>3. QED
  BY <1>1, <1>2

\* A block of a chain is a chain.
LEMMA BlockType ==
  ASSUME NEW type \in Bytes, NEW chain \in Chain
  PROVE  Block(type, chain) \in Chain
<1>1. Len(FlattenSeq(chain)) \in Nat
  BY FlattenType, BufferFacts
<1>2. encodeLength(Len(FlattenSeq(chain))) \in Buffer /\ <<type>> \in Buffer
  BY <1>1, encodeLengthType, TwoBytes
<1>3. <<type>> \o encodeLength(Len(FlattenSeq(chain))) \in Buffer
  BY <1>2, BufferFacts
<1>4. QED
  BY <1>3, OneBuffer, ChainConcat DEF Block

\* The types of blocks are bytes.
LEMMA BlockTypes ==
  /\ INTEGER \in Bytes /\ OCTET_STRING \in Bytes /\ BIT_STRING \in Bytes /\ SEQUENCE \in Bytes
  /\ OBJECT_IDENTIFIER \in Bytes /\ IP_ADDRESS \in Bytes
BY DEF INTEGER, OCTET_STRING, BIT_STRING, SEQUENCE, OBJECT_IDENTIFIER, IP_ADDRESS, Bytes

\* A block is longer than its contents by two bytes or more.
LEMMA ShorterInside ==
  ASSUME NEW type \in Bytes, NEW chain \in Chain
  PROVE  /\ FlattenSeq(chain) \in Buffer /\ Len(FlattenSeq(chain)) \in Nat
         /\ FlattenSeq(Block(type, chain)) \in Buffer
         /\ Len(FlattenSeq(Block(type, chain))) \in Nat
         /\ Len(FlattenSeq(chain)) + 2 <= Len(FlattenSeq(Block(type, chain)))
<1> DEFINE F == FlattenSeq(chain)
           h == <<type>> \o encodeLength(Len(F))
<1>1. F \in Buffer /\ Len(F) \in Nat
  BY FlattenType, BufferFacts
<1>2. h \in Buffer /\ Len(h) \in Nat /\ Len(h) >= 2
  <2>1. <<type>> \in Buffer /\ Len(<<type>>) = 1
    BY TwoBytes
  <2>2. encodeLength(Len(F)) \in Buffer /\ Len(encodeLength(Len(F))) >= 1
    BY <1>1, encodeLengthType
  <2>3. /\ Len(h) = Len(<<type>>) + Len(encodeLength(Len(F))) /\ Len(encodeLength(Len(F))) \in Nat
        /\ h \in Buffer
    BY <2>1, <2>2, BufferFacts
  <2> HIDE DEF h, F
  <2>4. QED
    BY <2>1, <2>2, <2>3
<1>3. Block(type, chain) = <<h>> \o chain
  BY DEF Block
<1> HIDE DEF h
<1>4. FlattenSeq(Block(type, chain)) = h \o F
  BY <1>2, <1>3, OneBuffer, FlattenOne, FlattenConcat
<1> HIDE DEF F
<1>5. Len(h \o F) = Len(h) + Len(F) /\ h \o F \in Buffer
  BY <1>1, <1>2, BufferFacts
<1>6. QED
  BY <1>1, <1>2, <1>4, <1>5 DEF F

\* Nothing inside a block is longer than it.
LEMMA LongerOutside ==
  ASSUME NEW type \in Bytes, NEW chain \in Chain, Len(FlattenSeq(Block(type, chain))) < 127
  PROVE  Len(FlattenSeq(chain)) < 127
<1>1. /\ Len(FlattenSeq(chain)) \in Nat /\ Len(FlattenSeq(Block(type, chain))) \in Nat
      /\ Len(FlattenSeq(chain)) + 2 <= Len(FlattenSeq(Block(type, chain)))
  BY ShorterInside
<1>2. QED
  BY <1>1

\* encodeInteger writes a chain of buffers.
LEMMA encodeIntegerType ==
  ASSUME NEW v \in Int
  PROVE  encodeInteger(v) \in Chain
<1> DEFINE S == {0} \union {k \in 1 .. 3 : v \div Power256(k - 1) \notin -128 .. 127}
           d(n) == [i \in 1 .. n |-> (v \div Power256(n - i)) % 256]
<1>1. calculate2sComplementIntLen(v) = 1 + Max(S)
  BY DEF calculate2sComplementIntLen
<1>2. S \in SUBSET (0 .. 4) /\ 0 \in S /\ S \subseteq 0 .. 3
  OBVIOUS
<1> HIDE DEF S
<1>3. Max(S) \in 0 .. 3
  BY <1>2, MaxUpTo4
<1>4. PICK n \in 1 .. 4 : n = calculate2sComplementIntLen(v)
  BY <1>1, <1>3
<1>5. encodeInteger(v) = Block(INTEGER, <<d(n)>>)
  BY <1>4 DEF encodeInteger
<1>6. \A k \in 0 .. 3 : (v \div Power256(k)) % 256 \in Bytes
  BY SMT, Powers DEF Bytes
<1>7. \A i \in 1 .. n : n - i \in 0 .. 3
  OBVIOUS
<1>8. d(n) \in Buffer
  BY <1>6, <1>7 DEF Buffer
<1> HIDE DEF d
<1>9. QED
  BY <1>5, <1>8, OneBuffer, BlockType, BlockTypes

\* Identifiers as they are composed.
Identifiers == Seq(Nat)

\* The elements after the second one.
ElementsOf(oid) == [i \in 1 .. Len(oid) - 2 |-> encodeBase128Int(oid[i + 2])]

\* The encoded elements after the second.
LEMMA ElementsType ==
  ASSUME NEW oid \in Identifiers, Len(oid) >= 2
  PROVE  /\ ElementsOf(oid) \in Chain /\ Len(ElementsOf(oid)) = Len(oid) - 2
         /\ \A i \in 1 .. Len(oid) - 2 :
              /\ oid[i + 2] \in Nat /\ ElementsOf(oid)[i] = encodeBase128Int(oid[i + 2])
              /\ Element(oid[i + 2], ElementsOf(oid)[i])
<1> USE DEF Identifiers
<1>1. ASSUME NEW i \in 1 .. Len(oid) - 2
      PROVE  /\ oid[i + 2] \in Nat /\ Element(oid[i + 2], encodeBase128Int(oid[i + 2]))
             /\ encodeBase128Int(oid[i + 2]) \in Buffer
  <2>1. oid[i + 2] \in Nat
    OBVIOUS
  <2>2. Element(oid[i + 2], encodeBase128Int(oid[i + 2]))
    BY <2>1, EncodedElement
  <2>3. QED
    BY <2>1, <2>2 DEF Element
<1>2. Len(oid) - 2 \in Nat
  OBVIOUS
<1>3. ElementsOf(oid) \in Seq(Buffer) /\ Len(ElementsOf(oid)) = Len(oid) - 2
  BY <1>1, <1>2 DEF ElementsOf
<1>4. \A i \in 1 .. Len(oid) - 2 : ElementsOf(oid)[i] = encodeBase128Int(oid[i + 2])
  BY DEF ElementsOf
<1>5. QED
  BY <1>1, <1>3, <1>4 DEF Chain

\* The first byte of an identifier.
FirstByte(oid) == (40 * oid[1] + oid[2]) % 256

\* encodeObjectIdentifier writes a first byte for two elements and then the
\* others.
LEMMA encodeObjectIdentifierType ==
  ASSUME NEW oid \in Identifiers, Encodable(oid)
  PROVE  /\ FirstByte(oid) \in Bytes
         /\ <<FirstByte(oid)>> \o FlattenSeq(ElementsOf(oid)) \in Buffer
         /\ encodeObjectIdentifier(oid) =
              Block(OBJECT_IDENTIFIER, <<<<FirstByte(oid)>> \o FlattenSeq(ElementsOf(oid))>>)
         /\ encodeObjectIdentifier(oid) \in Chain
<1>1. Len(oid) >= 2 /\ oid[1] \in Nat /\ oid[2] \in Nat
  BY DEF Encodable, Identifiers
<1>2. FirstByte(oid) \in Bytes
  <2>1. \A k \in Int : k % 256 \in Bytes
    BY DEF Bytes
  <2>2. 40 * oid[1] + oid[2] \in Int
    BY <1>1
  <2>3. QED
    BY <2>1, <2>2 DEF FirstByte
<1>3. FlattenSeq(ElementsOf(oid)) \in Buffer /\ <<FirstByte(oid)>> \in Buffer
  BY <1>1, <1>2, ElementsType, FlattenType, TwoBytes
<1>4. <<FirstByte(oid)>> \o FlattenSeq(ElementsOf(oid)) \in Buffer
  BY <1>3, BufferFacts
<1>5. encodeObjectIdentifier(oid) =
        Block(OBJECT_IDENTIFIER, <<<<FirstByte(oid)>> \o FlattenSeq(ElementsOf(oid))>>)
  BY DEF encodeObjectIdentifier, FirstByte, ElementsOf
<1>6. QED
  BY <1>2, <1>4, <1>5, OneBuffer, BlockType, BlockTypes

-----------------------------------------------------------------------------
(***************************************************************************)
(* Blocks in short form, and the elements of an identifier, are read back. *)
(***************************************************************************)

\* A block whose length has the short form.
ShortForm(type, d) == <<type, Len(d)>> \o d

\* A block of short contents is in short form,
LEMMA ShortFormOf ==
  ASSUME NEW type \in Bytes, NEW chain \in Chain, Len(FlattenSeq(chain)) < 127
  PROVE  FlattenSeq(Block(type, chain)) = ShortForm(type, FlattenSeq(chain))
BY ShortBlock DEF ShortForm

\* and so two bytes longer than they are.
LEMMA ShortFormType ==
  ASSUME NEW type \in Bytes, NEW d \in Buffer, Len(d) < 127
  PROVE  ShortForm(type, d) \in Buffer /\ Len(ShortForm(type, d)) = Len(d) + 2
<1>1. Len(d) \in Bytes /\ Len(d) \in Nat
  <2>1. \A k \in Nat : k < 127 => k \in Bytes
    BY DEF Bytes
  <2>2. QED
    BY <2>1, BufferFacts
<1>2. <<type, Len(d)>> \in Buffer /\ Len(<<type, Len(d)>>) = 2
  BY <1>1, TwoBytes
<1>3. Len(ShortForm(type, d)) = 2 + Len(d) /\ ShortForm(type, d) \in Buffer
  BY <1>2, BufferFacts DEF ShortForm
<1>4. QED
  BY <1>1, <1>3

\* The header of a block in short form is read back, in front of any bytes.
LEMMA HeaderReadBack ==
  ASSUME NEW type \in Bytes, NEW d \in Buffer, Len(d) < 127, NEW rest \in Buffer
  PROVE  /\ decodeHeader(ShortForm(type, d) \o rest) =
              OK([type |-> type, length |-> Len(d)], d \o rest)
         /\ decodeHeaderOf(type, ShortForm(type, d) \o rest) = OK(Len(d), d \o rest)
<1>1. Len(d) \in 0 .. 126 /\ Len(d) \in Bytes
  <2>1. \A k \in Nat : k < 127 => k \in 0 .. 126 /\ k \in Bytes
    BY DEF Bytes
  <2>2. QED
    BY <2>1, BufferFacts
<1>2. <<type, Len(d)>> \in Buffer
  BY <1>1, TwoBytes
<1>3. ShortForm(type, d) \o rest = <<type, Len(d)>> \o (d \o rest)
  BY <1>2, BufferAssociative DEF ShortForm
<1>4. d \o rest \in Buffer /\ Len(d) <= Len(d \o rest)
  BY BufferFacts
<1>5. decodeHeader(<<type, Len(d)>> \o (d \o rest)) =
        OK([type |-> type, length |-> Len(d)], d \o rest)
  BY <1>1, <1>4, ShortHeader
<1>6. decodeHeaderOf(type, <<type, Len(d)>> \o (d \o rest)) = OK(Len(d), d \o rest)
  BY <1>1, <1>4, ShortHeaderOf
<1>7. QED
  BY <1>3, <1>5, <1>6, Zenon

\* A header and nothing after its block.
LEMMA LastHeader ==
  ASSUME NEW type \in Bytes, NEW d \in Buffer, Len(d) < 127
  PROVE  /\ decodeHeader(ShortForm(type, d)) = OK([type |-> type, length |-> Len(d)], d)
         /\ decodeHeaderOf(type, ShortForm(type, d)) = OK(Len(d), d)
<1>1. ShortForm(type, d) \o <<>> = ShortForm(type, d) /\ d \o <<>> = d
  BY ShortFormType, BufferFacts
<1>2. /\ decodeHeader(ShortForm(type, d) \o <<>>) = OK([type |-> type, length |-> Len(d)], d \o <<>>)
      /\ decodeHeaderOf(type, ShortForm(type, d) \o <<>>) = OK(Len(d), d \o <<>>)
  BY HeaderReadBack, EmptyBuffer
<1>3. QED
  BY <1>1, <1>2, Zenon

\* If a block of one buffer is short, it is in short form.
LEMMA FormOfBlock ==
  ASSUME NEW type \in Bytes, NEW d \in Buffer, Len(FlattenSeq(Block(type, <<d>>))) < 127
  PROVE  Len(d) < 127 /\ FlattenSeq(Block(type, <<d>>)) = ShortForm(type, d)
<1>1. <<d>> \in Chain /\ FlattenSeq(<<d>>) = d
  BY OneBuffer, FlattenOne
<1>2. Len(d) \in Nat /\ Len(FlattenSeq(Block(type, <<d>>))) \in Nat
      /\ Len(d) + 2 <= Len(FlattenSeq(Block(type, <<d>>)))
  BY <1>1, ShorterInside
<1>3. Len(d) < 127
  BY <1>2
<1>4. QED
  BY <1>1, <1>3, ShortFormOf

\* A string is received as it was sent.
LEMMA OctetStringReadBack ==
  ASSUME NEW d \in Buffer, Len(d) < 127, NEW rest \in Buffer
  PROVE  decodeOctetStringWithHeader(ShortForm(OCTET_STRING, d) \o rest) = OK(d, rest)
<1>1. decodeHeaderOf(OCTET_STRING, ShortForm(OCTET_STRING, d) \o rest) = OK(Len(d), d \o rest)
  BY HeaderReadBack, BlockTypes
<1>2. Read(Len(d), d \o rest) = OK(d, rest)
  BY ReadBack
<1>3. QED
  BY <1>1, <1>2 DEF decodeOctetStringWithHeader, Then, OK

\* Some encoded elements,
Elements(vs) == [i \in 1 .. Len(vs) |-> encodeBase128Int(vs[i])]

\* and their bytes.
Flat(vs) == FlattenSeq(Elements(vs))

\* Each element is in a buffer of its own.
LEMMA ElementsAre ==
  ASSUME NEW vs \in Identifiers
  PROVE  /\ Elements(vs) \in Chain /\ Flat(vs) \in Buffer /\ Len(Flat(vs)) \in Nat
         /\ Len(Elements(vs)) = Len(vs)
         /\ \A i \in 1 .. Len(vs) : Elements(vs)[i] = encodeBase128Int(vs[i])
<1>1. \A i \in 1 .. Len(vs) : encodeBase128Int(vs[i]) \in Buffer
  <2>1. \A i \in 1 .. Len(vs) : vs[i] \in Nat
    BY DEF Identifiers
  <2>2. QED
    BY <2>1, EncodedElement DEF Element
<1>2. Len(vs) \in Nat
  BY DEF Identifiers
<1>3. Elements(vs) \in Seq(Buffer) /\ Len(Elements(vs)) = Len(vs)
  BY <1>1, <1>2 DEF Elements
<1>4. Flat(vs) \in Buffer
  BY <1>3, FlattenType DEF Flat, Chain
<1>5. QED
  BY <1>3, <1>4, BufferFacts DEF Elements, Chain

\* The first element and the others.
LEMMA FirstElement ==
  ASSUME NEW vs \in Identifiers, Len(vs) # 0
  PROVE  /\ Head(vs) \in Nat /\ Tail(vs) \in Identifiers /\ Len(Tail(vs)) = Len(vs) - 1
         /\ Len(vs) - 1 \in Nat /\ vs = <<Head(vs)>> \o Tail(vs)
         /\ encodeBase128Int(Head(vs)) \in Buffer
         /\ Len(encodeBase128Int(Head(vs))) \in 1 .. 5
         /\ Flat(vs) = encodeBase128Int(Head(vs)) \o Flat(Tail(vs))
<1> DEFINE v == Head(vs)
           ws == Tail(vs)
           e == encodeBase128Int(v)
<1>1. /\ v \in Nat /\ ws \in Identifiers /\ Len(ws) = Len(vs) - 1 /\ Len(vs) - 1 \in Nat
      /\ v = vs[1] /\ \A i \in 1 .. Len(vs) - 1 : ws[i] = vs[i + 1]
  BY DEF Identifiers
<1>2. vs = <<v>> \o ws
  BY DEF Identifiers
<1> HIDE DEF v, ws
<1>3. e \in Buffer /\ Len(e) \in 1 .. 5
  BY <1>1, EncodedElement DEF Element
<1> HIDE DEF e
<1>4. <<e>> \in Chain /\ Elements(ws) \in Chain
  BY <1>1, <1>3, OneBuffer, ElementsAre
<1>5. Elements(vs) = <<e>> \o Elements(ws)
  <2> DEFINE s == Elements(vs)
             t == Elements(ws)
             u == <<e>> \o t
  <2>1. /\ s \in Seq(Buffer) /\ Len(s) = Len(vs) /\ t \in Seq(Buffer) /\ Len(t) = Len(vs) - 1
        /\ \A i \in 1 .. Len(vs) : s[i] = encodeBase128Int(vs[i])
        /\ \A i \in 1 .. Len(vs) - 1 : t[i] = encodeBase128Int(ws[i])
    BY <1>1, ElementsAre DEF Chain
  <2> HIDE DEF s, t
  <2>2. u \in Seq(Buffer) /\ Len(u) = Len(vs) /\ u[1] = e
        /\ \A i \in 2 .. Len(vs) : u[i] = t[i - 1]
    BY <1>1, <1>3, <2>1
  <2> HIDE DEF u
  <2>3. \A i \in 1 .. Len(vs) : u[i] = s[i]
    <3>1. s[1] = e
      BY <1>1, <2>1 DEF e
    <3>2. ASSUME NEW i \in 2 .. Len(vs) PROVE u[i] = s[i]
      <4>1. i - 1 \in 1 .. Len(vs) - 1 /\ i \in 1 .. Len(vs) /\ (i - 1) + 1 = i
        BY <1>1
      <4>2. QED
        BY <1>1, <2>1, <2>2, <4>1
    <3>3. \A i \in 1 .. Len(vs) : i = 1 \/ i \in 2 .. Len(vs)
      BY <1>1
    <3>4. QED
      BY <2>2, <3>1, <3>2, <3>3
  <2>4. s = u
    BY <2>1, <2>2, <2>3
  <2>5. QED
    BY <2>4 DEF s, t, u
<1>6. FlattenSeq(<<e>> \o Elements(ws)) = e \o FlattenSeq(Elements(ws))
  BY <1>3, <1>4, FlattenConcat, FlattenOne
<1>7. Flat(vs) = e \o Flat(ws)
  BY <1>5, <1>6 DEF Flat
<1>8. QED
  BY <1>1, <1>2, <1>3, <1>7 DEF v, ws, e

\* No element takes less than a byte.
LEMMA FlatIsLong ==
  ASSUME NEW vs \in Identifiers
  PROVE  Len(Flat(vs)) >= Len(vs)
<1> DEFINE S == {n \in Nat : \A ws \in Identifiers : Len(ws) = n => Len(Flat(ws)) >= n}
<1>1. ASSUME NEW n \in Nat, \A m \in Nat : m < n => m \in S PROVE n \in S
  <2>1. SUFFICES ASSUME NEW ws \in Identifiers, Len(ws) = n PROVE Len(Flat(ws)) >= n
    OBVIOUS
  <2>2. CASE n = 0
    BY <2>2, ElementsAre
  <2>3. CASE n # 0
    <3> DEFINE e == encodeBase128Int(Head(ws))
    <3>1. /\ Tail(ws) \in Identifiers /\ Len(Tail(ws)) = n - 1 /\ n - 1 \in Nat /\ n - 1 < n
          /\ e \in Buffer /\ Len(e) \in 1 .. 5 /\ Flat(ws) = e \o Flat(Tail(ws))
      <4>1. Len(ws) # 0
        BY <2>1, <2>3
      <4>2. /\ Tail(ws) \in Identifiers /\ Len(Tail(ws)) = Len(ws) - 1 /\ Len(ws) - 1 \in Nat
            /\ e \in Buffer /\ Len(e) \in 1 .. 5 /\ Flat(ws) = e \o Flat(Tail(ws))
        BY <4>1, FirstElement
      <4>3. n - 1 < n
        OBVIOUS
      <4>4. QED
        BY <2>1, <4>2, <4>3
    <3>2. Len(Flat(Tail(ws))) >= n - 1
      BY <1>1, <3>1
    <3>3. Flat(Tail(ws)) \in Buffer /\ Len(Flat(Tail(ws))) \in Nat
      BY <3>1, ElementsAre
    <3>4. Len(Flat(ws)) = Len(e) + Len(Flat(Tail(ws)))
      BY <3>1, <3>3, BufferFacts
    <3>5. \A a \in 1 .. 5, k \in Nat : k >= n - 1 => a + k >= n
      OBVIOUS
    <3> HIDE DEF e
    <3>6. QED
      BY <3>1, <3>2, <3>3, <3>4, <3>5
  <2>4. QED
    BY <2>2, <2>3
<1> HIDE DEF S
<1>2. Nat \subseteq S
  BY <1>1, SetInduction, Zenon
<1>3. Len(vs) \in Nat
  BY DEF Identifiers
<1>4. QED
  BY <1>2, <1>3 DEF S

\* An element that takes more than four digits.
TooLong(vs) == \E i \in 1 .. Len(vs) : vs[i] \div Power128(4) > 0

\* What is read of the elements vs in front of rest.
ElementsRead(r, vs, rest) ==
  \/ r = OK(vs, rest)
  \/ TooLong(vs) /\ \E b \in Buffer : r = Error(b) /\ Len(b) > Len(rest)

\* Elements are read back in front of any bytes, in any room that suffices, or
\* one of them takes five digits: by induction on how many there are.
LEMMA IdentifiersReadBack ==
  ASSUME NEW rest \in Buffer, NEW vs \in Identifiers, Len(vs) # 0,
         NEW room \in Nat, room >= Len(vs)
  PROVE  ElementsRead(decodeIdentifiers[At(room, Len(Flat(vs)), Flat(vs) \o rest)], vs, rest)
<1> DEFINE D(at) == decodeIdentifiers[at]
           Place(k, ws) == At(k, Len(Flat(ws)), Flat(ws) \o rest)
           S == {n \in Nat : \A ws \in Identifiers, k \in Nat :
                   Len(ws) = n /\ n # 0 /\ k >= n => ElementsRead(D(Place(k, ws)), ws, rest)}
<1> HIDE DEF D
<1>1. ASSUME NEW n \in Nat, \A m \in Nat : m < n => m \in S PROVE n \in S
  <2>1. SUFFICES ASSUME NEW ws \in Identifiers, NEW k \in Nat, Len(ws) = n, n # 0, k >= n
                 PROVE  ElementsRead(D(Place(k, ws)), ws, rest)
    OBVIOUS
  <2> DEFINE v == Head(ws)
             xs == Tail(ws)
             e == encodeBase128Int(v)
             b == Flat(xs) \o rest
             at == Place(k, ws)
  <2>2. /\ v \in Nat /\ xs \in Identifiers /\ Len(xs) = n - 1 /\ n - 1 \in Nat
        /\ ws = <<v>> \o xs /\ e \in Buffer /\ Len(e) \in 1 .. 5
        /\ Flat(ws) = e \o Flat(xs)
    BY <2>1, FirstElement
  <2>3. /\ Flat(xs) \in Buffer /\ Len(Flat(xs)) \in Nat /\ Len(Flat(xs)) >= n - 1
        /\ Flat(ws) \in Buffer /\ Len(Flat(ws)) \in Nat
    BY <2>1, <2>2, ElementsAre, FlatIsLong
  <2>4. /\ b \in Buffer /\ Len(b) = Len(Flat(xs)) + Len(rest) /\ Len(b) \in Nat
        /\ Len(rest) \in Nat /\ Len(Flat(ws)) = Len(e) + Len(Flat(xs))
        /\ Flat(ws) \o rest \in Buffer
    BY <2>2, <2>3, BufferFacts
  <2>5. Flat(ws) \o rest = e \o b
    <3>1. (e \o Flat(xs)) \o rest = e \o (Flat(xs) \o rest)
      BY <2>2, <2>3, BufferAssociative
    <3>2. QED
      BY <2>2, <3>1, Zenon
  <2>6. at.room = k /\ at.left = Len(Flat(ws)) /\ at.bytes = e \o b /\ at \in Places
    <3>1. at.room = k /\ at.left = Len(Flat(ws)) /\ at.bytes = e \o b
      BY <2>5 DEF At
    <3>2. Len(Flat(ws)) \in Int
      BY <2>3
    <3>3. at \in Places
      BY <2>4, <3>2 DEF At, Places, Buffer
    <3>4. QED
      BY <3>1, <3>3
  <2>7. D(at) = IdentifierStep(decodeIdentifiers, at)
    BY <2>6, IdentifierFunction DEF D
  <2>8. Element(v, e)
    BY <2>2, EncodedElement
  <2>9. \A i \in 1 .. Len(xs) : ws[i + 1] = xs[i] /\ i + 1 \in 1 .. Len(ws)
    BY <2>1, <2>2 DEF Identifiers
  <2>10. ws[1] = v /\ 1 \in 1 .. Len(ws)
    BY <2>1 DEF Identifiers
  <2> HIDE DEF v, xs, e, at
  <2>11. CASE Len(e) = 5
    <3>1. PICK r \in Buffer : decodeBase128Int(e \o b) = Error(r) /\ Len(r) > Len(b)
      BY <2>4, <2>8, <2>11, ElementReadBack
    <3>2. D(at) = Error(r)
      <4>1. decodeBase128Int(at.bytes) = Error(r) /\ decodeBase128Int(at.bytes).status # "ok"
        BY <2>6, <3>1, Status
      <4>2. QED
        BY <2>7, <4>1, IdentifierStops
    <3>3. TooLong(ws)
      BY <2>8, <2>10, <2>11 DEF Element, TooLong
    <3>4. Len(r) \in Nat
      BY BufferFacts
    <3>5. Len(r) > Len(rest)
      BY <2>3, <2>4, <3>1, <3>4
    <3>6. QED
      BY <3>2, <3>3, <3>5 DEF ElementsRead, at
  <2>12. CASE Len(e) # 5
    <3>1. decodeBase128Int(at.bytes) = OK(v, b)
      BY <2>4, <2>6, <2>8, <2>12, ElementReadBack
    <3>2. LeftAfter(at, b) = Len(Flat(xs))
      <4>1. Len(e \o b) = Len(e) + Len(b)
        BY <2>2, <2>4, BufferFacts
      <4>2. QED
        BY <2>2, <2>3, <2>4, <2>6, <4>1 DEF LeftAfter
    <3>3. D(at) =
            IF k = 0 THEN Panic
            ELSE IF LeftAfter(at, b) = 0 THEN OK(<<v>>, b)
            ELSE IF LeftAfter(at, b) < 0 THEN Error(b)
            ELSE IF D(NextPlace(at, b)).status = "ok"
            THEN OK(<<v>> \o D(NextPlace(at, b)).val, D(NextPlace(at, b)).rest)
            ELSE D(NextPlace(at, b))
      BY <2>6, <2>7, <3>1, IdentifierGoesOn DEF D
    <3>4. k # 0
      BY <2>1
    <3>5. CASE n = 1
      <4>1. xs = <<>>
        BY <2>2, <3>5 DEF Identifiers
      <4>2. Flat(xs) = <<>> /\ Len(Flat(xs)) = 0
        BY <4>1, FlattenEmpty, EmptyBuffer DEF Flat, Elements
      <4>3. b = rest /\ ws = <<v>>
        <5>1. <<>> \o rest = rest
          BY BufferFacts
        <5>2. <<v>> \o <<>> = <<v>>
          BY <2>2
        <5>3. QED
          BY <2>2, <4>1, <4>2, <5>1, <5>2, Zenon
      <4>4. D(at) = OK(ws, rest)
        BY <3>2, <3>3, <3>4, <4>2, <4>3
      <4>5. QED
        BY <4>4 DEF ElementsRead, at
    <3>6. CASE n # 1
      <4>1. n - 1 \in Nat /\ n - 1 # 0 /\ n - 1 < n /\ k - 1 \in Nat /\ k - 1 >= n - 1
        BY <2>1, <3>6
      <4>2. Len(Flat(xs)) # 0 /\ ~(Len(Flat(xs)) < 0)
        BY <2>3, <4>1
      <4>3. NextPlace(at, b) = Place(k - 1, xs)
        BY <2>6, <3>2 DEF NextPlace
      <4> DEFINE next == D(Place(k - 1, xs))
      <4>4. ElementsRead(next, xs, rest)
        BY <1>1, <2>2, <4>1
      <4>5. D(at) = IF next.status = "ok" THEN OK(<<v>> \o next.val, next.rest) ELSE next
        BY <3>2, <3>3, <3>4, <4>2, <4>3
      <4> HIDE DEF next
      <4>6. CASE next = OK(xs, rest)
        <5>1. D(at) = OK(ws, rest)
          BY <2>2, <4>5, <4>6, Status
        <5>2. QED
          BY <5>1 DEF ElementsRead, at
      <4>7. CASE TooLong(xs) /\ \E c \in Buffer : next = Error(c) /\ Len(c) > Len(rest)
        <5>1. PICK c \in Buffer : next = Error(c) /\ Len(c) > Len(rest)
          BY <4>7
        <5>2. D(at) = Error(c)
          BY <4>5, <5>1, Status
        <5>3. TooLong(ws)
          BY <2>9, <4>7 DEF TooLong
        <5>4. QED
          BY <5>1, <5>2, <5>3 DEF ElementsRead, at
      <4>8. QED
        BY <4>4, <4>6, <4>7 DEF ElementsRead
    <3>7. QED
      BY <3>5, <3>6
  <2>13. QED
    BY <2>11, <2>12 DEF at
<1> HIDE DEF S
<1>2. Nat \subseteq S
  BY <1>1, SetInduction, Zenon
<1>3. Len(vs) \in Nat
  BY DEF Identifiers
<1>4. QED
  BY <1>2, <1>3 DEF S, D

\* What follows the two elements of the first byte.
AfterSecond(oid) == SubSeq(oid, 3, Len(oid))

\* An identifier from its first two elements and the others.
LEMMA AfterSecondFacts ==
  ASSUME NEW oid \in Identifiers, Len(oid) > 2
  PROVE  /\ AfterSecond(oid) \in Identifiers /\ Len(AfterSecond(oid)) = Len(oid) - 2
         /\ Len(AfterSecond(oid)) # 0
         /\ \A i \in 1 .. Len(oid) - 2 : AfterSecond(oid)[i] = oid[i + 2]
         /\ oid = <<oid[1], oid[2]>> \o AfterSecond(oid)
         /\ ElementsOf(oid) = Elements(AfterSecond(oid))
<1> DEFINE vs == AfterSecond(oid)
<1>1. Len(oid) \in Nat /\ 3 \in 1 .. Len(oid) /\ oid \in Seq(Nat) /\ oid[1] \in Nat /\ oid[2] \in Nat
  BY DEF Identifiers
<1>2. vs \in Seq(Nat) /\ Len(vs) = Len(oid) - 2 /\ \A i \in 1 .. Len(oid) - 2 : vs[i] = oid[i + 2]
  <2>1. vs \in Seq(Nat) /\ Len(vs) = Len(oid) - 3 + 1
    BY <1>1 DEF AfterSecond
  <2>2. \A i \in 1 .. Len(oid) - 2 : vs[i] = oid[i + 2]
    BY <1>1 DEF AfterSecond
  <2>3. QED
    BY <1>1, <2>1, <2>2
<1> HIDE DEF vs
<1>3. oid = <<oid[1], oid[2]>> \o vs
  <2> DEFINE s == <<oid[1], oid[2]>> \o vs
  <2>1. s \in Seq(Nat) /\ Len(s) = Len(oid) /\ s[1] = oid[1] /\ s[2] = oid[2]
        /\ \A i \in 3 .. Len(oid) : s[i] = vs[i - 2]
    BY <1>1, <1>2
  <2> HIDE DEF s
  <2>2. \A i \in 1 .. Len(oid) : s[i] = oid[i]
    <3>1. ASSUME NEW i \in 3 .. Len(oid) PROVE s[i] = oid[i]
      <4>1. i - 2 \in 1 .. Len(oid) - 2 /\ (i - 2) + 2 = i
        BY <1>1
      <4>2. QED
        BY <1>2, <2>1, <4>1
    <3>2. \A i \in 1 .. Len(oid) : i = 1 \/ i = 2 \/ i \in 3 .. Len(oid)
      BY <1>1
    <3>3. QED
      BY <2>1, <3>1, <3>2
  <2>3. s = oid
    BY <1>1, <2>1, <2>2, SameSeq
  <2>4. QED
    BY <2>3 DEF s
<1>4. ElementsOf(oid) = Elements(vs)
  <2>1. \A i \in 1 .. Len(oid) - 2 : encodeBase128Int(vs[i]) = encodeBase128Int(oid[i + 2])
    BY <1>2
  <2>2. QED
    BY <1>2, <2>1 DEF ElementsOf, Elements
<1>5. Len(vs) # 0
  <2>1. \A k \in Nat : k > 2 => k - 2 # 0
    OBVIOUS
  <2>2. QED
    BY <1>1, <1>2, <2>1, Zenon
<1>6. QED
  BY <1>2, <1>3, <1>4, <1>5 DEF vs, Identifiers

\* What the block of an identifier holds.
Contents(oid) == <<FirstByte(oid)>> \o FlattenSeq(ElementsOf(oid))

\* A short identifier is encoded in short form.
LEMMA EncodedIdentifier ==
  ASSUME NEW oid \in Identifiers, Encodable(oid), Len(Contents(oid)) < 127
  PROVE  /\ Contents(oid) \in Buffer
         /\ FlattenSeq(encodeObjectIdentifier(oid)) = ShortForm(OBJECT_IDENTIFIER, Contents(oid))
<1>1. Contents(oid) \in Buffer /\ encodeObjectIdentifier(oid) = Block(OBJECT_IDENTIFIER, <<Contents(oid)>>)
  BY encodeObjectIdentifierType DEF Contents
<1>2. <<Contents(oid)>> \in Chain /\ FlattenSeq(<<Contents(oid)>>) = Contents(oid)
  BY <1>1, OneBuffer, FlattenOne
<1>3. QED
  BY <1>1, <1>2, ShortFormOf, BlockTypes
=============================================================================
