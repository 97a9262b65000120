------------------------------- MODULE Facts --------------------------------
(***************************************************************************)
(* Facts that the proofs of several components need: what the operators on *)
(* sequences do to the set of their elements, induction and recursion on   *)
(* the natural numbers, the powers of two, the words that folding computes *)
(* with, and the lists of blocks of a function.                            *)
(***************************************************************************)
EXTENDS IrExec, SequencesExt, SequenceTheorems, FiniteSetTheorems, FunctionTheorems,
        WellFoundedInduction, TLAPS

LEMMA RangeOfAppend ==
  ASSUME NEW S, NEW s \in Seq(S), NEW e \in S
  PROVE  /\ Append(s, e) \in Seq(S)
         /\ Range(Append(s, e)) = Range(s) \cup {e}
<1>1. /\ Append(s, e) \in Seq(S)
      /\ DOMAIN Append(s, e) = 1 .. Len(s) + 1
      /\ \A k \in 1 .. Len(s) : Append(s, e)[k] = s[k]
      /\ Append(s, e)[Len(s) + 1] = e
  OBVIOUS
<1>2. ASSUME NEW x \in Range(Append(s, e)) PROVE x \in Range(s) \cup {e}
  BY <1>1, <1>2 DEF Range
<1>3. ASSUME NEW x \in Range(s) PROVE x \in Range(Append(s, e))
  <2>1. PICK k \in 1 .. Len(s) : x = s[k]
    BY <1>3 DEF Range
  <2>2. k \in DOMAIN Append(s, e) /\ Append(s, e)[k] = x
    BY <1>1, <2>1
  <2> QED
    BY <2>2 DEF Range
<1>4. e \in Range(Append(s, e))
  BY <1>1 DEF Range
<1> QED
  BY <1>1, <1>2, <1>3, <1>4

LEMMA RangeOfTail ==
  ASSUME NEW S, NEW s \in Seq(S), s # <<>>
  PROVE  /\ Head(s) \in S
         /\ Tail(s) \in Seq(S)
         /\ Range(s) = Range(Tail(s)) \cup {Head(s)}
<1>1. /\ Len(s) \in Nat \ {0}
      /\ Head(s) = s[1] /\ s[1] \in S
      /\ Tail(s) \in Seq(S)
      /\ DOMAIN Tail(s) = 1 .. Len(s) - 1
      /\ \A k \in 1 .. Len(s) - 1 : Tail(s)[k] = s[k + 1]
  OBVIOUS
<1>2. ASSUME NEW x \in Range(s) PROVE x \in Range(Tail(s)) \cup {Head(s)}
  <2>1. PICK k \in 1 .. Len(s) : x = s[k]
    BY <1>2 DEF Range
  <2>2. CASE k = 1
    BY <1>1, <2>1, <2>2
  <2>3. CASE k # 1
    <3>1. k - 1 \in DOMAIN Tail(s) /\ Tail(s)[k - 1] = x
      BY <1>1, <2>1, <2>3
    <3> QED
      BY <3>1 DEF Range
  <2> QED
    BY <2>2, <2>3
<1>3. ASSUME NEW x \in Range(Tail(s)) PROVE x \in Range(s)
  <2>1. PICK k \in 1 .. Len(s) - 1 : x = Tail(s)[k]
    BY <1>1, <1>3 DEF Range
  <2>2. k + 1 \in DOMAIN s /\ s[k + 1] = x
    BY <1>1, <2>1
  <2> QED
    BY <2>2 DEF Range
<1>4. Head(s) \in Range(s)
  BY <1>1 DEF Range
<1> QED
  BY <1>1, <1>2, <1>3, <1>4

\* What is left of a sequence after one of its elements is removed.
LEMMA RemoveAtProperties ==
  ASSUME NEW S, NEW s \in Seq(S), NEW k \in 1 .. Len(s)
  PROVE  /\ RemoveAt(s, k) \in Seq(S)
         /\ \A j \in 1 .. k - 1 : j \in DOMAIN RemoveAt(s, k) /\ RemoveAt(s, k)[j] = s[j]
         /\ Range(RemoveAt(s, k)) \subseteq Range(s)
         /\ Range(s) \subseteq Range(RemoveAt(s, k)) \cup {s[k]}
<1> DEFINE r == RemoveAt(s, k)
<1>1. /\ r \in Seq(S)
      /\ DOMAIN r = 1 .. Len(s) - 1
      /\ \A j \in 1 .. Len(s) - 1 : r[j] = IF j < k THEN s[j] ELSE s[j + 1]
  <2> DEFINE a == SubSeq(s, 1, k - 1)
             b == SubSeq(s, k + 1, Len(s))
  <2>1. /\ a \in Seq(S) /\ Len(a) = k - 1
        /\ \A j \in 1 .. k - 1 : a[j] = s[j]
    OBVIOUS
  <2>2. /\ b \in Seq(S) /\ Len(b) = Len(s) - k
        /\ \A j \in 1 .. Len(s) - k : b[j] = s[j + k]
    OBVIOUS
  <2>3. r = a \o b
    BY DEF RemoveAt
  <2> HIDE DEF a, b, r
  <2>4. /\ a \o b \in Seq(S)
        /\ Len(a \o b) = Len(a) + Len(b)
        /\ \A j \in 1 .. Len(a) + Len(b) :
             (a \o b)[j] = IF j <= Len(a) THEN a[j] ELSE b[j - Len(a)]
    BY <2>1, <2>2, ConcatProperties
  <2>5. ASSUME NEW j \in 1 .. Len(s) - 1
        PROVE  r[j] = IF j < k THEN s[j] ELSE s[j + 1]
    <3>1. r[j] = IF j <= k - 1 THEN a[j] ELSE b[j - (k - 1)]
      BY <2>1, <2>2, <2>3, <2>4
    <3>2. CASE j < k
      BY <2>1, <3>1, <3>2
    <3>3. CASE j >= k
      <4>1. j - (k - 1) \in 1 .. Len(s) - k
        BY <3>3
      <4>2. b[j - (k - 1)] = s[j - (k - 1) + k]
        BY <2>2, <4>1
      <4> QED
        BY <3>1, <3>3, <4>2
    <3> QED
      BY <3>2, <3>3
  <2>6. r \in Seq(S) /\ Len(r) = Len(s) - 1
    BY <2>1, <2>2, <2>3, <2>4
  <2> QED
    BY <2>5, <2>6
<1>2. ASSUME NEW x \in Range(r) PROVE x \in Range(s)
  <2>1. PICK j \in 1 .. Len(s) - 1 : x = IF j < k THEN s[j] ELSE s[j + 1]
    BY <1>1, <1>2 DEF Range
  <2>2. j \in DOMAIN s /\ j + 1 \in DOMAIN s
    OBVIOUS
  <2> QED
    BY <2>1, <2>2 DEF Range
<1>3. ASSUME NEW x \in Range(s), x # s[k] PROVE x \in Range(r)
  <2>1. PICK j \in 1 .. Len(s) : x = s[j]
    BY <1>3 DEF Range
  <2>2. CASE j < k
    <3>1. j \in DOMAIN r /\ r[j] = x
      BY <1>1, <2>1, <2>2
    <3> QED
      BY <3>1 DEF Range
  <2>3. CASE j > k
    <3>1. j - 1 \in DOMAIN r /\ r[j - 1] = x
      BY <1>1, <2>1, <2>3
    <3> QED
      BY <3>1 DEF Range
  <2> QED
    BY <1>3, <2>1, <2>2, <2>3
<1>4. \A j \in 1 .. k - 1 : j \in DOMAIN r /\ r[j] = s[j]
  BY <1>1
<1> QED
  BY <1>1, <1>2, <1>3, <1>4

\* Induction for a set of numbers, from the smallest number outside it.
LEMMA NatSetInduction ==
  ASSUME NEW S, 0 \in S, \A n \in Nat : n \in S => n + 1 \in S
  PROVE  Nat \subseteq S
<1> DEFINE R == OpToRel(<, Nat)
           T == Nat \ S
<1>1. IsWellFoundedOn(R, Nat)
  BY NatLessThanWellFounded
<1>2. SUFFICES ASSUME T # {} PROVE FALSE
  OBVIOUS
<1>3. PICK x \in T : \A y \in T : <<y, x>> \notin R
  <2> HIDE DEF R
  <2>1. T \subseteq Nat 
    OBVIOUS
  <2> HIDE DEF T
  <2> QED  BY <1>1, <1>2, <2>1, WFMin
<1>4. \A y \in T : ~(y < x)
  BY <1>3 DEF OpToRel
<1>5. x # 0 /\ x - 1 \in Nat /\ x - 1 \notin T
  BY <1>4
<1>6. (x - 1) + 1 \in S
  BY <1>5
<1> QED
  BY <1>6

-----------------------------------------------------------------------------
\* The values up to n of a function defined by recursion on its argument.
IsIteration(h, n, a, step) ==
  /\ DOMAIN h = 0 .. n
  /\ h[0] = a
  /\ \A i \in 1 .. n : h[i] = step[<<i, h[i - 1]>>]

LEMMA IterationUnique ==
  ASSUME NEW a, NEW step, NEW m \in Nat, NEW n \in Nat, NEW g, NEW h,
         IsIteration(g, m, a, step), IsIteration(h, n, a, step), m <= n
  PROVE  \A i \in 0 .. m : g[i] = h[i]
<1> DEFINE S == {i \in Nat : i <= m => g[i] = h[i]}
<1>1. 0 \in S
  BY DEF IsIteration
<1>2. ASSUME NEW i \in Nat, i \in S PROVE i + 1 \in S
  <2> SUFFICES ASSUME i + 1 <= m PROVE g[i + 1] = h[i + 1]
    OBVIOUS
  <2>1. i + 1 \in 1 .. m /\ i + 1 \in 1 .. n /\ (i + 1) - 1 = i
    BY <1>2
  <2>2. g[i + 1] = step[<<i + 1, g[i]>>] /\ h[i + 1] = step[<<i + 1, h[i]>>]
    BY <2>1 DEF IsIteration
  <2> QED
    BY <1>2, <2>2
<1> HIDE DEF S
<1>3. Nat \subseteq S
  BY <1>1, <1>2, NatSetInduction
<1> QED
  BY <1>3 DEF S

LEMMA IterationExists ==
  ASSUME NEW a, NEW step, NEW n \in Nat
  PROVE  \E h : IsIteration(h, n, a, step)
<1> DEFINE S == {k \in Nat : \E h : IsIteration(h, k, a, step)}
<1>1. 0 \in S
  <2>1. IsIteration([i \in 0 .. 0 |-> a], 0, a, step)
    BY DEF IsIteration
  <2> QED
    BY <2>1
<1>2. ASSUME NEW k \in Nat, k \in S PROVE k + 1 \in S
  <2>1. PICK h : IsIteration(h, k, a, step)
    BY <1>2
  <2> DEFINE g == [i \in 0 .. k + 1 |-> IF i = k + 1 THEN step[<<k + 1, h[k]>>] ELSE h[i]]
  <2>2. DOMAIN g = 0 .. k + 1 /\ g[0] = a
    BY <2>1 DEF IsIteration
  <2>3. ASSUME NEW i \in 1 .. k + 1 PROVE g[i] = step[<<i, g[i - 1]>>]
    <3>1. i - 1 \in 0 .. k /\ g[i - 1] = h[i - 1]
      OBVIOUS
    <3>2. CASE i = k + 1
      <4>1. g[i] = step[<<i, h[k]>>] /\ i - 1 = k
        BY <3>2
      <4> QED
        BY <3>1, <4>1
    <3>3. CASE i # k + 1
      <4>1. i \in 1 .. k /\ g[i] = h[i]
        BY <3>3
      <4>2. h[i] = step[<<i, h[i - 1]>>]
        BY <4>1, <2>1 DEF IsIteration
      <4> HIDE DEF g
      <4> QED
        BY <3>1, <4>1, <4>2
    <3> QED
      BY <3>2, <3>3
  <2> HIDE DEF g
  <2>4. IsIteration(g, k + 1, a, step)
    BY <2>2, <2>3 DEF IsIteration
  <2> QED
    BY <2>4
<1> HIDE DEF S
<1>3. Nat \subseteq S
  BY <1>1, <1>2, NatSetInduction
<1> QED
  BY <1>3 DEF S

\* A function defined by recursion on its argument exists.
Recursion(a, step) ==
  CHOOSE g : g = [n \in Nat |-> IF n = 0 THEN a ELSE step[<<n, g[n - 1]>>]]

LEMMA RecursionExists ==
  ASSUME NEW a, NEW step
  PROVE  Recursion(a, step) =
           [n \in Nat |-> IF n = 0 THEN a ELSE step[<<n, Recursion(a, step)[n - 1]>>]]
<1> DEFINE upto(n) == CHOOSE h : IsIteration(h, n, a, step)
           g == [n \in Nat |-> upto(n)[n]]
<1>1. \A n \in Nat : IsIteration(upto(n), n, a, step)
  BY IterationExists
<1>2. ASSUME NEW n \in Nat PROVE g[n] = IF n = 0 THEN a ELSE step[<<n, g[n - 1]>>]
  <2>0. g[n] = upto(n)[n]
    OBVIOUS
  <2>1. CASE n = 0
    BY <1>1, <2>1, <2>0 DEF IsIteration
  <2>2. CASE n # 0
    <3>1. n - 1 \in Nat /\ n - 1 <= n /\ n \in 1 .. n /\ n - 1 \in 0 .. n - 1
      BY <2>2
    <3> HIDE DEF upto
    <3>2. upto(n)[n] = step[<<n, upto(n)[n - 1]>>]
      BY <1>1, <3>1 DEF IsIteration
    <3>3. upto(n - 1)[n - 1] = upto(n)[n - 1]
      BY <1>1, <3>1, IterationUnique
    <3>4. g[n - 1] = upto(n - 1)[n - 1]
      BY <3>1
    <3> QED
      BY <2>0, <2>2, <3>2, <3>3, <3>4
  <2> QED
    BY <2>1, <2>2
<1> HIDE DEF upto
<1>3. DOMAIN g = Nat
  OBVIOUS
<1>4. g = [n \in Nat |-> g[n]]
  OBVIOUS
<1> HIDE DEF g
<1>5. g = [n \in Nat |-> IF n = 0 THEN a ELSE step[<<n, g[n - 1]>>]]
  BY <1>2, <1>4
<1> QED
  BY <1>5 DEF Recursion

LEMMA RecursionFacts ==
  ASSUME NEW D, NEW a \in D, NEW step \in [Nat \X D -> D]
  PROVE  /\ Recursion(a, step) \in [Nat -> D]
         /\ Recursion(a, step)[0] = a
         /\ \A n \in Nat : n # 0 =>
              Recursion(a, step)[n] = step[<<n, Recursion(a, step)[n - 1]>>]
<1> DEFINE g == Recursion(a, step)
<1>1. g = [n \in Nat |-> IF n = 0 THEN a ELSE step[<<n, g[n - 1]>>]]
  BY RecursionExists
<1> HIDE DEF g
<1>2. /\ g[0] = a
      /\ \A n \in Nat : n # 0 => g[n] = step[<<n, g[n - 1]>>]
      /\ DOMAIN g = Nat
  BY <1>1
<1> DEFINE S == {n \in Nat : g[n] \in D}
<1>3. 0 \in S
  BY <1>2
<1>4. ASSUME NEW n \in Nat, n \in S PROVE n + 1 \in S
  <2>1. n + 1 \in Nat /\ n + 1 # 0 /\ (n + 1) - 1 = n
    OBVIOUS
  <2>2. g[n + 1] = step[<<n + 1, g[n]>>]
    BY <1>2, <2>1
  <2> QED
    BY <1>4, <2>1, <2>2
<1> HIDE DEF S
<1>5. Nat \subseteq S
  BY <1>3, <1>4, NatSetInduction
<1>6. \A n \in Nat : g[n] \in D
  BY <1>5 DEF S
<1>7. g \in [Nat -> D]
  <2>1. g = [n \in Nat |-> g[n]]
    BY <1>1
  <2> QED
    BY <1>6, <2>1
<1> QED
  BY <1>2, <1>7 DEF g

-----------------------------------------------------------------------------
\* Adding an element doubles the number of subsets.
LEMMA SubsetsDouble ==
  ASSUME NEW S, IsFiniteSet(S), NEW x, x \notin S
  PROVE  Cardinality(SUBSET (S \cup {x})) = 2 * Cardinality(SUBSET S)
<1> DEFINE larger == {A \cup {x} : A \in SUBSET S}
<1>1. SUBSET (S \cup {x}) = (SUBSET S) \cup larger
  <2>1. ASSUME NEW B \in SUBSET (S \cup {x}), x \in B PROVE B \in larger
    <3>1. B \ {x} \in SUBSET S
      BY <2>1
    <3>2. B = (B \ {x}) \cup {x}
      BY <2>1
    <3> QED
      BY <3>1, <3>2
  <2>2. ASSUME NEW B \in SUBSET (S \cup {x}), x \notin B PROVE B \in SUBSET S
    BY <2>2
  <2>3. ASSUME NEW B \in larger PROVE B \in SUBSET (S \cup {x})
    <3>1. PICK A \in SUBSET S : B = A \cup {x}
      BY <2>3
    <3> QED
      BY <3>1
  <2>4. SUBSET S \subseteq SUBSET (S \cup {x})
    OBVIOUS
  <2> HIDE DEF larger
  <2>5. ASSUME NEW B \in SUBSET (S \cup {x}) PROVE B \in (SUBSET S) \cup larger
    BY <2>1, <2>2
  <2>6. ASSUME NEW B \in (SUBSET S) \cup larger PROVE B \in SUBSET (S \cup {x})
    <3>1. CASE B \in larger
      BY <2>3, <3>1
    <3>2. CASE B \in SUBSET S
      BY <2>4, <3>2
    <3> QED
      BY <2>6, <3>1, <3>2
  <2> DEFINE U == SUBSET (S \cup {x})
             V == (SUBSET S) \cup larger
  <2>7. \A B : B \in U <=> B \in V
    BY <2>5, <2>6
  <2> HIDE DEF U, V
  <2>8. U = V
    BY <2>7
  <2> QED
    BY <2>8 DEF U, V
<1>2. IsFiniteSet(SUBSET S)
  BY FS_SUBSET
<1>3. ExistsBijection(SUBSET S, larger)
  <2> DEFINE f == [A \in SUBSET S |-> A \cup {x}]
  <2>1. f \in [SUBSET S -> larger]
    OBVIOUS
  <2>2. ASSUME NEW A \in SUBSET S, NEW B \in SUBSET S, f[A] = f[B] PROVE A = B
    <3>1. A \cup {x} = B \cup {x}
      BY <2>2
    <3>2. A = (A \cup {x}) \ {x}
      OBVIOUS
    <3>3. B = (B \cup {x}) \ {x}
      OBVIOUS
    <3> QED
      BY <3>1, <3>2, <3>3
  <2>3. \A y \in larger : \E A \in SUBSET S : f[A] = y
    OBVIOUS
  <2> HIDE DEF f, larger
  <2>4. f \in Bijection(SUBSET S, larger)
    BY <2>1, <2>2, <2>3, Fun_IsBij
  <2> QED
    BY <2>4 DEF ExistsBijection
<1>4. (SUBSET S) \cap larger = {}
  <2>1. \A B \in larger : x \in B
    OBVIOUS
  <2>2. \A B \in SUBSET S : x \notin B
    OBVIOUS
  <2> HIDE DEF larger
  <2> QED
    BY <2>1, <2>2
<1> DEFINE P == SUBSET S
<1> HIDE DEF larger, P
<1>5. IsFiniteSet(larger) /\ Cardinality(larger) = Cardinality(P)
  BY <1>2, <1>3, FS_Bijection DEF P
<1>6. Cardinality(P \cup larger) = Cardinality(P) + Cardinality(larger) - Cardinality(P \cap larger)
  BY <1>2, <1>5, FS_Union DEF P
<1>7. Cardinality(P \cap larger) = 0 /\ Cardinality(P) \in Nat
  BY <1>2, <1>4, FS_EmptySet, FS_CardinalityType DEF P
<1>8. Cardinality(P \cup larger) = 2 * Cardinality(P)
  BY <1>5, <1>6, <1>7
<1> QED
  BY <1>1, <1>8 DEF P

LEMMA PowerDoubles ==
  ASSUME NEW n \in Nat
  PROVE  2^n \in Nat /\ 2^(n + 1) = 2 * 2^n
<1>1. IsFiniteSet(1 .. n) /\ Cardinality(1 .. n) = n
  <2>1. IsFiniteSet(1 .. n) /\ Cardinality(1 .. n) = IF 1 > n THEN 0 ELSE n - 1 + 1
    BY FS_Interval
  <2>2. CASE n = 0
    BY <2>1, <2>2
  <2>3. CASE n > 0
    BY <2>1, <2>3
  <2> QED
    BY <2>2, <2>3
<1> DEFINE S == 1 .. n
<1>2. n + 1 \notin S
  OBVIOUS
<1> HIDE DEF S
<1>3. IsFiniteSet(S \cup {n + 1}) /\ Cardinality(S \cup {n + 1}) = n + 1
  BY <1>1, <1>2, FS_AddElement DEF S
<1>4. Cardinality(SUBSET S) = 2^n /\ Cardinality(SUBSET (S \cup {n + 1})) = 2^(n + 1)
  BY <1>1, <1>3, FS_SUBSET DEF S
<1>5. Cardinality(SUBSET S) \in Nat
  BY <1>1, FS_SUBSET, FS_CardinalityType DEF S
<1>6. Cardinality(SUBSET (S \cup {n + 1})) = 2 * Cardinality(SUBSET S)
  BY <1>1, <1>2, SubsetsDouble DEF S
<1> QED
  BY <1>4, <1>5, <1>6

LEMMA PowersArePositive == 2^0 = 1 /\ \A n \in Nat : 2^n \in Nat \ {0}
<1> DEFINE S == {n \in Nat : 2^n \in Nat \ {0}}
<1>0. 2^0 = 1
  OBVIOUS
<1>1. 0 \in S
  BY <1>0
<1>2. \A n \in Nat : n \in S => n + 1 \in S
  <2>1. ASSUME NEW n \in Nat, n \in S PROVE n + 1 \in S
    <3>1. 2^(n + 1) = 2 * 2^n
      BY PowerDoubles
    <3> DEFINE p == 2^n
               q == 2^(n + 1)
    <3>2. p \in Nat \ {0} /\ q = 2 * p
      BY <2>1, <3>1
    <3> HIDE DEF p, q
    <3>3. q \in Nat \ {0}
      BY <3>2
    <3> QED
      BY <3>3 DEF q
  <2> HIDE DEF S
  <2> QED
    BY <2>1
<1> HIDE DEF S
<1>3. Nat \subseteq S
  BY <1>1, <1>2, NatSetInduction
<1> QED
  BY <1>0, <1>3 DEF S

\* A power of two is a multiple of every smaller one.
LEMMA PowerFactors ==
  ASSUME NEW m \in Nat, NEW n \in Nat, m <= n
  PROVE  \E k \in Nat \ {0} : 2^n = k * 2^m
<1> DEFINE S == {i \in Nat : \E k \in Nat \ {0} : 2^(m + i) = k * 2^m}
           M == 2^m
<1>0. M \in Nat
  BY PowerDoubles
<1>1. 0 \in S
  <2>1. m + 0 = m
    OBVIOUS
  <2>2. M = 1 * M
    BY <1>0
  <2> QED
    BY <2>1, <2>2
<1>2. ASSUME NEW i \in Nat, i \in S PROVE i + 1 \in S
  <2>1. PICK k \in Nat \ {0} : 2^(m + i) = k * M
    BY <1>2
  <2>2. m + i \in Nat /\ (m + i) + 1 = m + (i + 1)
    OBVIOUS
  <2>3. 2^(m + (i + 1)) = 2 * 2^(m + i)
    BY <2>2, PowerDoubles
  <2> HIDE DEF M
  <2>4. 2 * (k * M) = (2 * k) * M /\ 2 * k \in Nat \ {0}
    BY <1>0
  <2>5. 2^(m + (i + 1)) = (2 * k) * M
    BY <2>1, <2>3, <2>4
  <2>6. \E j \in Nat \ {0} : 2^(m + (i + 1)) = j * M
    BY <2>4, <2>5
  <2>7. i + 1 \in Nat
    OBVIOUS
  <2> QED
    BY <2>6, <2>7 DEF M
<1> HIDE DEF S
<1>3. Nat \subseteq S
  BY <1>1, <1>2, NatSetInduction
<1>4. n - m \in Nat /\ m + (n - m) = n
  OBVIOUS
<1>5. n - m \in S
  BY <1>3, <1>4
<1>6. PICK k \in Nat \ {0} : 2^(m + (n - m)) = k * M
  BY <1>5 DEF S
<1> QED
  BY <1>4, <1>6
-----------------------------------------------------------------------------
\* The arithmetic of the compiler never leaves the machine word, whatever the
\* width of the word.
LEMMA PowerOfWord == 2^WordBits \in Nat \ {0} /\ WordBits \in Nat \ {0}
  BY WordBitsAssumption, PowersArePositive

LEMMA PowerBelowWord ==
  ASSUME NEW n \in 0 .. WordBits
  PROVE  2^n \in Nat \ {0} /\ 2^n <= 2^WordBits
<1> DEFINE P == 2^WordBits
           Q == 2^n
<1>1. P \in Nat \ {0} /\ Q \in Nat \ {0}
  BY PowerOfWord, PowersArePositive
<1>2. n \in Nat /\ WordBits \in Nat /\ n <= WordBits
  BY PowerOfWord
<1>3. PICK k \in Nat \ {0} : P = k * Q
  BY <1>2, PowerFactors
<1> HIDE DEF P, Q
<1>4. Q <= k * Q
  BY <1>1
<1> QED
  BY <1>1, <1>3, <1>4 DEF P, Q

LEMMA WrapIsWord ==
  ASSUME NEW n \in Int
  PROVE  Wrap(n) \in Word
<1> DEFINE P == 2^WordBits
<1>1. P \in Nat \ {0}
  BY PowerOfWord
<1> HIDE DEF P
<1>2. n % P \in 0 .. P - 1
  BY <1>1
<1> QED
  BY <1>2 DEF P, Wrap, Word

LEMMA NormalizeIsWord ==
  ASSUME NEW v \in Word, NEW ty, ty.bits \in 0 .. WordBits
  PROVE  normalize(v, ty) \in Word
<1> DEFINE P == 2^WordBits
           Q == 2^ty.bits
           low == v % Q
<1>1. P \in Nat \ {0} /\ Q \in Nat \ {0} /\ Q <= P
  BY PowerOfWord, PowerBelowWord
<1>2. v \in 0 .. P - 1
  BY DEF Word
<1>3. normalize(v, ty) \in {v, low, low + (P - Q)}
  BY DEF normalize
<1> HIDE DEF P, Q
<1>4. low \in 0 .. Q - 1
  BY <1>1, <1>2
<1> HIDE DEF low
<1>5. {v, low, low + (P - Q)} \subseteq 0 .. P - 1
  BY <1>1, <1>2, <1>4
<1> QED
  BY <1>3, <1>5 DEF P, Word

LEMMA ToSignedIsInt ==
  ASSUME NEW w \in Word
  PROVE  ToSigned(w) \in Int
<1>1. 2^WordBits \in Int
  BY PowerOfWord
<1> QED
  BY <1>1 DEF ToSigned, Word

LEMMA TruncIsInt ==
  ASSUME NEW x \in Int, NEW y \in Int, y # 0
  PROVE  TruncDiv(x, y) \in Int /\ TruncMod(x, y) \in Int
<1>1. Abs(x) \in Nat /\ Abs(y) \in Nat \ {0}
  BY DEF Abs
<1>2. Abs(x) \div Abs(y) \in Int
  BY <1>1
<1>3. TruncDiv(x, y) \in Int
  BY <1>2 DEF TruncDiv
<1>4. y * TruncDiv(x, y) \in Int
  BY <1>3
<1> QED
  BY <1>3, <1>4 DEF TruncMod

\* A quotient is no larger than what is divided.
LEMMA QuotientIsWord ==
  ASSUME NEW a \in Word, NEW d \in Nat \ {0}
  PROVE  a \div d \in Word
<1> DEFINE P == 2^WordBits
<1>1. P \in Nat \ {0} /\ a \in 0 .. P - 1
  BY PowerOfWord DEF Word
<1> HIDE DEF P
<1> DEFINE q == a \div d
<1>2. q \in Int /\ d * q <= a /\ a < d * q + d
  BY <1>1
<1> HIDE DEF q
<1>3. q >= 0
  <2>1. SUFFICES ASSUME q <= -1 PROVE FALSE
    BY <1>2
  <2>2. d * q <= d * (-1)
    BY <1>2, <2>1
  <2> QED
    BY <1>1, <1>2, <2>2
<1>4. q <= d * q
  BY <1>2, <1>3
<1>5. q \in 0 .. P - 1
  BY <1>1, <1>2, <1>3, <1>4
<1> QED
  BY <1>5 DEF P, q, Word

\* Folding never computes anything but a word, or refuses.
LEMMA EvalArithIsWord ==
  ASSUME NEW op \in Arithmetic, NEW ty, ty.bits \in 0 .. WordBits,
         NEW a \in Word, NEW b \in Word
  PROVE  eval_arith(op, ty, a, b) \in Word \cup {None}
<1> SUFFICES ASSUME ~ NotFolded(op, ty, a, b)
             PROVE  eval_arith(op, ty, a, b) \in Word
  BY DEF eval_arith
<1>1. a \in Nat /\ b \in Nat /\ ToSigned(a) \in Int /\ ToSigned(b) \in Int
  BY PowerOfWord, ToSignedIsInt DEF Word
<1>2. CASE op \in {"add", "sub", "mul"}
  <2>1. Wrap(a + b) \in Word /\ Wrap(a - b) \in Word /\ Wrap(a * b) \in Word
    <3>1. a + b \in Int /\ a - b \in Int /\ a * b \in Int
      BY <1>1
    <3> QED
      BY <3>1, WrapIsWord
  <2>2. /\ normalize(Wrap(a + b), ty) \in Word /\ normalize(Wrap(a - b), ty) \in Word
        /\ normalize(Wrap(a * b), ty) \in Word
    BY <2>1, NormalizeIsWord
  <2> QED
    BY <1>2, <2>2 DEF eval_arith
<1>3. CASE op \in {"udiv", "umod"}
  <2>1. b \in Nat \ {0}
    BY <1>1, <1>3 DEF NotFolded
  <2>2. a \div b \in Word
    BY <2>1, QuotientIsWord
  <2>3. a % b \in Word
    <3>1. a % b \in 0 .. b - 1
      BY <1>1, <2>1
    <3>2. b \in 0 .. 2^WordBits - 1 /\ 2^WordBits \in Nat
      BY PowerOfWord DEF Word
    <3> HIDE DEF Word
    <3>3. \A r \in 0 .. b - 1 : r \in 0 .. 2^WordBits - 1
      BY <1>1, <3>2
    <3> QED
      BY <3>1, <3>3 DEF Word
  <2>4. normalize(a \div b, ty) \in Word /\ normalize(a % b, ty) \in Word
    BY <2>2, <2>3, NormalizeIsWord
  <2> QED
    BY <1>3, <2>4 DEF eval_arith
<1>4. CASE op \in {"sdiv", "smod"}
  <2>1. ToSigned(b) # 0
    <3>1. b # 0
      BY <1>4 DEF NotFolded
    <3>2. b < 2^WordBits /\ 2^WordBits \in Nat
      BY PowerOfWord DEF Word
    <3> QED
      BY <1>1, <3>1, <3>2 DEF ToSigned
  <2>2. /\ TruncDiv(ToSigned(a), ToSigned(b)) \in Int
        /\ TruncMod(ToSigned(a), ToSigned(b)) \in Int
    BY <1>1, <2>1, TruncIsInt
  <2>3. /\ normalize(Wrap(TruncDiv(ToSigned(a), ToSigned(b))), ty) \in Word
        /\ normalize(Wrap(TruncMod(ToSigned(a), ToSigned(b))), ty) \in Word
    BY <2>2, WrapIsWord, NormalizeIsWord
  <2> QED
    BY <1>4, <2>3 DEF eval_arith
<1>5. CASE op \in {"shl", "shr", "sar"}
  <2>1. b \in 0 .. WordBits
    BY <1>1, <1>5, PowerOfWord DEF NotFolded
  <2>2. 2^b \in Nat \ {0}
    BY <2>1, PowerBelowWord
  <2>3. a * 2^b \in Int /\ ToSigned(a) \div 2^b \in Int
    BY <1>1, <2>2
  <2>4. /\ normalize(Wrap(a * 2^b), ty) \in Word
        /\ a \div 2^b \in Word /\ Wrap(ToSigned(a) \div 2^b) \in Word
    BY <2>2, <2>3, WrapIsWord, NormalizeIsWord, QuotientIsWord
  <2> QED
    BY <1>5, <2>4 DEF eval_arith
<1> QED
  BY <1>2, <1>3, <1>4, <1>5 DEF Arithmetic

LEMMA EvalNegIsWord ==
  ASSUME NEW ty, ty.bits \in 0 .. WordBits, NEW a \in Word
  PROVE  eval_neg(ty, a) \in Word
<1>1. 0 - a \in Int
  BY DEF Word
<1> QED
  BY <1>1, WrapIsWord, NormalizeIsWord DEF eval_neg

-----------------------------------------------------------------------------
\* Two integers are the same modulo q when they differ by a multiple of q.
SameModulo(q, m, n) == \E k \in Int : m = n + k * q

LEMMA SameReflexive ==
  ASSUME NEW q \in Int, NEW n \in Int
  PROVE  SameModulo(q, n, n)
<1>1. n = n + 0 * q
  OBVIOUS
<1> QED
  BY <1>1 DEF SameModulo

LEMMA SameSymmetric ==
  ASSUME NEW q \in Int, NEW m \in Int, NEW n \in Int, SameModulo(q, m, n)
  PROVE  SameModulo(q, n, m)
<1>1. PICK k \in Int : m = n + k * q
  BY DEF SameModulo
<1>2. n = m + (-k) * q /\ -k \in Int
  BY <1>1
<1> QED
  BY <1>2 DEF SameModulo

LEMMA SameTransitive ==
  ASSUME NEW q \in Int, NEW m \in Int, NEW n \in Int, NEW p \in Int,
         SameModulo(q, m, n), SameModulo(q, n, p)
  PROVE  SameModulo(q, m, p)
<1>1. PICK k \in Int : m = n + k * q
  BY DEF SameModulo
<1>2. PICK l \in Int : n = p + l * q
  BY DEF SameModulo
<1>3. m = p + (k + l) * q /\ k + l \in Int
  BY <1>1, <1>2
<1> QED
  BY <1>3 DEF SameModulo

LEMMA SameOfMultiple ==
  ASSUME NEW q \in Int, NEW f \in Int, NEW m \in Int, NEW n \in Int,
         SameModulo(f * q, m, n)
  PROVE  SameModulo(q, m, n)
<1>1. PICK k \in Int : m = n + k * (f * q)
  BY DEF SameModulo
<1>2. m = n + (k * f) * q /\ k * f \in Int
  BY <1>1
<1> QED
  BY <1>2 DEF SameModulo

LEMMA SameArithmetic ==
  ASSUME NEW q \in Int,
         NEW a \in Int, NEW x \in Int, SameModulo(q, a, x),
         NEW b \in Int, NEW y \in Int, SameModulo(q, b, y)
  PROVE  /\ SameModulo(q, a + b, x + y)
         /\ SameModulo(q, a - b, x - y)
         /\ SameModulo(q, a * b, x * y)
<1>1. PICK k \in Int : a = x + k * q
  BY DEF SameModulo
<1>2. PICK l \in Int : b = y + l * q
  BY DEF SameModulo
<1>3. a + b = (x + y) + (k + l) * q /\ k + l \in Int
  BY <1>1, <1>2
<1>4. a - b = (x - y) + (k - l) * q /\ k - l \in Int
  BY <1>1, <1>2
<1>5. a * b = x * y + (x * l + k * y + k * q * l) * q
  BY <1>1, <1>2
<1>6. x * l + k * y + k * q * l \in Int
  OBVIOUS
<1> QED
  BY <1>3, <1>4, <1>5, <1>6 DEF SameModulo

\* Two integers of one interval of q that are the same modulo q are equal.
LEMMA SameIsEqual ==
  ASSUME NEW q \in Nat \ {0}, NEW l \in Int,
         NEW m \in l .. l + q - 1, NEW n \in l .. l + q - 1, SameModulo(q, m, n)
  PROVE  m = n
<1>1. PICK k \in Int : m = n + k * q
  BY DEF SameModulo
<1>2. CASE k >= 1
  <2>1. k * q >= q
    BY <1>2
  <2> QED
    BY <1>1, <2>1
<1>3. CASE k <= -1
  <2>1. k * q <= -q
    BY <1>3
  <2> QED
    BY <1>1, <2>1
<1>4. CASE k = 0
  BY <1>1, <1>4
<1> QED
  BY <1>2, <1>3, <1>4

LEMMA RemainderIsSame ==
  ASSUME NEW q \in Nat \ {0}, NEW n \in Int
  PROVE  n % q \in 0 .. q - 1 /\ SameModulo(q, n % q, n)
<1> DEFINE r == n % q
           d == n \div q
<1>1. r \in 0 .. q - 1 /\ d \in Int /\ n = q * d + r
  OBVIOUS
<1> HIDE DEF r, d
<1>2. r = n + (-d) * q /\ -d \in Int
  BY <1>1
<1>3. SameModulo(q, r, n)
  BY <1>2 DEF SameModulo
<1> QED
  BY <1>1, <1>3 DEF r

LEMMA SameIsCongruent ==
  ASSUME NEW q \in Nat \ {0}, NEW m \in Int, NEW n \in Int, SameModulo(q, m, n)
  PROVE  m % q = n % q
<1> DEFINE r == m % q
           s == n % q
<1>1. r \in 0 .. q - 1 /\ SameModulo(q, r, m)
  BY RemainderIsSame
<1>2. s \in 0 .. q - 1 /\ SameModulo(q, s, n)
  BY RemainderIsSame
<1> HIDE DEF r, s
<1>3. r \in Int /\ s \in Int /\ q \in Int /\ r \in 0 .. 0 + q - 1 /\ s \in 0 .. 0 + q - 1
  BY <1>1, <1>2
<1>4. SameModulo(q, r, n)
  BY <1>1, <1>3, SameTransitive
<1>5. SameModulo(q, n, s)
  BY <1>2, <1>3, SameSymmetric
<1>6. SameModulo(q, r, s)
  BY <1>3, <1>4, <1>5, SameTransitive
<1>7. r = s
  BY <1>3, <1>6, SameIsEqual, 0 \in Int
<1> QED
  BY <1>7 DEF r, s

LEMMA RemainderUnique ==
  ASSUME NEW q \in Nat \ {0}, NEW r \in 0 .. q - 1, NEW k \in Int
  PROVE  (r + k * q) % q = r
<1>1. k * q \in Int /\ r \in Int /\ r + k * q \in Int
  OBVIOUS
<1>2. SameModulo(q, r + k * q, r)
  BY DEF SameModulo
<1>3. r % q = r
  OBVIOUS
<1> QED
  BY <1>1, <1>2, <1>3, SameIsCongruent

-----------------------------------------------------------------------------
\* The size of the word, and the size of a type, which divides it.
WordSize == 2^WordBits
HalfWord == 2^(WordBits - 1)
Size(t) == 2^t.bits
Half(t) == 2^(t.bits - 1)

LEMMA SizesOfWord ==
  /\ WordSize \in Nat \ {0} /\ HalfWord \in Nat \ {0}
  /\ WordSize = 2 * HalfWord
  /\ Word = 0 .. WordSize - 1
<1>1. WordBits - 1 \in Nat /\ (WordBits - 1) + 1 = WordBits
  BY WordBitsAssumption
<1>2. 2^((WordBits - 1) + 1) = 2 * 2^(WordBits - 1)
  BY <1>1, PowerDoubles
<1>3. HalfWord \in Nat \ {0} /\ WordSize \in Nat \ {0}
  BY <1>1, PowersArePositive, PowerOfWord DEF HalfWord, WordSize
<1> QED
  BY <1>1, <1>2, <1>3 DEF WordSize, HalfWord, Word

LEMMA SizesOfBits ==
  ASSUME NEW t, t.bits \in 1 .. WordBits
  PROVE  /\ Size(t) \in Nat \ {0} /\ Half(t) \in Nat \ {0}
         /\ Size(t) = 2 * Half(t)
         /\ Half(t) <= HalfWord
         /\ t.bits < WordBits => Size(t) <= HalfWord
         /\ t.bits = WordBits => Size(t) = WordSize
         /\ \E f \in Nat \ {0} : WordSize = f * Size(t)
<1> DEFINE n == t.bits
<1>1. n \in 1 .. WordBits /\ WordBits \in Nat \ {0}
  BY WordBitsAssumption
<1> HIDE DEF n
<1>2. /\ n \in Nat /\ n - 1 \in Nat /\ (n - 1) + 1 = n
      /\ WordBits - 1 \in Nat /\ n - 1 <= WordBits - 1
  BY <1>1
<1>3. 2^((n - 1) + 1) = 2 * 2^(n - 1)
  BY <1>2, PowerDoubles
<1>4. 2^n \in Nat \ {0} /\ 2^(n - 1) \in Nat \ {0} /\ 2^n = 2 * 2^(n - 1)
  BY <1>2, <1>3, PowersArePositive
<1>5. \A m \in Nat, k \in Nat : m <= k => 2^m <= 2^k
  <2> SUFFICES ASSUME NEW m \in Nat, NEW k \in Nat, m <= k PROVE 2^m <= 2^k
    OBVIOUS
  <2> DEFINE x == 2^m
             y == 2^k
  <2>1. x \in Nat \ {0} /\ y \in Nat \ {0}
    BY PowersArePositive
  <2>2. PICK f \in Nat \ {0} : y = f * x
    BY PowerFactors
  <2> HIDE DEF x, y
  <2>3. x <= f * x
    BY <2>1
  <2> QED
    BY <2>2, <2>3 DEF x, y
<1>6. 2^(n - 1) <= 2^(WordBits - 1)
  BY <1>2, <1>5
<1>7. n < WordBits => 2^n <= 2^(WordBits - 1)
  <2> SUFFICES ASSUME n < WordBits PROVE 2^n <= 2^(WordBits - 1)
    OBVIOUS
  <2>1. n <= WordBits - 1
    BY <1>1
  <2> QED
    BY <1>2, <1>5, <2>1
<1>8. \E f \in Nat \ {0} : 2^WordBits = f * 2^n
  BY <1>1, <1>2, PowerFactors
<1> QED
  BY <1>1, <1>4, <1>6, <1>7, <1>8 DEF Size, Half, WordSize, HalfWord, n

\* The words that normalize() leaves as they are: those of the integers that
\* the type has room for.
LEMMA NormalWords ==
  ASSUME NEW w \in Word, NEW ty, ty.bits \in 1 .. WordBits
  PROVE  /\ is_signed_integer_ty(ty) =>
              (normalize(w, ty) = w <=> ToSigned(w) \in -Half(ty) .. Half(ty) - 1)
         /\ ~is_signed_integer_ty(ty) => (normalize(w, ty) = w <=> w \in 0 .. Size(ty) - 1)
<1> DEFINE P == WordSize
           HW == HalfWord
           Q == Size(ty)
           H == Half(ty)
           low == w % Q
           n == normalize(w, ty)
<1>1. /\ P \in Nat \ {0} /\ HW \in Nat \ {0} /\ P = 2 * HW
      /\ Q \in Nat \ {0} /\ H \in Nat \ {0} /\ Q = 2 * H /\ H <= HW
      /\ w \in 0 .. P - 1 /\ w \in Int
  BY SizesOfWord, SizesOfBits
<1>2. /\ ty.bits >= WordBits => n = w /\ Q = P
      /\ ty.bits < WordBits => Q <= HW
      /\ ty.bits < WordBits /\ is_signed_integer_ty(ty) /\ low >= H => n = low + (P - Q)
      /\ ty.bits < WordBits /\ ~(is_signed_integer_ty(ty) /\ low >= H) => n = low
      /\ ty.bits >= WordBits \/ ty.bits < WordBits
  BY SizesOfBits, WordBitsAssumption DEF normalize, Size, Half, WordSize
<1>3. ToSigned(w) = IF w >= HW THEN w - P ELSE w
  BY DEF ToSigned, HalfWord, WordSize
<1>4. low \in 0 .. Q - 1 /\ (w \in 0 .. Q - 1 => low = w)
  BY <1>1
<1>5. PICK f \in Nat \ {0} : P = f * Q
  BY SizesOfBits
<1>6. w \in P - H .. P - 1 => low = w - (P - Q)
  <2> SUFFICES ASSUME w \in P - H .. P - 1 PROVE low = w - (P - Q)
    OBVIOUS
  <2> DEFINE r == w - (P - Q)
  <2>1. r \in 0 .. Q - 1 /\ f - 1 \in Int
    BY <1>1
  <2>2. w = r + (f - 1) * Q
    BY <1>1, <1>5
  <2> HIDE DEF r, Q
  <2>3. (r + (f - 1) * Q) % Q = r
    BY <1>1, <2>1, RemainderUnique
  <2> QED
    BY <2>2, <2>3 DEF r
<1> HIDE DEF P, HW, Q, H, low, n
<1>7. CASE ty.bits >= WordBits
  <2>1. H = HW /\ n = w /\ Q = P
    BY <1>1, <1>2, <1>7
  <2> QED
    BY <1>1, <1>3, <2>1 DEF n, H, Q
<1>8. CASE ty.bits < WordBits /\ is_signed_integer_ty(ty)
  <2>1. n = w <=> ToSigned(w) \in -H .. H - 1
    BY <1>1, <1>2, <1>3, <1>4, <1>6, <1>8
  <2> QED
    BY <1>8, <2>1 DEF n, H
<1>9. CASE ty.bits < WordBits /\ ~is_signed_integer_ty(ty)
  <2>1. n = w <=> w \in 0 .. Q - 1
    BY <1>1, <1>2, <1>4, <1>9
  <2> QED
    BY <1>9, <2>1 DEF n, Q
<1> QED
  BY <1>2, <1>7, <1>8, <1>9

\* What normalize() makes is left as it is.
LEMMA NormalizeTwice ==
  ASSUME NEW v \in Word, NEW ty, ty.bits \in 1 .. WordBits
  PROVE  normalize(normalize(v, ty), ty) = normalize(v, ty)
<1> DEFINE P == WordSize
           HW == HalfWord
           Q == Size(ty)
           H == Half(ty)
           low == v % Q
           n == normalize(v, ty)
<1>1. /\ P \in Nat \ {0} /\ HW \in Nat \ {0} /\ P = 2 * HW
      /\ Q \in Nat \ {0} /\ H \in Nat \ {0} /\ Q = 2 * H /\ H <= HW
      /\ v \in 0 .. P - 1 /\ v \in Int
  BY SizesOfWord, SizesOfBits
<1>2. /\ ty.bits >= WordBits => n = v
      /\ ty.bits < WordBits => Q <= HW
      /\ ty.bits < WordBits /\ is_signed_integer_ty(ty) /\ low >= H => n = low + (P - Q)
      /\ ty.bits < WordBits /\ ~(is_signed_integer_ty(ty) /\ low >= H) => n = low
      /\ ty.bits >= WordBits \/ ty.bits < WordBits
  BY SizesOfBits, WordBitsAssumption DEF normalize, Size, Half, WordSize
<1>3. n \in Word
  BY NormalizeIsWord
<1>4. ToSigned(n) = IF n >= HW THEN n - P ELSE n
  BY DEF ToSigned, HalfWord, WordSize
<1>5. low \in 0 .. Q - 1
  BY <1>1
<1>6. /\ is_signed_integer_ty(ty) => (normalize(n, ty) = n <=> ToSigned(n) \in -H .. H - 1)
      /\ ~is_signed_integer_ty(ty) => (normalize(n, ty) = n <=> n \in 0 .. Q - 1)
  BY <1>3, NormalWords
<1> HIDE DEF P, HW, Q, H, low, n
<1>7. CASE ty.bits >= WordBits
  <2>1. n = v
    BY <1>2, <1>7
  <2> QED
    BY <2>1 DEF n
<1>8. CASE ty.bits < WordBits /\ is_signed_integer_ty(ty)
  <2>1. ToSigned(n) \in -H .. H - 1
    BY <1>1, <1>2, <1>4, <1>5, <1>8
  <2> QED
    BY <1>6, <1>8, <2>1 DEF n
<1>9. CASE ty.bits < WordBits /\ ~is_signed_integer_ty(ty)
  <2>1. n = low
    BY <1>2, <1>9
  <2>2. n \in 0 .. Q - 1
    BY <1>5, <2>1
  <2> QED
    BY <1>6, <1>9, <2>2 DEF n
<1> QED
  BY <1>2, <1>7, <1>8, <1>9

\* Division of a number of an interval around zero stays in the interval.
LEMMA QuotientStays ==
  ASSUME NEW l \in Int, l <= 0, NEW h \in Nat \ {0}, NEW x \in l .. h - 1,
         NEW d \in Nat \ {0}
  PROVE  x \div d \in l .. h - 1
<1> DEFINE q == x \div d
<1>1. q \in Int /\ d * q <= x /\ x < d * q + d /\ x \in Int
  OBVIOUS
<1> HIDE DEF q
<1>2. CASE x >= 0
  <2>1. q >= 0
    <3>1. SUFFICES ASSUME q <= -1 PROVE FALSE
      BY <1>1
    <3>2. d * q <= d * (-1)
      BY <1>1, <3>1
    <3> QED
      BY <1>1, <1>2, <3>2
  <2>2. q <= d * q
    BY <1>1, <2>1
  <2>3. q \in l .. h - 1
    BY <1>1, <2>1, <2>2
  <2> QED
    BY <2>3 DEF q
<1>3. CASE x < 0
  <2>1. q <= -1
    <3>1. SUFFICES ASSUME q >= 0 PROVE FALSE
      BY <1>1
    <3>2. d * q >= 0
      BY <1>1, <3>1
    <3> QED
      BY <1>1, <1>3, <3>2
  <2>2. (d - 1) * (q + 1) <= 0
    <3>1. d - 1 >= 0 /\ q + 1 <= 0
      BY <1>1, <2>1
    <3> QED
      BY <1>1, <3>1
  <2>3. d * q + d - q - 1 <= 0
    BY <1>1, <2>2
  <2>4. q >= x
    BY <1>1, <2>3
  <2>5. q \in l .. h - 1
    BY <1>1, <2>1, <2>4
  <2> QED
    BY <2>5 DEF q
<1> QED
  BY <1>1, <1>2, <1>3

\* What folding computes is left as it is, if the operand that is shifted is:
\* the shifts alone are not normalised (int_semantics.hpp 79-88).
LEMMA FoldIsNormal ==
  ASSUME NEW op \in Arithmetic, NEW ty, ty.bits \in 1 .. WordBits,
         op = "shr" => ~is_signed_integer_ty(ty),
         NEW a \in Word, NEW b \in Word, normalize(a, ty) = a,
         ~ NotFolded(op, ty, a, b)
  PROVE  normalize(eval_arith(op, ty, a, b), ty) = eval_arith(op, ty, a, b)
<1> DEFINE Normal(w) == w \in Word /\ normalize(w, ty) = w
<1>1. a \in Nat /\ b \in Nat /\ ToSigned(a) \in Int /\ ToSigned(b) \in Int
  BY PowerOfWord, ToSignedIsInt DEF Word
<1>2. CASE op \in {"add", "sub", "mul"}
  <2>1. Wrap(a + b) \in Word /\ Wrap(a - b) \in Word /\ Wrap(a * b) \in Word
    <3>1. a + b \in Int /\ a - b \in Int /\ a * b \in Int
      BY <1>1
    <3> QED
      BY <3>1, WrapIsWord
  <2> QED
    BY <1>2, <2>1, NormalizeTwice DEF eval_arith
<1>3. CASE op \in {"udiv", "umod"}
  <2>1. b \in Nat \ {0}
    BY <1>1, <1>3 DEF NotFolded
  <2>2. a \div b \in Word
    BY <2>1, QuotientIsWord
  <2>3. a % b \in Word
    <3>1. a % b \in 0 .. b - 1
      BY <1>1, <2>1
    <3>2. b \in 0 .. 2^WordBits - 1 /\ 2^WordBits \in Nat
      BY PowerOfWord DEF Word
    <3> HIDE DEF Word
    <3>3. \A r \in 0 .. b - 1 : r \in 0 .. 2^WordBits - 1
      BY <1>1, <3>2
    <3> QED
      BY <3>1, <3>3 DEF Word
  <2> QED
    BY <1>3, <2>2, <2>3, NormalizeTwice DEF eval_arith
<1>4. CASE op \in {"sdiv", "smod"}
  <2>1. ToSigned(b) # 0
    <3>1. b # 0
      BY <1>4 DEF NotFolded
    <3>2. b < 2^WordBits /\ 2^WordBits \in Nat
      BY PowerOfWord DEF Word
    <3> QED
      BY <1>1, <3>1, <3>2 DEF ToSigned
  <2>2. /\ TruncDiv(ToSigned(a), ToSigned(b)) \in Int
        /\ TruncMod(ToSigned(a), ToSigned(b)) \in Int
    BY <1>1, <2>1, TruncIsInt
  <2>3. /\ Wrap(TruncDiv(ToSigned(a), ToSigned(b))) \in Word
        /\ Wrap(TruncMod(ToSigned(a), ToSigned(b))) \in Word
    BY <2>2, WrapIsWord
  <2> QED
    BY <1>4, <2>3, NormalizeTwice DEF eval_arith
<1>5. CASE op \in {"shl", "shr", "sar"}
  <2>1. b \in 0 .. WordBits
    BY <1>1, <1>5, PowerOfWord DEF NotFolded
  <2>2. 2^b \in Nat \ {0}
    BY <2>1, PowerBelowWord
  <2>3. CASE op = "shl"
    <3>1. a * 2^b \in Int
      BY <1>1, <2>2
    <3> QED
      BY <2>3, <3>1, WrapIsWord, NormalizeTwice DEF eval_arith
  <2>4. CASE op = "shr"
    <3> DEFINE q == a \div 2^b
    <3>1. ~is_signed_integer_ty(ty) /\ a \in 0 .. Size(ty) - 1 /\ Size(ty) \in Nat \ {0}
      BY <2>4, NormalWords, SizesOfBits
    <3>2. q \in 0 .. Size(ty) - 1 /\ q \in Word
      <4>1. 0 \in Int /\ 0 <= 0
        OBVIOUS
      <4>2. q \in 0 .. Size(ty) - 1
        BY <2>2, <3>1, <4>1, QuotientStays
      <4> QED
        BY <2>2, <4>2, QuotientIsWord
    <3>3. normalize(q, ty) = q
      BY <3>1, <3>2, NormalWords
    <3> QED
      BY <2>4, <3>3 DEF eval_arith
  <2>5. CASE op = "sar"
    <3> DEFINE s == ToSigned(a)
               q == s \div 2^b
               w == Wrap(q)
               P == WordSize
               HW == HalfWord
               Q == Size(ty)
               H == Half(ty)
    <3>1. /\ P \in Nat \ {0} /\ HW \in Nat \ {0} /\ P = 2 * HW
          /\ Q \in Nat \ {0} /\ H \in Nat \ {0} /\ Q = 2 * H /\ H <= HW
          /\ a \in 0 .. P - 1
          /\ Q <= HW \/ Q = P
      BY SizesOfWord, SizesOfBits
    <3>2. \A v \in Word : ToSigned(v) = IF v >= HW THEN v - P ELSE v
      BY DEF ToSigned, HalfWord, WordSize
    <3>3. q \in Int /\ w \in Word
      BY <1>1, <2>2, WrapIsWord
    <3>4. \A l \in Int, h \in Nat \ {0} : l <= 0 /\ s \in l .. h - 1 => q \in l .. h - 1
      BY <2>2, QuotientStays
    <3>5. w = IF q < 0 THEN q + P ELSE q
      <4> HIDE DEF P, q, s, w
      <4>1. s \in -HW .. HW - 1
        BY <3>1, <3>2 DEF s
      <4>2. q \in -HW .. HW - 1
        BY <3>1, <3>4, <4>1
      <4>3. CASE q >= 0
        <5>1. q \in 0 .. P - 1
          BY <3>1, <4>2, <4>3
        <5>2. q % P = q
          BY <3>1, <5>1
        <5> QED
          BY <3>3, <4>3, <5>2 DEF Wrap, P, WordSize, w
      <4>4. CASE q < 0
        <5> DEFINE r == q + P
        <5>1. r \in 0 .. P - 1 /\ q = r + (-1) * P
          BY <3>1, <4>2, <4>4
        <5> HIDE DEF r
        <5>2. (r + (-1) * P) % P = r
          BY <3>1, <5>1, RemainderUnique
        <5>3. q % P = r
          BY <5>1, <5>2
        <5> QED
          BY <3>3, <4>4, <5>3 DEF Wrap, P, WordSize, r, w
      <4>5. q >= 0 \/ q < 0
        BY <3>1, <4>2
      <4> QED
        BY <4>3, <4>4, <4>5
    <3>6. normalize(w, ty) = w
      <4>1. CASE is_signed_integer_ty(ty)
        <5>1. s \in -H .. H - 1
          BY <4>1, NormalWords
        <5>2. q \in -H .. H - 1
          BY <3>1, <3>4, <5>1
        <5>3. ToSigned(w) = q
          <6> HIDE DEF w, q, s, P, HW, H, Q
          <6> QED
            BY <3>1, <3>2, <3>3, <3>5, <5>2
        <5> QED
          BY <3>3, <4>1, <5>2, <5>3, NormalWords
      <4>2. CASE ~is_signed_integer_ty(ty) /\ Q <= HW
        <5>1. a \in 0 .. Q - 1
          BY <4>2, NormalWords
        <5>2. s = a
          <6> HIDE DEF s, P, HW, H, Q
          <6>1. s = IF a >= HW THEN a - P ELSE a
            BY <3>2 DEF s
          <6> QED
            BY <3>1, <4>2, <5>1, <6>1
        <5>3. q \in 0 .. Q - 1
          BY <3>1, <3>4, <5>1, <5>2
        <5>4. w = q
          BY <3>5, <5>3
        <5> QED
          BY <3>3, <4>2, <5>3, <5>4, NormalWords
      <4>3. CASE ~is_signed_integer_ty(ty) /\ Q = P
        <5>1. w \in 0 .. Q - 1
          BY <3>3, <4>3, SizesOfWord
        <5> QED
          BY <3>3, <4>3, <5>1, NormalWords
      <4> QED
        BY <3>1, <4>1, <4>2, <4>3
    <3> QED
      BY <2>5, <3>6 DEF eval_arith
  <2> QED
    BY <1>5, <2>3, <2>4, <2>5
<1> QED
  BY <1>2, <1>3, <1>4, <1>5 DEF Arithmetic

LEMMA NegationIsNormal ==
  ASSUME NEW ty, ty.bits \in 1 .. WordBits, NEW a \in Word
  PROVE  normalize(eval_neg(ty, a), ty) = eval_neg(ty, a)
<1>1. 0 - a \in Int
  BY DEF Word
<1> QED
  BY <1>1, WrapIsWord, NormalizeTwice DEF eval_neg

-----------------------------------------------------------------------------
\* A list without the elements that are not in S.
LEMMA FilteredSteps ==
  ASSUME NEW T, NEW list \in Seq(T), NEW S
  PROVE  \E taken :
           /\ Filtered(list, S) = taken[Len(list)]
           /\ taken[0] = <<>>
           /\ \A n \in 1 .. Len(list) :
                taken[n] = IF list[n] \in S THEN Append(taken[n - 1], list[n])
                           ELSE taken[n - 1]
<1> DEFINE E == {list[n] : n \in Nat}
           D == Seq(E)
           next(n, t) == IF list[n] \in S THEN Append(t, list[n]) ELSE t
           step == [x \in Nat \X D |-> next(x[1], x[2])]
           Taken(g) == g = [n \in Nat |-> IF n = 0 THEN <<>>
                                          ELSE IF list[n] \in S THEN Append(g[n - 1], list[n])
                                          ELSE g[n - 1]]
<1>1. step \in [Nat \X D -> D]
  <2>1. ASSUME NEW n \in Nat, NEW t \in D PROVE next(n, t) \in D
    <3>1. list[n] \in E
      OBVIOUS
    <3> HIDE DEF E
    <3> QED
      BY <3>1
  <2> HIDE DEF next, D
  <2> QED
    BY <2>1
<1>2. <<>> \in D
  OBVIOUS
<1> HIDE DEF step, D
<1> DEFINE g == Recursion(<<>>, step)
<1>3. g \in [Nat -> D]
  BY <1>1, <1>2, RecursionFacts
<1>3a. g = [n \in Nat |-> IF n = 0 THEN <<>> ELSE step[<<n, g[n - 1]>>]]
  <2> DEFINE a == <<>>
  <2> HIDE DEF a
  <2>1. Recursion(a, step) =
          [n \in Nat |-> IF n = 0 THEN a ELSE step[<<n, Recursion(a, step)[n - 1]>>]]
    BY RecursionExists
  <2> QED
    BY <2>1 DEF a
<1> HIDE DEF g
<1>4. ASSUME NEW n \in Nat, n # 0 PROVE step[<<n, g[n - 1]>>] = next(n, g[n - 1])
  <2>1. n - 1 \in Nat
    BY <1>4
  <2>2. <<n, g[n - 1]>> \in Nat \X D
    BY <1>3, <2>1
  <2> HIDE DEF next
  <2> QED
    BY <2>2 DEF step
<1>5. Taken(g)
  BY <1>3a, <1>4
<1> DEFINE taken == CHOOSE h : Taken(h)
<1>6. Taken(taken)
  BY <1>5
<1>7. Filtered(list, S) = taken[Len(list)]
  BY DEF Filtered
<1> HIDE DEF taken
<1>8. /\ taken[0] = <<>>
      /\ \A n \in 1 .. Len(list) :
           taken[n] = IF list[n] \in S THEN Append(taken[n - 1], list[n]) ELSE taken[n - 1]
  <2>1. \A n \in 1 .. Len(list) : n \in Nat /\ n # 0
    OBVIOUS
  <2> QED
    BY <1>6, <2>1
<1> QED
  BY <1>7, <1>8

LEMMA FilteredFacts ==
  ASSUME NEW T, NEW list \in Seq(T), NEW S
  PROVE  /\ Filtered(list, S) \in Seq(T)
         /\ Range(Filtered(list, S)) = Range(list) \cap S
         /\ \A k \in 1 .. Len(Filtered(list, S)) - 1 :
              \E j \in 1 .. Len(list) - 1 : Filtered(list, S)[k] = list[j]
<1>1. PICK taken :
        /\ Filtered(list, S) = taken[Len(list)]
        /\ taken[0] = <<>>
        /\ \A n \in 1 .. Len(list) :
             taken[n] = IF list[n] \in S THEN Append(taken[n - 1], list[n]) ELSE taken[n - 1]
  BY FilteredSteps
<1> DEFINE upto(n) == {list[k] : k \in 1 .. n} \cap S
           N == {n \in Nat : n <= Len(list) => taken[n] \in Seq(T) /\ Range(taken[n]) = upto(n)}
<1>2. 0 \in N
  <2>1. Range(<<>>) = {}
    BY DEF Range
  <2>2. upto(0) = {}
    OBVIOUS
  <2>3. taken[0] \in Seq(T) /\ Range(taken[0]) = upto(0)
    <3> HIDE DEF upto
    <3>1. taken[0] = <<>>
      BY <1>1
    <3>2. <<>> \in Seq(T)
      OBVIOUS
    <3> QED
      BY <2>1, <2>2, <3>1, <3>2, Zenon
  <2> HIDE DEF upto
  <2> QED
    BY <2>3
<1>3. ASSUME NEW n \in Nat, n \in N PROVE n + 1 \in N
  <2> SUFFICES ASSUME n + 1 <= Len(list)
               PROVE  taken[n + 1] \in Seq(T) /\ Range(taken[n + 1]) = upto(n + 1)
    OBVIOUS
  <2>1. n + 1 \in 1 .. Len(list) /\ (n + 1) - 1 = n /\ list[n + 1] \in T
    OBVIOUS
  <2>2. taken[n] \in Seq(T) /\ Range(taken[n]) = upto(n)
    BY <1>3
  <2>3. taken[n + 1] = IF list[n + 1] \in S THEN Append(taken[n], list[n + 1]) ELSE taken[n]
    <3> DEFINE m == n + 1
    <3>1. m \in 1 .. Len(list) /\ m - 1 = n
      BY <2>1
    <3> HIDE DEF m
    <3>2. taken[m] = IF list[m] \in S THEN Append(taken[m - 1], list[m]) ELSE taken[m - 1]
      BY <1>1, <3>1
    <3> QED
      BY <3>1, <3>2 DEF m
  <2>4. upto(n + 1) = upto(n) \cup ({list[n + 1]} \cap S)
    <3>1. 1 .. n + 1 = (1 .. n) \cup {n + 1}
      OBVIOUS
    <3> QED
      BY <3>1, Zenon
  <2> HIDE DEF upto
  <2>5. CASE list[n + 1] \in S
    <3>1. Append(taken[n], list[n + 1]) \in Seq(T)
          /\ Range(Append(taken[n], list[n + 1])) = Range(taken[n]) \cup {list[n + 1]}
      BY <2>1, <2>2, RangeOfAppend
    <3>2. {list[n + 1]} \cap S = {list[n + 1]} /\ taken[n + 1] = Append(taken[n], list[n + 1])
      BY <2>3, <2>5
    <3> QED
      BY <2>2, <2>4, <3>1, <3>2
  <2>6. CASE list[n + 1] \notin S
    BY <2>2, <2>3, <2>4, <2>6
  <2> QED
    BY <2>5, <2>6
<1> HIDE DEF N
<1>4. Nat \subseteq N
  BY <1>2, <1>3, NatSetInduction
<1>5. ASSUME NEW n \in 0 .. Len(list)
      PROVE  taken[n] \in Seq(T) /\ Range(taken[n]) = upto(n)
  <2>1. n \in N /\ n <= Len(list)
    BY <1>4
  <2> QED
    BY <2>1 DEF N
<1>6. Len(list) \in Nat /\ Len(list) \in 0 .. Len(list)
  OBVIOUS
<1>7. Filtered(list, S) \in Seq(T) /\ Range(Filtered(list, S)) = upto(Len(list))
  BY <1>1, <1>5, <1>6
<1>8. upto(Len(list)) = Range(list) \cap S
  BY DEF Range
<1>9. ASSUME NEW k \in 1 .. Len(Filtered(list, S)) - 1
      PROVE  \E j \in 1 .. Len(list) - 1 : Filtered(list, S)[k] = list[j]
  <2> DEFINE L == Len(list)
             t == taken[L - 1]
  <2>1. L # 0
    <3>1. SUFFICES ASSUME L = 0 PROVE FALSE
      OBVIOUS
    <3>2. Filtered(list, S) = <<>>
      BY <1>1, <3>1
    <3> QED
      BY <3>2
  <2>2. L \in 1 .. L /\ L - 1 \in 0 .. L /\ list[L] \in T
    BY <2>1
  <2>3. t \in Seq(T) /\ Range(t) = upto(L - 1)
    BY <1>5, <2>2
  <2>4. taken[L] = IF list[L] \in S THEN Append(t, list[L]) ELSE t
    BY <1>1, <2>2
  <2> HIDE DEF t, upto
  <2>5. k \in DOMAIN t /\ Filtered(list, S)[k] = t[k]
    <3>1. CASE list[L] \in S
      <4>1. Filtered(list, S) = Append(t, list[L])
        BY <1>1, <2>4, <3>1
      <4>2. Len(Append(t, list[L])) = Len(t) + 1
        BY <2>2, <2>3
      <4>3. k \in 1 .. Len(t)
        BY <2>3, <4>1, <4>2
      <4> QED
        BY <2>2, <2>3, <4>1, <4>3
    <3>2. CASE list[L] \notin S
      <4>1. Filtered(list, S) = t
        BY <1>1, <2>4, <3>2
      <4> QED
        BY <2>3, <4>1
    <3> QED
      BY <3>1, <3>2
  <2>6. t[k] \in upto(L - 1)
    BY <2>3, <2>5 DEF Range
  <2> QED
    BY <2>5, <2>6 DEF upto
<1> QED
  BY <1>7, <1>8, <1>9

\* Nothing happens to a list all of whose elements stay.
LEMMA FilteredAll ==
  ASSUME NEW T, NEW list \in Seq(T), NEW S, Range(list) \subseteq S
  PROVE  Filtered(list, S) = list
<1>1. PICK taken :
        /\ Filtered(list, S) = taken[Len(list)]
        /\ taken[0] = <<>>
        /\ \A n \in 1 .. Len(list) :
             taken[n] = IF list[n] \in S THEN Append(taken[n - 1], list[n]) ELSE taken[n - 1]
  BY FilteredSteps
<1> DEFINE L == Len(list)
           IsStart(n) == /\ taken[n] \in Seq(T) /\ Len(taken[n]) = n
                         /\ \A k \in 1 .. n : taken[n][k] = list[k]
           N == {n \in Nat : n <= L => IsStart(n)}
<1>2. L \in Nat /\ list \in [1 .. L -> T] /\ \A k \in 1 .. L : list[k] \in S
  BY DEF Range
<1>3. 0 \in N
  <2>1. taken[0] = <<>> /\ <<>> \in Seq(T) /\ Len(<<>>) = 0
    BY <1>1
  <2>2. Len(taken[0]) = 0 /\ taken[0] \in Seq(T)
    BY <2>1
  <2> QED
    BY <2>2
<1>4. ASSUME NEW n \in Nat, n \in N PROVE n + 1 \in N
  <2> SUFFICES ASSUME n + 1 <= L PROVE IsStart(n + 1)
    OBVIOUS
  <2> DEFINE m == n + 1
             e == list[m]
  <2>1. m \in 1 .. L /\ m - 1 = n /\ e \in S /\ e \in T
    BY <1>2
  <2>2. IsStart(n)
    BY <1>2, <1>4
  <2> HIDE DEF m
  <2>3. taken[m] = Append(taken[n], e)
    BY <1>1, <2>1
  <2>4. Append(taken[n], e) \in Seq(T) /\ Len(Append(taken[n], e)) = n + 1
        /\ (\A k \in 1 .. n : Append(taken[n], e)[k] = taken[n][k])
        /\ Append(taken[n], e)[n + 1] = e
    BY <2>1, <2>2
  <2>5. \A k \in 1 .. n + 1 : k \in 1 .. n \/ k = n + 1
    OBVIOUS
  <2>6. \A k \in 1 .. n + 1 : Append(taken[n], e)[k] = list[k]
    BY <2>2, <2>4, <2>5 DEF m
  <2> QED
    BY <2>3, <2>4, <2>6 DEF m
<1> HIDE DEF N
<1>5. Nat \subseteq N
  BY <1>3, <1>4, NatSetInduction
<1>6. IsStart(L)
  BY <1>2, <1>5 DEF N
<1> HIDE DEF L
<1>7. /\ taken[L] \in Seq(T) /\ Len(taken[L]) = L
      /\ \A k \in 1 .. L : taken[L][k] = list[k]
  BY <1>6
<1>8. taken[L] \in [1 .. L -> T]
  BY <1>7
<1>9. taken[L] = list
  BY <1>2, <1>7, <1>8
<1> QED
  BY <1>1, <1>9 DEF L

LEMMA ConcatFacts ==
  ASSUME NEW T, NEW s \in Seq(T), NEW t \in Seq(T)
  PROVE  /\ s \o t \in Seq(T)
         /\ Range(s \o t) = Range(s) \cup Range(t)
         /\ \A k \in 1 .. Len(s \o t) - 1 :
              \/ k \in 1 .. Len(s) /\ (s \o t)[k] = s[k]
              \/ \E j \in 1 .. Len(t) - 1 : (s \o t)[k] = t[j]
<1> DEFINE r == s \o t
<1>1. /\ r \in Seq(T) /\ Len(r) = Len(s) + Len(t)
      /\ \A k \in 1 .. Len(s) : r[k] = s[k]
      /\ \A k \in 1 .. Len(t) : r[Len(s) + k] = t[k]
      /\ Len(s) \in Nat /\ Len(t) \in Nat
      /\ DOMAIN s = 1 .. Len(s) /\ DOMAIN t = 1 .. Len(t) /\ DOMAIN r = 1 .. Len(r)
  OBVIOUS
<1> HIDE DEF r
<1>2. ASSUME NEW k \in 1 .. Len(r), k \notin 1 .. Len(s)
      PROVE  /\ k - Len(s) \in 1 .. Len(t) /\ r[k] = t[k - Len(s)]
             /\ k \in 1 .. Len(r) - 1 => k - Len(s) \in 1 .. Len(t) - 1
  <2> DEFINE j == k - Len(s)
  <2>1. j \in 1 .. Len(t) /\ k = Len(s) + j /\ (k \in 1 .. Len(r) - 1 => j \in 1 .. Len(t) - 1)
    BY <1>1, <1>2
  <2> HIDE DEF j
  <2>2. r[k] = t[j]
    BY <1>1, <2>1
  <2> QED
    BY <2>1, <2>2 DEF j
<1>3. ASSUME NEW k \in 1 .. Len(r) - 1
      PROVE  \/ k \in 1 .. Len(s) /\ r[k] = s[k]
             \/ \E j \in 1 .. Len(t) - 1 : r[k] = t[j]
  <2>1. k \in 1 .. Len(r)
    BY <1>1
  <2>2. CASE k \in 1 .. Len(s)
    BY <1>1, <2>2
  <2>3. CASE k \notin 1 .. Len(s)
    BY <1>2, <1>3, <2>1, <2>3
  <2> QED
    BY <2>2, <2>3
<1>4. Range(r) \subseteq Range(s) \cup Range(t)
  <2>1. ASSUME NEW k \in 1 .. Len(r) PROVE r[k] \in Range(s) \cup Range(t)
    <3>1. CASE k \in 1 .. Len(s)
      BY <1>1, <3>1 DEF Range
    <3>2. CASE k \notin 1 .. Len(s)
      BY <1>1, <1>2, <2>1, <3>2 DEF Range
    <3> QED
      BY <3>1, <3>2
  <2> QED
    BY <1>1, <2>1 DEF Range
<1>5. Range(s) \subseteq Range(r)
  <2>1. \A k \in 1 .. Len(s) : k \in 1 .. Len(r)
    BY <1>1
  <2> QED
    BY <1>1, <2>1 DEF Range
<1>6. Range(t) \subseteq Range(r)
  <2>1. \A k \in 1 .. Len(t) : Len(s) + k \in 1 .. Len(r)
    BY <1>1
  <2> QED
    BY <1>1, <2>1 DEF Range
<1> QED
  BY <1>1, <1>3, <1>4, <1>5, <1>6 DEF r

-----------------------------------------------------------------------------
\* A list has no more elements than entries.
LEMMA RangeIsFinite ==
  ASSUME NEW T, NEW list \in Seq(T)
  PROVE  IsFiniteSet(Range(list)) /\ Cardinality(Range(list)) <= Len(list)
<1> DEFINE I == 1 .. Len(list)
           R == Range(list)
<1>1. list \in [I -> R]
  <2>1. DOMAIN list = I /\ list = [k \in I |-> list[k]]
    OBVIOUS
  <2> QED
    BY <2>1 DEF Range
<1>2. \A x \in R : \E k \in I : list[k] = x
  BY DEF Range
<1>3. Len(list) \in Nat
  OBVIOUS
<1> HIDE DEF R
<1>4. list \in Surjection(I, R)
  BY <1>1, <1>2, Fun_IsSurj
<1>5. IsFiniteSet(I) /\ Cardinality(I) = Len(list)
  <2>1. IsFiniteSet(I) /\ Cardinality(I) = IF 1 > Len(list) THEN 0 ELSE Len(list) - 1 + 1
    BY <1>3, FS_Interval
  <2>2. CASE Len(list) = 0
    BY <2>1, <2>2
  <2>3. CASE Len(list) > 0
    BY <1>3, <2>1, <2>3
  <2> QED
    BY <1>3, <2>2, <2>3
<1> HIDE DEF I
<1>6. IsFiniteSet(R) /\ Cardinality(R) <= Cardinality(I)
  BY <1>4, <1>5, FS_Surjection
<1> QED
  BY <1>5, <1>6 DEF R

\* The blocks at most one edge away from those of a set.
Grown(f, S) == S \cup UNION {Range(Succ(f, b)) : b \in S}

\* What the rewrites may rely on about the lists of blocks of a function.
ListsClosed(f) ==
  /\ f.order \in Seq(Blocks(f)) /\ f.entry \in Range(f.order)
  /\ \A b \in Range(f.order) : Range(Succ(f, b)) \subseteq Range(f.order)

LEMMA ReachableSteps ==
  ASSUME NEW f, ListsClosed(f)
  PROVE  \E reach \in [Nat -> SUBSET Range(f.order)] :
           /\ Reachable(f) = reach[Len(f.order)]
           /\ reach[0] = {f.entry}
           /\ \A n \in Nat : reach[n + 1] = Grown(f, reach[n])
<1> DEFINE D == SUBSET Range(f.order)
           step == [x \in Nat \X D |-> Grown(f, x[2])]
           a == {f.entry}
           g == Recursion(a, step)
           IsReach(h) == h = [n \in Nat |-> IF n = 0 THEN {f.entry}
                                            ELSE LET R == h[n - 1]
                                                 IN  R \cup UNION {Range(Succ(f, b)) : b \in R}]
<1>1. ASSUME NEW S \in D PROVE Grown(f, S) \in D
  BY DEF Grown, ListsClosed
<1>2. a \in D
  BY DEF ListsClosed
<1> HIDE DEF D
<1>3. step \in [Nat \X D -> D]
  BY <1>1
<1>4. \A n \in Nat, S \in D : step[<<n, S>>] = Grown(f, S)
  OBVIOUS
<1> HIDE DEF step, a
<1>5. /\ g \in [Nat -> D] /\ g[0] = a
      /\ \A n \in Nat : n # 0 => g[n] = step[<<n, g[n - 1]>>]
  <2>1. g \in [Nat -> D]
    BY <1>2, <1>3, RecursionFacts
  <2>2. g[0] = a
    BY <1>2, <1>3, RecursionFacts
  <2>3. g = [n \in Nat |-> IF n = 0 THEN a ELSE step[<<n, g[n - 1]>>]]
    BY RecursionExists
  <2> HIDE DEF g
  <2>4. ASSUME NEW n \in Nat, n # 0 PROVE g[n] = step[<<n, g[n - 1]>>]
    BY <2>3, <2>4
  <2> QED
    BY <2>1, <2>2, <2>4
<1> HIDE DEF g
<1>6. ASSUME NEW n \in Nat, n # 0 PROVE g[n] = Grown(f, g[n - 1])
  <2>1. n - 1 \in Nat /\ g[n - 1] \in D
    BY <1>5, <1>6
  <2>2. g[n] = step[<<n, g[n - 1]>>]
    BY <1>5, <1>6
  <2> QED
    BY <1>4, <2>1, <2>2
<1>7. IsReach(g)
  <2>1. g = [n \in Nat |-> g[n]]
    BY <1>5
  <2>2. ASSUME NEW n \in Nat
        PROVE  g[n] = IF n = 0 THEN {f.entry}
                      ELSE LET R == g[n - 1] IN R \cup UNION {Range(Succ(f, b)) : b \in R}
    BY <1>5, <1>6 DEF a, Grown
  <2> QED
    BY <2>1, <2>2
<1> DEFINE reach == CHOOSE h : IsReach(h)
<1>8. IsReach(reach)
  BY <1>7
<1>9. Reachable(f) = reach[Len(f.order)]
  BY DEF Reachable
<1> HIDE DEF reach
<1>10. /\ reach[0] = {f.entry}
       /\ \A n \in Nat : n # 0 => reach[n] = Grown(f, reach[n - 1])
       /\ DOMAIN reach = Nat /\ reach = [n \in Nat |-> reach[n]]
  BY <1>8 DEF Grown
<1>11. ASSUME NEW n \in Nat PROVE reach[n + 1] = Grown(f, reach[n])
  <2> DEFINE m == n + 1
  <2>1. m \in Nat /\ m # 0 /\ m - 1 = n
    OBVIOUS
  <2> HIDE DEF m
  <2>2. reach[m] = Grown(f, reach[m - 1])
    BY <1>10, <2>1
  <2> QED
    BY <2>1, <2>2 DEF m
<1> DEFINE N == {n \in Nat : reach[n] \in D}
<1>12. 0 \in N
  BY <1>2, <1>10 DEF a
<1>13. \A n \in Nat : n \in N => n + 1 \in N
  BY <1>1, <1>11
<1> HIDE DEF N
<1>14. Nat \subseteq N
  BY <1>12, <1>13, NatSetInduction
<1>15. reach \in [Nat -> D]
  <2>1. \A n \in Nat : reach[n] \in D
    BY <1>14 DEF N
  <2> QED
    BY <1>10, <2>1
<1> QED
  BY <1>9, <1>10, <1>11, <1>15 DEF D

\* Reachable() is the least set that holds the entry and every successor of a
\* block in it: so many steps as there are blocks are enough.
LEMMA ReachableFacts ==
  ASSUME NEW f, ListsClosed(f)
  PROVE  /\ f.entry \in Reachable(f)
         /\ Reachable(f) \subseteq Range(f.order)
         /\ \A b \in Reachable(f) : Range(Succ(f, b)) \subseteq Reachable(f)
<1>1. PICK reach \in [Nat -> SUBSET Range(f.order)] :
        /\ Reachable(f) = reach[Len(f.order)]
        /\ reach[0] = {f.entry}
        /\ \A n \in Nat : reach[n + 1] = Grown(f, reach[n])
  BY ReachableSteps
<1> DEFINE L == Len(f.order)
           O == Range(f.order)
           Small(n) == Grown(f, reach[n]) = reach[n] \/ Cardinality(reach[n]) >= n + 1
           N == {n \in Nat : Small(n) /\ f.entry \in reach[n]}
<1>2. L \in Nat /\ IsFiniteSet(O) /\ Cardinality(O) <= L /\ Cardinality(O) \in Nat
  BY RangeIsFinite, FS_CardinalityType DEF ListsClosed
<1>3. \A n \in Nat : /\ reach[n] \subseteq O /\ IsFiniteSet(reach[n])
                     /\ Cardinality(reach[n]) \in Nat /\ Cardinality(reach[n]) <= Cardinality(O)
  <2> SUFFICES ASSUME NEW n \in Nat
               PROVE  /\ reach[n] \subseteq O /\ IsFiniteSet(reach[n])
                      /\ Cardinality(reach[n]) \in Nat
                      /\ Cardinality(reach[n]) <= Cardinality(O)
    OBVIOUS
  <2>1. reach[n] \in SUBSET O
    BY <1>1
  <2> HIDE DEF O
  <2> QED
    BY <1>2, <2>1, FS_Subset, FS_CardinalityType
<1> HIDE DEF O
<1>4. 0 \in N
  <2>1. Cardinality(reach[0]) = 1 /\ f.entry \in reach[0]
    BY <1>1, FS_Singleton
  <2> QED
    BY <2>1
<1>5. ASSUME NEW n \in Nat, n \in N PROVE n + 1 \in N
  <2>1. /\ n + 1 \in Nat /\ reach[n + 1] = Grown(f, reach[n])
        /\ reach[n] \subseteq reach[n + 1] /\ f.entry \in reach[n]
    BY <1>1, <1>5 DEF Grown
  <2>2. CASE reach[n + 1] = reach[n]
    <3>1. Grown(f, reach[n + 1]) = reach[n + 1]
      BY <2>1, <2>2
    <3> QED
      BY <2>1, <3>1
  <2>3. CASE reach[n + 1] # reach[n]
    <3>1. Cardinality(reach[n]) >= n + 1
      BY <1>5, <2>1, <2>3
    <3>2. Cardinality(reach[n]) <= Cardinality(reach[n + 1])
          /\ Cardinality(reach[n]) # Cardinality(reach[n + 1])
      <4>1. reach[n] \in SUBSET reach[n + 1] /\ IsFiniteSet(reach[n + 1])
        BY <1>3, <2>1
      <4> QED
        BY <2>3, <4>1, FS_Subset
    <3>3. Cardinality(reach[n + 1]) >= (n + 1) + 1
      <4>1. Cardinality(reach[n]) \in Nat /\ Cardinality(reach[n + 1]) \in Nat
        BY <1>3, <2>1
      <4> QED
        BY <3>1, <3>2, <4>1
    <3> QED
      BY <2>1, <3>3
  <2> QED
    BY <2>2, <2>3
<1>6. L \in N
  <2> HIDE DEF N, L
  <2>1. Nat \subseteq N
    BY <1>4, <1>5, NatSetInduction
  <2> QED
    BY <1>2, <2>1
<1>7. Grown(f, reach[L]) = reach[L] /\ f.entry \in reach[L]
  <2>1. ~(Cardinality(reach[L]) >= L + 1)
    <3>1. L \in Nat /\ Cardinality(reach[L]) \in Nat /\ Cardinality(O) \in Nat
          /\ Cardinality(reach[L]) <= Cardinality(O) /\ Cardinality(O) <= L
      BY <1>2, <1>3
    <3> HIDE DEF L
    <3> QED
      BY <3>1
  <2> QED
    BY <1>6, <2>1
<1>8. Reachable(f) = reach[L] /\ reach[L] \subseteq O
  BY <1>1, <1>2, <1>3
<1>9. ASSUME NEW b \in Reachable(f) PROVE Range(Succ(f, b)) \subseteq Reachable(f)
  BY <1>7, <1>8, <1>9 DEF Grown
<1> QED
  BY <1>7, <1>8, <1>9 DEF O

LEMMA ReachableIsLeast ==
  ASSUME NEW f, ListsClosed(f), NEW X,
         f.entry \in X, \A b \in X : Range(Succ(f, b)) \subseteq X
  PROVE  Reachable(f) \subseteq X
<1>1. PICK reach \in [Nat -> SUBSET Range(f.order)] :
        /\ Reachable(f) = reach[Len(f.order)]
        /\ reach[0] = {f.entry}
        /\ \A n \in Nat : reach[n + 1] = Grown(f, reach[n])
  BY ReachableSteps
<1> DEFINE N == {n \in Nat : reach[n] \subseteq X}
<1>2. 0 \in N
  BY <1>1
<1>3. \A n \in Nat : n \in N => n + 1 \in N
  BY <1>1 DEF Grown
<1> HIDE DEF N
<1>4. Nat \subseteq N
  BY <1>2, <1>3, NatSetInduction
<1>5. Len(f.order) \in Nat
  BY DEF ListsClosed
<1> QED
  BY <1>1, <1>4, <1>5 DEF N

-----------------------------------------------------------------------------
\* The parts of a function.
LEMMA FunctionParts ==
  ASSUME NEW f, IsFunction(f)
  PROVE  /\ DOMAIN f = {"entry", "order", "block", "code", "users"}
         /\ f.entry \in Blocks(f) /\ f.order \in Seq(Blocks(f))
         /\ f.users \in [Instrs(f) -> Seq(Instrs(f))]
         /\ f.block \in [Blocks(f) -> [ins : Seq(Instrs(f)), succ : Seq(Blocks(f)),
                                       pred : Seq(Blocks(f))]]
         /\ \A b \in Blocks(f) : /\ Ins(f, b) \in Seq(Instrs(f))
                                 /\ Succ(f, b) \in Seq(Blocks(f))
                                 /\ Pred(f, b) \in Seq(Blocks(f))
         /\ Range(f.order) \subseteq Blocks(f)
         /\ \A i \in Instrs(f) : IsCode(f, i)
<1>1. /\ f.order \in Seq(Blocks(f))
      /\ f.block \in [Blocks(f) -> [ins : Seq(Instrs(f)), succ : Seq(Blocks(f)),
                                    pred : Seq(Blocks(f))]]
  BY DEF IsFunction, Blocks, Instrs
<1>2. Range(f.order) \subseteq Blocks(f)
  BY <1>1 DEF Range
<1>3. \A b \in Blocks(f) : /\ Ins(f, b) \in Seq(Instrs(f))
                           /\ Succ(f, b) \in Seq(Blocks(f))
                           /\ Pred(f, b) \in Seq(Blocks(f))
  BY <1>1 DEF Ins, Succ, Pred
<1> QED
  BY <1>1, <1>2, <1>3 DEF IsFunction, Blocks, Instrs

LEMMA ListsAreClosed ==
  ASSUME NEW f, IsFunction(f), Linked(f)
  PROVE  ListsClosed(f)
  BY FunctionParts DEF ListsClosed, Linked

\* What stands before the first element that goes stays where it is.
LEMMA FilteredPrefix ==
  ASSUME NEW T, NEW list \in Seq(T), NEW S, NEW n \in Nat,
         \A k \in 1 .. Len(list) : k < n => list[k] \in S
  PROVE  \A k \in 1 .. Len(Filtered(list, S)) :
           k < n => k <= Len(list) /\ Filtered(list, S)[k] = list[k]
<1>1. PICK taken :
        /\ Filtered(list, S) = taken[Len(list)]
        /\ taken[0] = <<>>
        /\ \A m \in 1 .. Len(list) :
             taken[m] = IF list[m] \in S THEN Append(taken[m - 1], list[m]) ELSE taken[m - 1]
  BY FilteredSteps
<1> DEFINE L == Len(list)
           IsStart(m) == /\ taken[m] \in Seq(T)
                         /\ m < n => Len(taken[m]) = m
                         /\ m >= n => Len(taken[m]) >= n - 1
                         /\ \A k \in 1 .. Len(taken[m]) :
                              k < n => k <= m /\ taken[m][k] = list[k]
           N == {m \in Nat : m <= L => IsStart(m)}
<1>2. L \in Nat /\ list \in [1 .. L -> T] /\ \A k \in 1 .. L : k < n => list[k] \in S
  OBVIOUS
<1>3. 0 \in N
  <2>1. taken[0] \in Seq(T) /\ Len(taken[0]) = 0
    BY <1>1
  <2>2. n = 0 \/ n >= 1
    OBVIOUS
  <2> QED
    BY <2>1, <2>2
<1>4. ASSUME NEW m \in Nat, m \in N PROVE m + 1 \in N
  <2> SUFFICES ASSUME m + 1 <= L PROVE IsStart(m + 1)
    OBVIOUS
  <2> DEFINE q == m + 1
             e == list[q]
             t == taken[m]
             l == Len(t)
  <2>1. q \in 1 .. L /\ q - 1 = m /\ e \in T /\ (q < n => e \in S)
    BY <1>2
  <2>2. IsStart(m)
    BY <1>2, <1>4
  <2>3. /\ t \in Seq(T) /\ l \in Nat
        /\ m < n => l = m
        /\ m >= n => l >= n - 1
        /\ \A k \in 1 .. l : k < n => k <= m /\ t[k] = list[k]
    BY <2>2
  <2> HIDE DEF q, t, N
  <2>4. CASE e \in S
    <3> DEFINE u == Append(t, e)
    <3>1. taken[q] = u
      BY <1>1, <2>1, <2>4 DEF t
    <3>2. /\ u \in Seq(T) /\ Len(u) = l + 1 /\ u[l + 1] = e
          /\ \A k \in 1 .. l : u[k] = t[k]
      BY <2>1, <2>3
    <3> HIDE DEF u, l, e
    <3>3. ASSUME NEW k \in 1 .. l + 1, k < n PROVE k <= q /\ u[k] = list[k]
      <4>1. CASE k = l + 1
        <5>1. m < n /\ l = m
          BY <2>3, <3>3, <4>1
        <5> QED
          BY <3>2, <4>1, <5>1 DEF q, e
      <4>2. CASE k # l + 1
        <5>1. k \in 1 .. l
          BY <2>3, <4>2
        <5> QED
          BY <2>3, <3>2, <3>3, <5>1 DEF q
      <4> QED
        BY <4>1, <4>2
    <3>4. (q < n => l + 1 = q) /\ (q >= n => l + 1 >= n - 1)
      BY <2>3 DEF q
    <3>5. /\ taken[q] \in Seq(T) /\ Len(taken[q]) = l + 1
          /\ \A k \in 1 .. l + 1 : k < n => k <= q /\ taken[q][k] = list[k]
      BY <3>1, <3>2, <3>3
    <3>6. IsStart(q)
      BY <3>4, <3>5
    <3> QED
      BY <3>6 DEF q
  <2>5. CASE e \notin S
    <3>1. taken[q] = t
      BY <1>1, <2>1, <2>5 DEF t
    <3>2. q >= n /\ ~(q < n)
      BY <2>1, <2>5 DEF q
    <3>3. l >= n - 1
      BY <2>3, <3>2 DEF q
    <3> HIDE DEF l
    <3>4. \A k \in 1 .. l : k < n => k <= q /\ t[k] = list[k]
      BY <2>3 DEF q
    <3>5. IsStart(q)
      BY <2>3, <3>1, <3>2, <3>3, <3>4 DEF l
    <3> QED
      BY <3>5 DEF q
  <2> QED
    BY <2>4, <2>5
<1> HIDE DEF N
<1>5. Nat \subseteq N
  BY <1>3, <1>4, NatSetInduction
<1>6. IsStart(L)
  BY <1>2, <1>5 DEF N
<1> QED
  BY <1>1, <1>6

\* Lists of elements of T one after the other.
LEMMA FlattenFacts ==
  ASSUME NEW T, NEW lists \in Seq(Seq(T))
  PROVE  FlattenSeq(lists) \in Seq(T)
<1> DEFINE L == Len(lists)
           IsFlat(h) == h = [i \in 1 .. L |-> IF i = 1 THEN lists[i] ELSE h[i - 1] \o lists[i]]
           step == [p \in (Nat \X Seq(T)) |->
                      IF p[1] \in 1 .. L THEN p[2] \o lists[p[1]] ELSE <<>>]
           none == <<>>
           g == Recursion(none, step)
<1>1. L \in Nat /\ \A i \in 1 .. L : lists[i] \in Seq(T)
  OBVIOUS
<1>2. CASE L = 0
  <2>1. lists = <<>>
    BY <1>2
  <2> QED
    BY <1>2, <2>1 DEF FlattenSeq
<1>3. CASE L # 0
  <2>1. <<>> \in Seq(T) /\ step \in [Nat \X Seq(T) -> Seq(T)]
    <3> HIDE DEF L
    <3>1. ASSUME NEW p \in Nat \X Seq(T)
          PROVE  (IF p[1] \in 1 .. L THEN p[2] \o lists[p[1]] ELSE <<>>) \in Seq(T)
      <4>1. p[2] \in Seq(T)
        OBVIOUS
      <4> QED
        BY <1>1, <4>1, ConcatFacts
    <3> QED
      BY <3>1
  <2>2. /\ g \in [Nat -> Seq(T)]
        /\ g[0] = <<>>
        /\ \A n \in Nat : n # 0 => g[n] = step[<<n, g[n - 1]>>]
    <3> DEFINE D == Seq(T)
    <3>1. none \in D /\ step \in [Nat \X D -> D]
      BY <2>1
    <3> HIDE DEF step, D, none
    <3>2. g \in [Nat -> D]
      BY <3>1, RecursionFacts
    <3>3. g = [n \in Nat |-> IF n = 0 THEN none ELSE step[<<n, g[n - 1]>>]]
      BY RecursionExists
    <3> HIDE DEF g
    <3>4. g[0] = none /\ \A n \in Nat : n # 0 => g[n] = step[<<n, g[n - 1]>>]
      BY <3>3
    <3> QED
      BY <3>2, <3>4 DEF D, none
  <2> HIDE DEF g
  <2>3. \A i \in 1 .. L : g[i] = g[i - 1] \o lists[i] /\ g[i - 1] \in Seq(T)
    <3> SUFFICES ASSUME NEW i \in 1 .. L PROVE g[i] = g[i - 1] \o lists[i] /\ g[i - 1] \in Seq(T)
      OBVIOUS
    <3>1. i \in Nat /\ i # 0 /\ i - 1 \in Nat
      BY <1>1
    <3>2. g[i - 1] \in Seq(T) /\ g[i] = step[<<i, g[i - 1]>>]
      BY <2>2, <3>1
    <3> QED
      BY <3>1, <3>2
  <2> DEFINE h == [i \in 1 .. L |-> g[i]]
  <2>4. IsFlat(h)
    <3>1. ASSUME NEW i \in 1 .. L
          PROVE  g[i] = IF i = 1 THEN lists[i] ELSE h[i - 1] \o lists[i]
      <4>1. CASE i = 1
        <5>1. g[i - 1] = <<>>
          BY <2>2, <4>1
        <5>2. <<>> \o lists[i] = lists[i]
          BY <1>1
        <5> QED
          BY <2>3, <4>1, <5>1, <5>2
      <4>2. CASE i # 1
        <5>1. i - 1 \in 1 .. L
          BY <1>1, <4>2
        <5> QED
          BY <2>3, <4>2, <5>1
      <4> QED
        BY <4>1, <4>2
    <3> HIDE DEF L
    <3> QED
      BY <3>1
  <2> DEFINE flatten == CHOOSE u : IsFlat(u)
  <2>5. IsFlat(flatten)
    BY <2>4
  <2>6. FlattenSeq(lists) = flatten[L]
    BY <1>3 DEF FlattenSeq
  <2> HIDE DEF flatten, h
  <2> DEFINE N == {n \in Nat : n \in 1 .. L => flatten[n] \in Seq(T)}
  <2>7. 0 \in N
    OBVIOUS
  <2>8. ASSUME NEW n \in Nat, n \in N PROVE n + 1 \in N
    <3> SUFFICES ASSUME n + 1 \in 1 .. L PROVE flatten[n + 1] \in Seq(T)
      OBVIOUS
    <3>1. flatten[n + 1] = IF n + 1 = 1 THEN lists[n + 1] ELSE flatten[n + 1 - 1] \o lists[n + 1]
      <4>1. \A q \in 1 .. L :
              flatten[q] = IF q = 1 THEN lists[q] ELSE flatten[q - 1] \o lists[q]
        <5> HIDE DEF L
        <5> QED
          BY <2>5
      <4> QED
        BY <4>1
    <3>2. CASE n = 0
      BY <1>1, <3>1, <3>2
    <3>3. CASE n # 0
      <4>1. n \in 1 .. L /\ n + 1 - 1 = n /\ n + 1 # 1
        BY <1>1, <3>3
      <4>2. flatten[n] \in Seq(T) /\ lists[n + 1] \in Seq(T)
        BY <1>1, <2>8, <4>1
      <4> QED
        BY <3>1, <4>1, <4>2, ConcatFacts
    <3> QED
      BY <3>2, <3>3
  <2> HIDE DEF N
  <2>9. Nat \subseteq N
    BY <2>7, <2>8, NatSetInduction
  <2>10. L \in 1 .. L
    BY <1>1, <1>3
  <2> QED
    BY <1>1, <2>6, <2>9, <2>10 DEF N
<1> QED
  BY <1>2, <1>3

\* A list of elements of a set is one of elements of a larger set.
LEMMA SeqWider ==
  ASSUME NEW S, NEW T, S \subseteq T, NEW s \in Seq(S)
  PROVE  s \in Seq(T)
OBVIOUS

\* A function on an initial segment of the positive numbers is a list.
LEMMA FunctionIsSeq ==
  ASSUME NEW n \in Nat, NEW T, NEW g \in [1 .. n -> T]
  PROVE  g \in Seq(T) /\ Len(g) = n
<1>1. \A i \in 1 .. n : g[i] \in T
  OBVIOUS
<1>2. g = [i \in 1 .. n |-> g[i]]
  OBVIOUS
<1>3. [i \in 1 .. n |-> g[i]] \in Seq(T) /\ Len([i \in 1 .. n |-> g[i]]) = n
  BY <1>1
<1> QED
  BY <1>2, <1>3

\* Two lists one after the other, as a function.
LEMMA ConcatList ==
  ASSUME NEW T, NEW s \in Seq(T), NEW t \in Seq(T)
  PROVE  /\ Len(s) \in Nat /\ Len(t) \in Nat
         /\ s \o t \in [1 .. (Len(s) + Len(t)) -> T]
         /\ \A i \in 1 .. Len(s) : (s \o t)[i] = s[i]
         /\ \A i \in 1 .. Len(s) + Len(t) :
              i \notin 1 .. Len(s) => (s \o t)[i] = t[i - Len(s)] /\ i - Len(s) \in 1 .. Len(t)
<1> DEFINE m == Len(s)
           n == Len(t)
           r == s \o t
<1>1. /\ m \in Nat /\ n \in Nat /\ r \in Seq(T) /\ Len(r) = m + n
      /\ \A i \in 1 .. m + n : r[i] = IF i <= m THEN s[i] ELSE t[i - m]
  BY ConcatProperties
<1> HIDE DEF m, n, r
<1>2. r \in [1 .. (m + n) -> T]
  BY <1>1
<1> QED
  BY <1>1, <1>2 DEF m, n, r

-----------------------------------------------------------------------------
\* The machine that runs a function: one step, field by field.

\* A machine that runs f, and its fields.
Machine(f, m) ==
  /\ DOMAIN m = {"status", "block", "prev", "pos", "entered", "env", "at_entry", "cell",
                 "args", "trace", "value"}
  /\ DOMAIN m.env = Instrs(f) /\ DOMAIN m.at_entry = Instrs(f)
  /\ \E S : m.trace \in Seq(S)

SamePlace(m, n) ==
  /\ n.block = m.block /\ n.prev = m.prev /\ n.entered = m.entered
  /\ n.at_entry = m.at_entry /\ n.args = m.args

\* Only what i holds has changed, to w.
Rebound(new, old, i, w) == new = [old EXCEPT ![i] = w]

\* The machine goes on to the next instruction, or it halts.
Advanced(m, n) ==
  SamePlace(m, n) /\ n.pos = m.pos + 1 /\ n.status = m.status /\ n.value = m.value
Halted(m, n) ==
  SamePlace(m, n) /\ n.pos = m.pos /\ n.env = m.env /\ n.cell = m.cell /\ n.trace = m.trace

\* What it makes of its memory, of the calls and of the result.
Allot(f, m, v) == [Bind(f, m, Here(f, m)) EXCEPT !.cell[Here(f, m)] = v]
Store(m, p, w) == [m EXCEPT !.cell[p] = w, !.pos = @ + 1]
CallOf(f, m, reply) ==
  [target |-> f.code[Here(f, m)].k, reply |-> reply,
   args |-> [n \in DOMAIN f.code[Here(f, m)].args |-> Operand(f, m, n)]]
Call(f, m, reply) == [Bind(f, m, reply) EXCEPT !.trace = Append(@, CallOf(f, m, reply))]
Returned(m, w) == [Stop(m, "ret") EXCEPT !.value = w]

LEMMA StopFacts ==
  ASSUME NEW f, NEW m, Machine(f, m), NEW s
  PROVE  /\ Machine(f, Stop(m, s)) /\ Halted(m, Stop(m, s))
         /\ Stop(m, s).status = s /\ Stop(m, s).value = m.value
BY DEF Machine, Stop, Halted, SamePlace

LEMMA ReturnedFacts ==
  ASSUME NEW f, NEW m, Machine(f, m), NEW w
  PROVE  /\ Machine(f, Returned(m, w)) /\ Halted(m, Returned(m, w))
         /\ Returned(m, w).status = "ret" /\ Returned(m, w).value = w
<1> DEFINE h == Stop(m, "ret")
           n == Returned(m, w)
<1>1. Machine(f, h) /\ Halted(m, h) /\ h.status = "ret"
  BY StopFacts
<1>2. n = [h EXCEPT !.value = w]
  BY DEF Returned
<1> HIDE DEF h, n
<1>3. Machine(f, n) /\ Halted(h, n) /\ n.status = h.status /\ n.value = w
  BY <1>1, <1>2 DEF Machine, Halted, SamePlace
<1> QED
  BY <1>1, <1>3 DEF Halted, SamePlace, n

LEMMA BindFacts ==
  ASSUME NEW f, NEW m, Machine(f, m), NEW w
  PROVE  LET n == Bind(f, m, w)
         IN  /\ Machine(f, n) /\ Advanced(m, n) /\ n.cell = m.cell /\ n.trace = m.trace
             /\ Rebound(n.env, m.env, Here(f, m), w)
BY DEF Machine, Bind, Advanced, SamePlace, Rebound

LEMMA AllotFacts ==
  ASSUME NEW f, NEW m, Machine(f, m), NEW v
  PROVE  LET i == Here(f, m)
             n == Allot(f, m, v)
         IN  /\ Machine(f, n) /\ Advanced(m, n) /\ n.trace = m.trace
             /\ Rebound(n.cell, m.cell, i, v) /\ Rebound(n.env, m.env, i, i)
<1> DEFINE i == Here(f, m)
           b == Bind(f, m, i)
           n == Allot(f, m, v)
<1>1. /\ Machine(f, b) /\ Advanced(m, b) /\ b.cell = m.cell /\ b.trace = m.trace
      /\ Rebound(b.env, m.env, i, i)
  BY BindFacts
<1>2. n = [b EXCEPT !.cell[i] = v]
  BY DEF Allot
<1> HIDE DEF b, n, i
<1>3. Machine(f, n) /\ SamePlace(b, n) /\ n.pos = b.pos /\ n.status = b.status
      /\ n.value = b.value /\ n.trace = b.trace /\ n.env = b.env
      /\ Rebound(n.cell, b.cell, i, v)
  BY <1>1, <1>2 DEF Machine, SamePlace, Rebound
<1> QED
  BY <1>1, <1>3 DEF Advanced, SamePlace, n, i

LEMMA StoreFacts ==
  ASSUME NEW f, NEW m, Machine(f, m), NEW p, NEW w
  PROVE  LET n == Store(m, p, w)
         IN  /\ Machine(f, n) /\ Advanced(m, n) /\ n.trace = m.trace /\ n.env = m.env
             /\ Rebound(n.cell, m.cell, p, w)
BY DEF Machine, Store, Advanced, SamePlace, Rebound

\* The calls of t are those of s and perhaps more.
Continues(t, s) ==
  /\ \E S : s \in Seq(S)
  /\ \E S : t \in Seq(S)
  /\ Len(s) <= Len(t)
  /\ \A n \in 1 .. Len(s) : t[n] = s[n]

LEMMA AppendFacts ==
  ASSUME NEW t, \E S : t \in Seq(S), NEW e, NEW u, u = Append(t, e)
  PROVE  /\ Len(t) \in Nat /\ Len(u) = Len(t) + 1 /\ u[Len(t) + 1] = e
         /\ Continues(u, t)
<1>1. PICK S : t \in Seq(S)
  OBVIOUS
<1>2. t \in Seq(S \cup {e}) /\ e \in S \cup {e}
  BY <1>1
<1>3. u \in Seq(S \cup {e})
  BY <1>2
<1>4. Len(t) \in Nat /\ Len(u) = Len(t) + 1 /\ u[Len(t) + 1] = e
      /\ \A n \in 1 .. Len(t) : u[n] = t[n]
  BY <1>2, <1>3
<1> QED
  BY <1>1, <1>3, <1>4 DEF Continues

LEMMA ContinuesFacts ==
  /\ \A t : (\E S : t \in Seq(S)) => Continues(t, t)
  /\ \A t, s, r : Continues(t, s) /\ Continues(s, r) => Continues(t, r)
<1>1. ASSUME NEW t, \E S : t \in Seq(S)
      PROVE  Continues(t, t)
  <2>1. Len(t) \in Nat
    BY <1>1
  <2> QED
    BY <1>1, <2>1 DEF Continues
<1>2. ASSUME NEW t, NEW s, NEW r, Continues(t, s), Continues(s, r)
      PROVE  Continues(t, r)
  <2>1. Len(t) \in Nat /\ Len(s) \in Nat /\ Len(r) \in Nat
    BY <1>2 DEF Continues
  <2> QED
    BY <1>2, <2>1 DEF Continues
<1> QED
  BY <1>1, <1>2

LEMMA CallFacts ==
  ASSUME NEW f, NEW m, Machine(f, m), NEW w
  PROVE  LET i == Here(f, m)
             n == Call(f, m, w)
         IN  /\ Machine(f, n) /\ Advanced(m, n) /\ n.cell = m.cell
             /\ Rebound(n.env, m.env, i, w)
             /\ n.trace = Append(m.trace, CallOf(f, m, w))
<1> DEFINE i == Here(f, m)
           b == Bind(f, m, w)
           n == Call(f, m, w)
           t == Append(m.trace, CallOf(f, m, w))
<1>1. /\ Machine(f, b) /\ Advanced(m, b) /\ b.cell = m.cell /\ b.trace = m.trace
      /\ Rebound(b.env, m.env, i, w)
  BY BindFacts
<1>2. n = [b EXCEPT !.trace = t]
  BY <1>1 DEF Call, Machine
<1>3. \E S : t \in Seq(S)
  BY AppendFacts DEF Machine, Continues
<1> HIDE DEF b, n, i, t
<1>4. Machine(f, n) /\ SamePlace(b, n) /\ n.pos = b.pos /\ n.status = b.status
      /\ n.value = b.value /\ n.trace = t /\ n.env = b.env /\ n.cell = b.cell
  BY <1>1, <1>2, <1>3 DEF Machine, SamePlace
<1> QED
  BY <1>1, <1>4 DEF Advanced, SamePlace, n, i, t

\* Control enters block b, unless the run is cut off.
LEMMA GotoFacts ==
  ASSUME NEW f, NEW m, Machine(f, m), NEW b
  PROVE  LET n == Goto(m, b)
         IN  /\ Machine(f, n)
             /\ n.env = m.env /\ n.cell = m.cell /\ n.trace = m.trace
             /\ n.args = m.args /\ n.value = m.value
             /\ m.entered = MaxBlocks => Halted(m, n) /\ n.status = "cut"
             /\ m.entered # MaxBlocks =>
                  /\ n.status = m.status /\ n.prev = m.block /\ n.block = b /\ n.pos = 1
                  /\ n.entered = m.entered + 1 /\ n.at_entry = m.env
<1>1. CASE m.entered = MaxBlocks
  BY <1>1, StopFacts DEF Goto, Halted, SamePlace
<1>2. CASE m.entered # MaxBlocks
  BY <1>2 DEF Goto, Machine
<1> QED
  BY <1>1, <1>2

\* What the machine does with each opcode.
LEMMA ComputeFacts ==
  ASSUME NEW c, NEW x, NEW y
  PROVE  LET w == Compute(c, x, y)
         IN  /\ c.op = "iconst" => w = normalize(c.k, c.ty)
             /\ c.op = "bconst" => w = c.k
             /\ c.op = "neg" => w = eval_neg(c.ty, x)
             /\ c.op = "lnot" => w = 1 - x
             /\ c.op \in Comparisons => w = IF eval_cmp(c.op, x, y) THEN 1 ELSE 0
             /\ c.op \in Arithmetic => w = eval_arith(c.op, c.ty, x, y)
<1> DEFINE w == Compute(c, x, y)
           const == normalize(c.k, c.ty)
           neg == eval_neg(c.ty, x)
           lnot == 1 - x
           cmp == IF eval_cmp(c.op, x, y) THEN 1 ELSE 0
           arith == eval_arith(c.op, c.ty, x, y)
<1>1. w = CASE c.op = "iconst" -> const
            [] c.op = "bconst" -> c.k
            [] c.op = "neg" -> neg
            [] c.op = "lnot" -> lnot
            [] c.op \in Comparisons -> cmp
            [] OTHER -> arith
  BY DEF Compute
<1> HIDE DEF w, const, neg, lnot, cmp, arith
<1>2. /\ c.op = "iconst" => w = const
      /\ c.op = "bconst" => w = c.k
      /\ c.op = "neg" => w = neg
      /\ c.op = "lnot" => w = lnot
      /\ c.op \in Comparisons => w = cmp
      /\ c.op \in Arithmetic => w = arith
  BY <1>1 DEF Comparisons, Arithmetic
<1> QED
  BY <1>2 DEF w, const, neg, lnot, cmp, arith

Special == {"phi", "param", "alloca", "load", "store", "call", "ret", "br", "cond_br"}

LEMMA ExecuteFacts ==
  ASSUME NEW f, NEW m, NEW reply
  PROVE  LET c == f.code[Here(f, m)]
             x == Operand(f, m, 1)
             y == Operand(f, m, 2)
             to == Succ(f, m.block)
             n == Execute(f, m, reply)
         IN  /\ c.op = "phi" => n = IF m.prev \in DOMAIN c.inc
                                    THEN Bind(f, m, m.at_entry[c.inc[m.prev]])
                                    ELSE Stop(m, "stuck")
             /\ c.op = "param" => n = Allot(f, m, m.args[c.k])
             /\ c.op = "alloca" => n = Allot(f, m, Undefined)
             /\ c.op = "load" => n = IF m.cell[x] = Undefined THEN Stop(m, "trap")
                                     ELSE Bind(f, m, m.cell[x])
             /\ c.op = "store" => n = Store(m, x, y)
             /\ c.op = "call" => n = Call(f, m, reply)
             /\ c.op = "ret" => n = Returned(m, IF c.args = <<>> THEN 0 ELSE x)
             /\ c.op = "br" => n = Goto(m, Head(to))
             /\ c.op = "cond_br" => n = Goto(m, IF x = 1 THEN Head(to) ELSE to[Len(to)])
             /\ c.op \notin Special => n = IF Compute(c, x, y) = None THEN Stop(m, "trap")
                                          ELSE Bind(f, m, Compute(c, x, y))
             /\ IsFoldable(c.op) => c.op \notin Special
<1> DEFINE c == f.code[Here(f, m)]
           x == Operand(f, m, 1)
           y == Operand(f, m, 2)
           to == Succ(f, m.block)
           n == Execute(f, m, reply)
           phi == IF m.prev \in DOMAIN c.inc THEN Bind(f, m, m.at_entry[c.inc[m.prev]])
                  ELSE Stop(m, "stuck")
           param == Allot(f, m, m.args[c.k])
           alloca == Allot(f, m, Undefined)
           load == IF m.cell[x] = Undefined THEN Stop(m, "trap") ELSE Bind(f, m, m.cell[x])
           store == Store(m, x, y)
           call == Call(f, m, reply)
           ret == Returned(m, IF c.args = <<>> THEN 0 ELSE x)
           br == Goto(m, Head(to))
           cond_br == Goto(m, IF x = 1 THEN Head(to) ELSE to[Len(to)])
           other == IF Compute(c, x, y) = None THEN Stop(m, "trap")
                    ELSE Bind(f, m, Compute(c, x, y))
<1>1. n = CASE c.op = "phi" -> phi
            [] c.op = "param" -> param
            [] c.op = "alloca" -> alloca
            [] c.op = "load" -> load
            [] c.op = "store" -> store
            [] c.op = "call" -> call
            [] c.op = "ret" -> ret
            [] c.op = "br" -> br
            [] c.op = "cond_br" -> cond_br
            [] OTHER -> other
  BY DEF Execute, Allot, Store, Call, CallOf, Returned
<1> HIDE DEF n, phi, param, alloca, load, store, call, ret, br, cond_br, other
<1>2. /\ c.op = "phi" => n = phi
      /\ c.op = "param" => n = param
      /\ c.op = "alloca" => n = alloca
      /\ c.op = "load" => n = load
      /\ c.op = "store" => n = store
      /\ c.op = "call" => n = call
      /\ c.op = "ret" => n = ret
      /\ c.op = "br" => n = br
      /\ c.op = "cond_br" => n = cond_br
      /\ c.op \notin Special => n = other
  BY <1>1 DEF Special
<1>3. IsFoldable(c.op) => c.op \notin Special
  BY DEF IsFoldable, Arithmetic, Comparisons, Special
<1> QED
  BY <1>2, <1>3 DEF n, phi, param, alloca, load, store, call, ret, br, cond_br, other

\* A step executes an instruction, stops at one whose operands have no value,
\* or leaves the block.
LEMMA StepCases ==
  ASSUME NEW f, NEW m, NEW n \in Steps(f, m)
  PROVE  /\ m.status = "run"
         /\ \/ /\ m.pos <= Len(Ins(f, m.block))
               /\ ~OperandsDefined(f, m) /\ ~IsPhi(f, Here(f, m))
               /\ n = Stop(m, "stuck")
            \/ /\ m.pos <= Len(Ins(f, m.block))
               /\ OperandsDefined(f, m) \/ IsPhi(f, Here(f, m))
               /\ \E reply \in Replies(f, m) : n = Execute(f, m, reply)
            \/ /\ ~(m.pos <= Len(Ins(f, m.block)))
               /\ n = StepOver(f, m)
<1>1. m.status = "run"
  BY DEF Steps
<1>2. CASE m.pos <= Len(Ins(f, m.block))
  <2>1. n \in StepInstr(f, m)
    BY <1>1, <1>2 DEF Steps
  <2> QED
    BY <1>1, <1>2, <2>1 DEF StepInstr
<1>3. CASE ~(m.pos <= Len(Ins(f, m.block)))
  BY <1>1, <1>3 DEF Steps
<1> QED
  BY <1>2, <1>3

\* A step keeps a machine a machine and forgets no call.
LEMMA StepFacts ==
  ASSUME NEW f, NEW m, Machine(f, m), NEW n \in Steps(f, m)
  PROVE  /\ Machine(f, n) /\ n.args = m.args /\ Continues(n.trace, m.trace)
         /\ n.status # "idle"
<1> DEFINE Good(k) == /\ Machine(f, k) /\ k.args = m.args /\ Continues(k.trace, m.trace)
                      /\ k.status # "idle"
<1> SUFFICES Good(n)
  OBVIOUS
<1>0. m.status = "run"
  BY StepCases
<1>1. \E S : m.trace \in Seq(S)
  BY DEF Machine
<1>2. ASSUME NEW k, Machine(f, k), k.args = m.args, k.trace = m.trace,
             k.status # "idle"
      PROVE  Good(k)
  BY <1>1, <1>2, ContinuesFacts
<1> HIDE DEF Good
<1>3. ASSUME NEW s, s # "idle" PROVE Good(Stop(m, s))
  BY <1>2, <1>3, StopFacts DEF Halted, SamePlace
<1>4. ASSUME NEW w PROVE Good(Bind(f, m, w))
  <2> DEFINE k == Bind(f, m, w)
  <2>1. Machine(f, k) /\ Advanced(m, k) /\ k.trace = m.trace
    BY BindFacts
  <2> QED
    BY <1>0, <1>2, <2>1 DEF Advanced, SamePlace
<1>5. ASSUME NEW b PROVE Good(Goto(m, b))
  BY <1>0, <1>2, GotoFacts DEF Halted, SamePlace
<1>6. ASSUME NEW v PROVE Good(Allot(f, m, v))
  <2> DEFINE k == Allot(f, m, v)
  <2>1. Machine(f, k) /\ Advanced(m, k) /\ k.trace = m.trace
    BY AllotFacts
  <2> QED
    BY <1>0, <1>2, <2>1 DEF Advanced, SamePlace
<1>7. ASSUME NEW p, NEW w PROVE Good(Store(m, p, w))
  <2> DEFINE k == Store(m, p, w)
  <2>1. Machine(f, k) /\ Advanced(m, k) /\ k.trace = m.trace
    BY StoreFacts
  <2> QED
    BY <1>0, <1>2, <2>1 DEF Advanced, SamePlace
<1>8. ASSUME NEW w PROVE Good(Returned(m, w))
  BY <1>2, ReturnedFacts DEF Halted, SamePlace
<1>9. ASSUME NEW w PROVE Good(Call(f, m, w))
  <2> DEFINE k == Call(f, m, w)
             t == Append(m.trace, CallOf(f, m, w))
  <2>1. Machine(f, k) /\ Advanced(m, k) /\ k.trace = t
    BY CallFacts
  <2>2. Continues(t, m.trace)
    BY <1>1, AppendFacts
  <2> HIDE DEF k, t
  <2> QED
    BY <1>0, <2>1, <2>2 DEF Advanced, SamePlace, k, Good
<1>10. CASE n = Stop(m, "stuck")
  BY <1>3, <1>10
<1>11. CASE n = StepOver(f, m)
  BY <1>3, <1>5, <1>11 DEF StepOver
<1>12. ASSUME m.pos <= Len(Ins(f, m.block)), NEW reply, n = Execute(f, m, reply)
       PROVE  Good(n)
  <2> DEFINE c == f.code[Here(f, m)]
  <2>2. CASE c.op \in {"phi", "load", "param", "alloca", "store"}
    BY <1>3, <1>4, <1>6, <1>7, <1>12, <2>2, ExecuteFacts
  <2>3. CASE c.op \in {"call", "ret", "br", "cond_br"}
    BY <1>5, <1>8, <1>9, <1>12, <2>3, ExecuteFacts
  <2>4. CASE c.op \notin Special
    BY <1>3, <1>4, <1>12, <2>4, ExecuteFacts
  <2> QED
    BY <2>2, <2>3, <2>4 DEF Special
<1> QED
  BY <1>10, <1>11, <1>12, StepCases


\* A run starts at the entry and holds nothing.
Blank(f) == [i \in Instrs(f) |-> Undefined]

LEMMA StartOfRun ==
  ASSUME NEW f, NEW a
  PROVE  LET m == Start(f, a)
         IN  /\ Machine(f, m) /\ m.status = "run" /\ m.block = f.entry
             /\ m.prev = f.entry /\ m.pos = 1 /\ m.entered = 1
             /\ m.cell = Blank(f)
             /\ m.args = a /\ m.trace = <<>> /\ m.value = 0
             /\ \A v \in Instrs(f) : m.env[v] = Undefined /\ m.at_entry[v] = Undefined
<1> DEFINE nothing == Blank(f)
           m == Start(f, a)
<1>1. m = [status |-> "run", block |-> f.entry, prev |-> f.entry, pos |-> 1,
           entered |-> 1, env |-> nothing, at_entry |-> nothing, cell |-> nothing,
           args |-> a, trace |-> <<>>, value |-> 0]
  BY DEF Start, Blank
<1>2. DOMAIN nothing = Instrs(f) /\ \A v \in Instrs(f) : nothing[v] = Undefined
  BY DEF Blank
<1>3. <<>> \in Seq({})
  OBVIOUS
<1> HIDE DEF nothing, m
<1>4. /\ DOMAIN m = {"status", "block", "prev", "pos", "entered", "env", "at_entry",
                     "cell", "args", "trace", "value"}
      /\ m.status = "run" /\ m.block = f.entry
      /\ m.prev = f.entry /\ m.pos = 1 /\ m.entered = 1
      /\ m.env = nothing /\ m.at_entry = nothing /\ m.cell = nothing
      /\ m.args = a /\ m.trace = <<>> /\ m.value = 0
  BY <1>1
<1>5. Machine(f, m)
  BY <1>2, <1>3, <1>4 DEF Machine
<1> QED
  BY <1>2, <1>4, <1>5 DEF m, nothing
=============================================================================
