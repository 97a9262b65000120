---------------------------- MODULE FoldingProofs ----------------------------
(***************************************************************************)
(* Constant folding computes with words exactly what the program means by  *)
(* integers, for every width of the word and every type that fits it.      *)
(* Wrapping to the word and truncating to the type keep an integer the     *)
(* same modulo the size of the type, and an integer in the range of the    *)
(* type is the only one there that is the same as it.                      *)
(***************************************************************************)
EXTENDS IntFolding, Facts

LEMMA SizesOfType ==
  ASSUME NEW t \in Types
  PROVE  /\ t.bits \in 1 .. WordBits
         /\ Size(t) \in Nat \ {0} /\ Half(t) \in Nat \ {0}
         /\ Size(t) = 2 * Half(t)
         /\ Half(t) <= HalfWord
         /\ t.bits < WordBits => Size(t) <= HalfWord
         /\ t.bits = WordBits => Size(t) = WordSize
         /\ \E f \in Nat \ {0} : WordSize = f * Size(t)
<1>1. t.bits \in 1 .. WordBits
  BY TypesAssumption
<1> QED
  BY <1>1, SizesOfBits

\* The integer of a word, and the interval of the integers of a type.
LEMMA ValuesOfWord ==
  ASSUME NEW t \in Types, NEW w \in Word
  PROVE  /\ Value(t, w) \in Int
         /\ SameModulo(Size(t), Value(t, w), w)
         /\ is_signed_integer_ty(t) =>
              Value(t, w) = IF w >= HalfWord THEN w - WordSize ELSE w
         /\ ~ is_signed_integer_ty(t) => Value(t, w) = w
<1>1. /\ w \in 0 .. WordSize - 1 /\ WordSize \in Nat /\ HalfWord \in Nat
      /\ Size(t) \in Int
  BY SizesOfWord, SizesOfType
<1>2. ToSigned(w) = IF w >= HalfWord THEN w - WordSize ELSE w
  BY DEF ToSigned, HalfWord, WordSize
<1>3. SameModulo(Size(t), w, w)
  BY <1>1, SameReflexive
<1>4. SameModulo(Size(t), w - WordSize, w)
  <2>1. PICK f \in Nat \ {0} : WordSize = f * Size(t)
    BY SizesOfType
  <2>2. w - WordSize = w + (-f) * Size(t) /\ -f \in Int
    BY <1>1, <2>1
  <2> QED
    BY <2>2 DEF SameModulo
<1> QED
  BY <1>1, <1>2, <1>3, <1>4 DEF Value

LEMMA RangeOfType ==
  ASSUME NEW t \in Types
  PROVE  /\ Lowest(t) \in Int
         /\ is_signed_integer_ty(t) => Lowest(t) = -Half(t)
         /\ ~ is_signed_integer_ty(t) => Lowest(t) = 0
         /\ \A n : InRange(t, n) <=> n \in Lowest(t) .. Lowest(t) + Size(t) - 1
  BY SizesOfType DEF Lowest, InRange, Size, Half

\* An integer in the range of a type is told by what it is modulo its size.
LEMMA OneInRange ==
  ASSUME NEW t \in Types, NEW m, NEW n, InRange(t, m), InRange(t, n),
         SameModulo(Size(t), m, n)
  PROVE  m = n
  BY SizesOfType, RangeOfType, SameIsEqual

LEMMA WrapIsSame ==
  ASSUME NEW t \in Types, NEW n \in Int
  PROVE  Wrap(n) \in Word /\ SameModulo(Size(t), Wrap(n), n)
<1>1. PICK f \in Nat \ {0} : WordSize = f * Size(t)
  BY SizesOfType
<1>2. Wrap(n) \in 0 .. WordSize - 1 /\ SameModulo(WordSize, Wrap(n), n)
  BY SizesOfWord, RemainderIsSame DEF Wrap, WordSize
<1>3. Wrap(n) \in Int /\ Size(t) \in Int
  BY <1>2, SizesOfType
<1>4. SameModulo(f * Size(t), Wrap(n), n) /\ f \in Int
  BY <1>1, <1>2
<1>5. SameModulo(Size(t), Wrap(n), n)
  BY <1>3, <1>4, SameOfMultiple
<1> QED
  BY <1>2, <1>5, SizesOfWord

\* A word the compiler keeps as a constant of a type.
CanonicalWord(t, w) == w \in Word /\ InRange(t, Value(t, w))

\* normalize() finds the integer of the type that the word stands for.
LEMMA NormalizeIsCanonical ==
  ASSUME NEW t \in Types, NEW v \in Word
  PROVE  /\ CanonicalWord(t, normalize(v, t))
         /\ SameModulo(Size(t), Value(t, normalize(v, t)), v)
<1> DEFINE w == normalize(v, t)
           P == WordSize
           HW == HalfWord
           Q == Size(t)
           H == Half(t)
           low == v % Q
<1>1. /\ P \in Nat \ {0} /\ HW \in Nat \ {0} /\ P = 2 * HW
      /\ Q \in Nat \ {0} /\ H \in Nat \ {0} /\ Q = 2 * H /\ H <= HW
      /\ v \in 0 .. P - 1 /\ v \in Int
  BY SizesOfWord, SizesOfType
<1>2. w \in Word
  <2>1. t.bits \in 0 .. WordBits
    BY SizesOfType
  <2> QED
    BY <2>1, NormalizeIsWord
<1>3. low \in 0 .. Q - 1 /\ SameModulo(Q, low, v)
  BY <1>1, RemainderIsSame
<1>4. /\ t.bits >= WordBits => w = v /\ Q = P
      /\ t.bits < WordBits => Q <= HW
      /\ t.bits < WordBits /\ is_signed_integer_ty(t) /\ low >= H => w = low + (P - Q)
      /\ t.bits < WordBits /\ ~(is_signed_integer_ty(t) /\ low >= H) => w = low
      /\ t.bits >= WordBits \/ t.bits < WordBits
  BY SizesOfType, WordBitsAssumption DEF normalize, Size, Half, WordSize
<1>5. /\ is_signed_integer_ty(t) => Lowest(t) = -H
      /\ ~ is_signed_integer_ty(t) => Lowest(t) = 0
      /\ \A n : InRange(t, n) <=> n \in Lowest(t) .. Lowest(t) + Q - 1
  BY RangeOfType
<1>6. /\ Value(t, w) \in Int
      /\ is_signed_integer_ty(t) => Value(t, w) = IF w >= HW THEN w - P ELSE w
      /\ ~ is_signed_integer_ty(t) => Value(t, w) = w
      /\ SameModulo(Q, Value(t, w), w)
  BY <1>2, ValuesOfWord
<1> HIDE DEF w, P, HW, Q, H, low
<1>7. CASE t.bits >= WordBits
  <2>1. InRange(t, Value(t, w))
    BY <1>1, <1>4, <1>5, <1>6, <1>7
  <2>2. SameModulo(Q, Value(t, w), v)
    BY <1>4, <1>6, <1>7
  <2> QED
    BY <1>2, <2>1, <2>2 DEF CanonicalWord, w, Q
<1>8. CASE t.bits < WordBits
  <2>1. InRange(t, Value(t, w)) /\ Value(t, w) \in {low, low - Q}
    <3>1. CASE is_signed_integer_ty(t) /\ low >= H
      <4>1. w >= HW /\ w - P = low - Q
        BY <1>1, <1>3, <1>4, <1>8, <3>1
      <4>2. Value(t, w) = low - Q
        BY <1>6, <3>1, <4>1
      <4> QED
        BY <1>1, <1>3, <1>5, <3>1, <4>2
    <3>2. CASE is_signed_integer_ty(t) /\ ~(low >= H)
      BY <1>1, <1>3, <1>4, <1>5, <1>6, <1>8, <3>2
    <3>3. CASE ~ is_signed_integer_ty(t)
      BY <1>1, <1>3, <1>4, <1>5, <1>6, <1>8, <3>3
    <3> QED
      BY <3>1, <3>2, <3>3
  <2>2. SameModulo(Q, low, low) /\ SameModulo(Q, low - Q, low)
    <3>1. low = low + 0 * Q /\ low - Q = low + (-1) * Q
      BY <1>1, <1>3
    <3> QED
      BY <3>1 DEF SameModulo
  <2>3. SameModulo(Q, Value(t, w), v)
    BY <1>1, <1>3, <1>6, <2>1, <2>2, SameTransitive
  <2> QED
    BY <1>2, <2>1, <2>3 DEF CanonicalWord, w, Q
<1> QED
  BY <1>4, <1>7, <1>8

LEMMA WrappedIsCanonical ==
  ASSUME NEW t \in Types, NEW n \in Int
  PROVE  /\ CanonicalWord(t, normalize(Wrap(n), t))
         /\ SameModulo(Size(t), Value(t, normalize(Wrap(n), t)), n)
         /\ InRange(t, n) => Value(t, normalize(Wrap(n), t)) = n
<1> DEFINE w == normalize(Wrap(n), t)
<1>1. Wrap(n) \in Word /\ SameModulo(Size(t), Wrap(n), n)
  BY WrapIsSame
<1>2. CanonicalWord(t, w) /\ SameModulo(Size(t), Value(t, w), Wrap(n))
  BY <1>1, NormalizeIsCanonical
<1> HIDE DEF w
<1>3. Size(t) \in Int /\ Wrap(n) \in Int /\ Value(t, w) \in Int
  BY <1>1, <1>2, SizesOfType, SizesOfWord, ValuesOfWord DEF CanonicalWord
<1>4. SameModulo(Size(t), Value(t, w), n)
  BY <1>1, <1>2, <1>3, SameTransitive
<1>5. InRange(t, n) => Value(t, w) = n
  BY <1>2, <1>4, OneInRange DEF CanonicalWord
<1> QED
  BY <1>2, <1>4, <1>5 DEF w

-----------------------------------------------------------------------------
\* The division that rounds towards zero: what it returns, and how large.
LEMMA Quotients ==
  ASSUME NEW x \in Int, NEW y \in Int, y # 0
  PROVE  LET q == TruncDiv(x, y)
             m == TruncMod(x, y)
         IN  /\ q \in Int /\ m \in Int
             /\ IsQuotient(q, m, x, y)
             /\ Abs(q) <= Abs(x)
             /\ x >= 0 => m \in 0 .. x
             /\ x < 0 => m \in x .. 0
             /\ x >= 0 /\ y > 0 => q = x \div y /\ m = x % y /\ q \in 0 .. x
             /\ Abs(q) = Abs(x) => x = 0 \/ Abs(y) = 1
             /\ q > 0 => (x < 0) = (y < 0)
<1> DEFINE q == TruncDiv(x, y)
           m == TruncMod(x, y)
           A == Abs(x)
           B == Abs(y)
           d == A \div B
           e == A % B
<1>1. /\ A \in Nat /\ B \in Nat \ {0}
      /\ x >= 0 => A = x
      /\ x < 0 => A = -x
      /\ y >= 0 => B = y
      /\ y < 0 => B = -y
  BY DEF Abs
<1> HIDE DEF A, B
<1>2. d \in Int /\ e \in 0 .. B - 1 /\ A = B * d + e
  BY <1>1
<1>3. q = (IF (x < 0) = (y < 0) THEN d ELSE -d) /\ m = x - y * q
  BY DEF TruncDiv, TruncMod, A, B
<1>4. y > 0 /\ x >= 0 => d = x \div y /\ e = x % y
  BY <1>1
<1> HIDE DEF d, e, q, m
<1>5. d >= 0
  <2>1. SUFFICES ASSUME d <= -1 PROVE FALSE
    BY <1>2
  <2>2. B * d <= B * (-1)
    BY <1>1, <1>2, <2>1
  <2> QED
    BY <1>1, <1>2, <2>2
<1>6. d <= B * d /\ B * d \in Int
  BY <1>1, <1>2, <1>5
<1>7. d <= A /\ e <= A
  BY <1>1, <1>2, <1>5, <1>6
<1>8. d = A => A = 0 \/ B = 1
  <2> SUFFICES ASSUME d = A, A # 0, B # 1 PROVE FALSE
    OBVIOUS
  <2>1. B >= 2 /\ d >= 1
    BY <1>1, <1>5
  <2>2. B * d >= 2 * d
    BY <1>1, <1>2, <2>1
  <2> QED
    BY <1>1, <1>2, <2>1, <2>2
<1>9. q \in {d, -d} /\ q \in Int
  BY <1>2, <1>3
<1>10. m = IF x >= 0 THEN e ELSE -e
  <2>1. CASE x >= 0 /\ y > 0
    <3>1. q = d /\ y * q = B * d
      BY <1>1, <1>3, <2>1
    <3> QED
      BY <1>1, <1>2, <1>3, <1>6, <2>1, <3>1
  <2>2. CASE x < 0 /\ y < 0
    <3>1. q = d /\ y * q = -(B * d)
      BY <1>1, <1>2, <1>3, <2>2
    <3> QED
      BY <1>1, <1>2, <1>3, <1>6, <2>2, <3>1
  <2>3. CASE x >= 0 /\ y < 0
    <3>1. q = -d /\ y * q = B * d
      BY <1>1, <1>2, <1>3, <2>3
    <3> QED
      BY <1>1, <1>2, <1>3, <1>6, <2>3, <3>1
  <2>4. CASE x < 0 /\ y > 0
    <3>1. q = -d /\ y * q = -(B * d)
      BY <1>1, <1>2, <1>3, <2>4
    <3> QED
      BY <1>1, <1>2, <1>3, <1>6, <2>4, <3>1
  <2> QED
    BY <2>1, <2>2, <2>3, <2>4
<1>11. m \in Int /\ Abs(m) = e
  BY <1>2, <1>10 DEF Abs
<1>12. x = q * y + m
  <2>1. q * y = y * q /\ y * q \in Int
    BY <1>9
  <2> QED
    BY <1>3, <2>1
<1>13. m * x >= 0
  <2>1. CASE x >= 0
    <3>1. m >= 0
      BY <1>2, <1>10, <2>1
    <3> QED
      BY <1>11, <2>1, <3>1
  <2>2. CASE x < 0
    <3>1. m <= 0
      BY <1>2, <1>10, <2>2
    <3> QED
      BY <1>11, <2>2, <3>1
  <2> QED
    BY <2>1, <2>2
<1>14. Abs(m) < Abs(y)
  <2>1. e < B
    BY <1>1, <1>2
  <2> QED
    BY <1>11, <2>1 DEF B
<1>15. Abs(q) = d
  BY <1>2, <1>5, <1>9 DEF Abs
<1>16. (x >= 0 => m \in 0 .. x) /\ (x < 0 => m \in x .. 0)
  BY <1>1, <1>2, <1>7, <1>10
<1>17. x >= 0 /\ y > 0 => q = d /\ m = e /\ q \in 0 .. x
  BY <1>1, <1>2, <1>3, <1>5, <1>7, <1>10
<1>18. q > 0 => (x < 0) = (y < 0)
  BY <1>2, <1>3, <1>5
<1>19. IsQuotient(q, m, x, y)
  BY <1>12, <1>13, <1>14 DEF IsQuotient
<1>20. Abs(q) <= Abs(x) /\ (Abs(q) = Abs(x) => x = 0 \/ Abs(y) = 1)
  <2>1. A = 0 => x = 0
    BY <1>1
  <2> QED
    BY <1>7, <1>8, <1>15, <2>1 DEF A, B
<1>21. x >= 0 /\ y > 0 => q = x \div y /\ m = x % y /\ q \in 0 .. x
  BY <1>4, <1>17
<1> QED
  BY <1>9, <1>11, <1>16, <1>18, <1>19, <1>20, <1>21 DEF q, m

LEMMA ShiftedDown ==
  ASSUME NEW x \in Int, NEW p \in Nat \ {0}
  PROVE  LET q == x \div p
         IN  /\ q \in Int
             /\ q * p <= x /\ x < (q + 1) * p
             /\ x >= 0 => q \in 0 .. x
             /\ x < 0 => q \in x .. -1
<1> DEFINE q == x \div p
           r == x % p
<1>1. q \in Int /\ r \in 0 .. p - 1 /\ x = p * q + r
  OBVIOUS
<1> HIDE DEF q, r
<1>2. q * p <= x /\ x < (q + 1) * p
  <2>1. q * p = p * q /\ (q + 1) * p = p * q + p /\ p * q \in Int
    BY <1>1
  <2> QED
    BY <1>1, <2>1
<1>3. x >= 0 => q \in 0 .. x
  <2> SUFFICES ASSUME x >= 0 PROVE q \in 0 .. x
    OBVIOUS
  <2>1. q >= 0
    <3>1. SUFFICES ASSUME q + 1 <= 0 PROVE FALSE
      BY <1>1
    <3>2. (q + 1) * p <= 0
      BY <1>1, <3>1
    <3>3. (q + 1) * p \in Int
      BY <1>1
    <3> QED
      BY <1>2, <3>2, <3>3
  <2>2. q <= q * p /\ q * p \in Int
    BY <1>1, <2>1
  <2> QED
    BY <1>1, <1>2, <2>1, <2>2
<1>4. x < 0 => q \in x .. -1
  <2> SUFFICES ASSUME x < 0 PROVE q \in x .. -1
    OBVIOUS
  <2>1. q <= -1
    <3>1. SUFFICES ASSUME q >= 0 PROVE FALSE
      BY <1>1
    <3>2. q * p >= 0 /\ q * p \in Int
      BY <1>1, <3>1
    <3> QED
      BY <1>2, <3>2
  <2>2. (q + 1) * p <= q + 1 /\ (q + 1) * p \in Int
    BY <1>1, <2>1
  <2> QED
    BY <1>1, <1>2, <2>1, <2>2
<1> QED
  BY <1>1, <1>2, <1>3, <1>4 DEF q

LEMMA SignedOfWrapped ==
  ASSUME NEW n \in -HalfWord .. HalfWord - 1
  PROVE  Wrap(n) \in Word /\ ToSigned(Wrap(n)) = n
<1> DEFINE P == WordSize
           w == Wrap(n)
<1>1. P \in Nat \ {0} /\ HalfWord \in Nat \ {0} /\ P = 2 * HalfWord /\ n \in Int
  BY SizesOfWord
<1>2. w \in 0 .. P - 1 /\ SameModulo(P, w, n)
  BY <1>1, RemainderIsSame DEF Wrap, WordSize
<1>3. ToSigned(w) = IF w >= HalfWord THEN w - P ELSE w
  BY DEF ToSigned, HalfWord, WordSize
<1> HIDE DEF P, w
<1>4. w \in 0 .. 0 + P - 1 /\ 0 \in Int /\ w \in Int
  BY <1>1, <1>2
<1>5. CASE n >= 0
  <2>1. n \in 0 .. 0 + P - 1
    BY <1>1, <1>5
  <2>2. w = n
    BY <1>1, <1>2, <1>4, <2>1, SameIsEqual
  <2> QED
    BY <1>1, <1>2, <1>3, <2>2, SizesOfWord DEF P, w
<1>6. CASE n < 0
  <2>1. n + P \in 0 .. 0 + P - 1 /\ n + P \in Int /\ n + P >= HalfWord
    BY <1>1, <1>6
  <2>2. SameModulo(P, n, n + P)
    <3>1. n = (n + P) + (-1) * P
      BY <1>1
    <3> QED
      BY <3>1 DEF SameModulo
  <2>3. SameModulo(P, w, n + P)
    BY <1>1, <1>2, <1>4, <2>1, <2>2, SameTransitive
  <2>4. w = n + P
    BY <1>1, <1>4, <2>1, <2>3, SameIsEqual
  <2> QED
    BY <1>1, <1>2, <1>3, <2>1, <2>4, SizesOfWord DEF P, w
<1> QED
  BY <1>1, <1>5, <1>6

LEMMA CanonicalFacts ==
  ASSUME NEW t \in Types, NEW w, CanonicalWord(t, w)
  PROVE  /\ w \in 0 .. WordSize - 1 /\ w \in Int
         /\ Value(t, w) \in Int
         /\ SameModulo(Size(t), w, Value(t, w))
         /\ w = 0 <=> Value(t, w) = 0
         /\ is_signed_integer_ty(t) =>
              /\ Value(t, w) = ToSigned(w)
              /\ Value(t, w) = IF w >= HalfWord THEN w - WordSize ELSE w
              /\ Value(t, w) \in -Half(t) .. Half(t) - 1
         /\ ~ is_signed_integer_ty(t) => Value(t, w) = w /\ w \in 0 .. Size(t) - 1
<1>1. w \in Word /\ InRange(t, Value(t, w))
  BY DEF CanonicalWord
<1>2. /\ w \in 0 .. WordSize - 1 /\ WordSize \in Nat \ {0} /\ HalfWord \in Nat \ {0}
      /\ WordSize = 2 * HalfWord
  BY <1>1, SizesOfWord
<1>3. /\ Value(t, w) \in Int
      /\ SameModulo(Size(t), Value(t, w), w)
      /\ is_signed_integer_ty(t) =>
           Value(t, w) = IF w >= HalfWord THEN w - WordSize ELSE w
      /\ ~ is_signed_integer_ty(t) => Value(t, w) = w
  BY <1>1, ValuesOfWord
<1>4. /\ Size(t) \in Nat \ {0} /\ Half(t) \in Nat \ {0} /\ Size(t) = 2 * Half(t)
  BY SizesOfType
<1>5. SameModulo(Size(t), w, Value(t, w))
  BY <1>2, <1>3, <1>4, SameSymmetric
<1>6. w = 0 <=> Value(t, w) = 0
  BY <1>2, <1>3
<1>7. /\ is_signed_integer_ty(t) => Value(t, w) \in -Half(t) .. Half(t) - 1
      /\ ~ is_signed_integer_ty(t) => Value(t, w) \in 0 .. Size(t) - 1
  BY <1>1, <1>4, RangeOfType
<1>8. is_signed_integer_ty(t) => Value(t, w) = ToSigned(w)
  BY DEF Value
<1> QED
  BY <1>2, <1>3, <1>5, <1>6, <1>7, <1>8

LEMMA WordsAreCanonical ==
  ASSUME NEW t \in Types, NEW w \in Words(t)
  PROVE  CanonicalWord(t, w)
  BY NormalizeIsCanonical DEF Words

\* A result computed on words is canonical, and exact modulo the size.
LEMMA WrappedResult ==
  ASSUME NEW t \in Types, NEW n \in Int, NEW m \in Int, SameModulo(Size(t), n, m)
  PROVE  /\ CanonicalWord(t, normalize(Wrap(n), t))
         /\ Congruent(t, Value(t, normalize(Wrap(n), t)), m)
         /\ InRange(t, m) => Value(t, normalize(Wrap(n), t)) = m
<1> DEFINE w == normalize(Wrap(n), t)
<1>1. CanonicalWord(t, w) /\ SameModulo(Size(t), Value(t, w), n)
  BY WrappedIsCanonical
<1> HIDE DEF w
<1>2. Size(t) \in Nat \ {0} /\ Value(t, w) \in Int
  BY <1>1, SizesOfType, CanonicalFacts
<1>3. SameModulo(Size(t), Value(t, w), m)
  BY <1>1, <1>2, SameTransitive
<1>4. Congruent(t, Value(t, w), m)
  BY <1>2, <1>3, SameIsCongruent DEF Congruent, Size
<1>5. InRange(t, m) => Value(t, w) = m
  BY <1>1, <1>3, OneInRange DEF CanonicalWord
<1> QED
  BY <1>1, <1>4, <1>5 DEF w

\* A word that is itself in the range of an unsigned type is not changed.
LEMMA NormalizeKeeps ==
  ASSUME NEW t \in Types, NEW v \in Word, InRange(t, v)
  PROVE  CanonicalWord(t, normalize(v, t)) /\ Value(t, normalize(v, t)) = v
  BY NormalizeIsCanonical, OneInRange DEF CanonicalWord

LEMMA SignedMinIsLowest ==
  ASSUME NEW t \in Types, is_signed_integer_ty(t)
  PROVE  SignedMin(t) = Lowest(t)
<1> DEFINE v == Half(t)
           w == normalize(v, t)
<1>1. /\ v \in Nat \ {0} /\ v <= HalfWord /\ Size(t) = 2 * v
      /\ HalfWord \in Nat \ {0} /\ WordSize = 2 * HalfWord /\ Word = 0 .. WordSize - 1
      /\ Lowest(t) = -v /\ Size(t) \in Nat \ {0}
  BY SizesOfType, SizesOfWord, RangeOfType
<1>2. v \in Word
  BY <1>1
<1>3. CanonicalWord(t, w) /\ SameModulo(Size(t), Value(t, w), v)
  BY <1>2, NormalizeIsCanonical
<1>4. SignedMin(t) = ToSigned(w)
  BY DEF SignedMin, Half
<1> HIDE DEF v, w
<1>5. Value(t, w) = ToSigned(w) /\ Value(t, w) \in Int
  BY <1>3, CanonicalFacts
<1>6. SameModulo(Size(t), v, -v)
  <2>1. v = (-v) + 1 * Size(t)
    BY <1>1
  <2> QED
    BY <2>1 DEF SameModulo
<1>7. SameModulo(Size(t), Value(t, w), -v)
  BY <1>1, <1>3, <1>5, <1>6, SameTransitive
<1>8. InRange(t, -v)
  BY <1>1, RangeOfType
<1>9. Value(t, w) = -v
  BY <1>3, <1>7, <1>8, OneInRange DEF CanonicalWord
<1> QED
  BY <1>1, <1>4, <1>5, <1>9

-----------------------------------------------------------------------------
\* The opcodes that lowering picks for a type meet the asserts of eval_arith
\* and of normalize (int_semantics.hpp 24, 53-54).
LEMMA OpsMeetAsserts ==
  ASSUME NEW t \in Types, NEW op \in OpsOf(t), NEW b
  PROVE  ~ eval_arith_asserts(op, t, b)
<1>1. is_integer_ty(t)
  BY TypesAssumption
<1>2. is_signed_integer_ty(t) \/ is_unsigned_integer_ty(t)
  BY <1>1 DEF is_integer_ty, is_signed_integer_ty, is_unsigned_integer_ty
<1>3. FitsSignedness(op, t)
  BY <1>2 DEF OpsOf, FitsSignedness
<1> QED
  BY <1>1, <1>3 DEF eval_arith_asserts

-----------------------------------------------------------------------------
\* What each kind of operation computes from two canonical words.
LEMMA FoldRing ==
  ASSUME NEW t \in Types, NEW a, CanonicalWord(t, a), NEW b, CanonicalWord(t, b),
         NEW op \in {"add", "sub", "mul"}
  PROVE  LET w == eval_arith(op, t, a, b)
             x == Value(t, a)
             y == Value(t, b)
         IN  /\ CanonicalWord(t, w)
             /\ op = "add" => Congruent(t, Value(t, w), x + y)
             /\ op = "sub" => Congruent(t, Value(t, w), x - y)
             /\ op = "mul" => Congruent(t, Value(t, w), x * y)
<1> DEFINE x == Value(t, a)
           y == Value(t, b)
<1>1. /\ a \in Int /\ b \in Int /\ x \in Int /\ y \in Int /\ Size(t) \in Int
      /\ SameModulo(Size(t), a, x) /\ SameModulo(Size(t), b, y)
  BY CanonicalFacts, SizesOfType
<1>2. ~ NotFolded(op, t, a, b)
  BY DEF NotFolded
<1> HIDE DEF x, y
<1>3. /\ SameModulo(Size(t), a + b, x + y) /\ a + b \in Int /\ x + y \in Int
      /\ SameModulo(Size(t), a - b, x - y) /\ a - b \in Int /\ x - y \in Int
      /\ SameModulo(Size(t), a * b, x * y) /\ a * b \in Int /\ x * y \in Int
  <2>1. /\ SameModulo(Size(t), a + b, x + y) /\ SameModulo(Size(t), a - b, x - y)
        /\ SameModulo(Size(t), a * b, x * y)
    BY <1>1, SameArithmetic, Zenon
  <2> QED
    BY <1>1, <2>1
<1>4. CASE op = "add"
  <2>1. eval_arith(op, t, a, b) = normalize(Wrap(a + b), t)
    BY <1>2, <1>4 DEF eval_arith
  <2> QED
    BY <1>3, <1>4, <2>1, WrappedResult DEF x, y
<1>5. CASE op = "sub"
  <2>1. eval_arith(op, t, a, b) = normalize(Wrap(a - b), t)
    BY <1>2, <1>5 DEF eval_arith
  <2> QED
    BY <1>3, <1>5, <2>1, WrappedResult DEF x, y
<1>6. CASE op = "mul"
  <2>1. eval_arith(op, t, a, b) = normalize(Wrap(a * b), t)
    BY <1>2, <1>6 DEF eval_arith
  <2> QED
    BY <1>3, <1>6, <2>1, WrappedResult DEF x, y
<1> QED
  BY <1>4, <1>5, <1>6

LEMMA NegateExact ==
  ASSUME NEW t \in Types, NEW a, CanonicalWord(t, a)
  PROVE  /\ CanonicalWord(t, eval_neg(t, a))
         /\ Congruent(t, Value(t, eval_neg(t, a)), -Value(t, a))
         /\ \A n \in Int : SameModulo(Size(t), Value(t, a), n) /\ InRange(t, -n)
                           => Value(t, eval_neg(t, a)) = -n
<1> DEFINE x == Value(t, a)
<1>1. /\ a \in Int /\ x \in Int /\ Size(t) \in Int /\ SameModulo(Size(t), a, x)
      /\ 0 \in Int /\ SameModulo(Size(t), 0, 0)
  BY CanonicalFacts, SizesOfType, SameReflexive
<1> HIDE DEF x
<1>2. /\ 0 - a \in Int /\ -x \in Int /\ 0 - x = -x
      /\ SameModulo(Size(t), 0 - a, 0 - x)
  BY <1>1, SameArithmetic
<1>3. SameModulo(Size(t), 0 - a, -x)
  BY <1>2
<1>4. /\ CanonicalWord(t, eval_neg(t, a))
      /\ Congruent(t, Value(t, eval_neg(t, a)), -x)
  BY <1>2, <1>3, WrappedResult DEF eval_neg
<1>5. ASSUME NEW n \in Int, SameModulo(Size(t), x, n), InRange(t, -n)
      PROVE  Value(t, eval_neg(t, a)) = -n
  <2>1. SameModulo(Size(t), a, n)
    BY <1>1, <1>5, SameTransitive
  <2>2. -n \in Int /\ 0 - n = -n
    OBVIOUS
  <2>3. SameModulo(Size(t), 0 - a, 0 - n)
    BY <1>1, <2>1, SameArithmetic, Zenon
  <2>4. SameModulo(Size(t), 0 - a, -n)
    BY <2>2, <2>3
  <2> QED
    BY <1>2, <1>5, <2>2, <2>4, WrappedResult DEF eval_neg
<1> QED
  BY <1>4, <1>5 DEF x

DividesIn(t, op) == \/ is_signed_integer_ty(t) /\ op \in {"sdiv", "smod"}
                    \/ ~ is_signed_integer_ty(t) /\ op \in {"udiv", "umod"}

\* A division is refused exactly when it has no quotient of the type.
LEMMA DivisionRefused ==
  ASSUME NEW t \in Types, NEW a, CanonicalWord(t, a), NEW b, CanonicalWord(t, b),
         NEW op, DividesIn(t, op)
  PROVE  LET x == Value(t, a)
             y == Value(t, b)
         IN  NotFolded(op, t, a, b) <=> y = 0 \/ (x = Lowest(t) /\ y = -1)
<1> DEFINE x == Value(t, a)
           y == Value(t, b)
<1>1. /\ b = 0 <=> y = 0
      /\ is_signed_integer_ty(t) => x = ToSigned(a) /\ y = ToSigned(b)
      /\ ~ is_signed_integer_ty(t) => y \in 0 .. Size(t) - 1 /\ y # -1
  <2>1. ~ is_signed_integer_ty(t) => y \in 0 .. Size(t) - 1 /\ Size(t) \in Nat
    BY CanonicalFacts, SizesOfType
  <2>2. ~ is_signed_integer_ty(t) => y # -1
    BY <2>1
  <2> QED
    BY <2>1, <2>2, CanonicalFacts
<1>2. is_signed_integer_ty(t) => SignedMin(t) = Lowest(t)
  BY SignedMinIsLowest
<1> HIDE DEF x, y
<1>3. NotFolded(op, t, a, b) <=> y = 0 \/ (x = Lowest(t) /\ y = -1)
  BY <1>1, <1>2 DEF NotFolded, DividesIn
<1> QED
  BY <1>3 DEF x, y

\* A folded division returns the quotient or the remainder of C++.
LEMMA FoldDivision ==
  ASSUME NEW t \in Types, NEW a, CanonicalWord(t, a), NEW b, CanonicalWord(t, b),
         NEW op, DividesIn(t, op), ~ NotFolded(op, t, a, b)
  PROVE  LET w == eval_arith(op, t, a, b)
             x == Value(t, a)
             y == Value(t, b)
         IN  /\ CanonicalWord(t, w)
             /\ x \in Int /\ y \in Int /\ y # 0
             /\ op \in {"sdiv", "udiv"} => Value(t, w) = TruncDiv(x, y)
             /\ op \in {"smod", "umod"} => Value(t, w) = TruncMod(x, y)
<1> DEFINE x == Value(t, a)
           y == Value(t, b)
           q == TruncDiv(x, y)
           m == TruncMod(x, y)
           H == Half(t)
<1>1. x \in Int /\ y \in Int /\ y # 0 /\ ~(x = Lowest(t) /\ y = -1)
  BY CanonicalFacts, DivisionRefused
<1>2. /\ Size(t) \in Nat \ {0} /\ H \in Nat \ {0} /\ Size(t) = 2 * H
  BY SizesOfType
<1>3. /\ q \in Int /\ m \in Int
      /\ Abs(q) <= Abs(x)
      /\ x >= 0 => m \in 0 .. x
      /\ x < 0 => m \in x .. 0
      /\ x >= 0 /\ y > 0 => q = x \div y /\ m = x % y /\ q \in 0 .. x
      /\ Abs(q) = Abs(x) => x = 0 \/ Abs(y) = 1
      /\ q > 0 => (x < 0) = (y < 0)
  <2> HIDE DEF x, y
  <2> QED
    BY <1>1, Quotients
<1>4. CASE is_signed_integer_ty(t)
  <2>1. /\ x \in -H .. H - 1 /\ Lowest(t) = -H
        /\ x = ToSigned(a) /\ y = ToSigned(b)
        /\ \A n : InRange(t, n) <=> n \in -H .. H - 1
    <3>1. Lowest(t) + Size(t) - 1 = H - 1 /\ Lowest(t) = -H
      BY <1>2, <1>4, RangeOfType
    <3> QED
      BY <1>4, <3>1, RangeOfType, CanonicalFacts
  <2>2. op \in {"sdiv", "smod"}
    BY <1>4 DEF DividesIn
  <2>3. /\ op = "sdiv" => eval_arith(op, t, a, b) = normalize(Wrap(q), t)
        /\ op = "smod" => eval_arith(op, t, a, b) = normalize(Wrap(m), t)
    BY <2>1 DEF eval_arith
  <2> HIDE DEF x, y, q, m, H
  <2>4. m \in -H .. H - 1
    BY <1>1, <1>2, <1>3, <2>1
  <2>5. q \in -H .. H - 1
    <3>1. q \in -H .. H
      BY <1>1, <1>2, <1>3, <2>1 DEF Abs
    <3>2. SUFFICES ASSUME q = H PROVE FALSE
      BY <1>2, <3>1
    <3>3. x = -H /\ Abs(q) = Abs(x)
      BY <1>1, <1>2, <1>3, <2>1, <3>2 DEF Abs
    <3>4. Abs(y) = 1 /\ y < 0
      BY <1>1, <1>2, <1>3, <3>2, <3>3
    <3>5. y = -1
      BY <1>1, <3>4 DEF Abs
    <3> QED
      BY <1>1, <2>1, <3>3, <3>5
  <2>6. /\ CanonicalWord(t, normalize(Wrap(q), t)) /\ Value(t, normalize(Wrap(q), t)) = q
        /\ CanonicalWord(t, normalize(Wrap(m), t)) /\ Value(t, normalize(Wrap(m), t)) = m
    BY <1>3, <2>1, <2>4, <2>5, WrappedIsCanonical
  <2>7. /\ CanonicalWord(t, eval_arith(op, t, a, b))
        /\ op = "sdiv" => Value(t, eval_arith(op, t, a, b)) = q
        /\ op = "smod" => Value(t, eval_arith(op, t, a, b)) = m
    BY <2>2, <2>3, <2>6
  <2> QED
    BY <1>1, <2>2, <2>7 DEF x, y, q, m
<1>5. CASE ~ is_signed_integer_ty(t)
  <2>1. /\ x = a /\ y = b /\ x \in 0 .. Size(t) - 1 /\ x \in 0 .. WordSize - 1
        /\ y \in 0 .. Size(t) - 1
        /\ Lowest(t) = 0 /\ WordSize \in Nat /\ Word = 0 .. WordSize - 1
    BY <1>5, CanonicalFacts, RangeOfType, SizesOfWord
  <2>2. op \in {"udiv", "umod"}
    BY <1>5 DEF DividesIn
  <2>3. /\ op = "udiv" => eval_arith(op, t, a, b) = normalize(x \div y, t)
        /\ op = "umod" => eval_arith(op, t, a, b) = normalize(x % y, t)
    BY <2>1 DEF eval_arith
  <2> HIDE DEF x, y, q, m, H
  <2>4. q \in 0 .. x /\ m \in 0 .. x /\ q = x \div y /\ m = x % y
    BY <1>1, <1>2, <1>3, <2>1
  <2>5. q \in Word /\ m \in Word /\ InRange(t, q) /\ InRange(t, m)
    <3>1. q \in 0 .. WordSize - 1 /\ m \in 0 .. WordSize - 1
      BY <2>1, <2>4
    <3>2. q \in 0 .. 0 + Size(t) - 1 /\ m \in 0 .. 0 + Size(t) - 1
      BY <1>2, <2>1, <2>4
    <3> QED
      BY <2>1, <3>1, <3>2, RangeOfType
  <2>6. /\ CanonicalWord(t, normalize(q, t)) /\ Value(t, normalize(q, t)) = q
        /\ CanonicalWord(t, normalize(m, t)) /\ Value(t, normalize(m, t)) = m
    BY <2>5, NormalizeKeeps
  <2>7. /\ CanonicalWord(t, eval_arith(op, t, a, b))
        /\ op = "udiv" => Value(t, eval_arith(op, t, a, b)) = q
        /\ op = "umod" => Value(t, eval_arith(op, t, a, b)) = m
    BY <2>2, <2>3, <2>4, <2>6
  <2> QED
    BY <1>1, <2>2, <2>7 DEF x, y, q, m
<1> QED
  BY <1>4, <1>5

\* A shift is refused when its amount is not below the width.
LEMMA ShiftRefused ==
  ASSUME NEW t \in Types, NEW a, NEW b, CanonicalWord(t, b),
         NEW op \in {"shl", "shr", "sar"}
  PROVE  NotFolded(op, t, a, b) => Value(t, b) \notin 0 .. t.bits - 1
<1> SUFFICES ASSUME NotFolded(op, t, a, b) PROVE Value(t, b) \notin 0 .. t.bits - 1
  OBVIOUS
<1>1. b >= t.bits
  BY DEF NotFolded
<1>2. Value(t, b) \in Int /\ (Value(t, b) = b \/ Value(t, b) = b - WordSize)
  BY CanonicalFacts
<1>3. b \in 0 .. WordSize - 1 /\ WordSize \in Nat /\ t.bits \in Nat
  BY CanonicalFacts, SizesOfWord, SizesOfType, WordBitsAssumption
<1> QED
  BY <1>1, <1>2, <1>3

\* A right shift keeps a canonical word canonical without normalising it.
LEMMA FoldShift ==
  ASSUME NEW t \in Types, NEW a, CanonicalWord(t, a), NEW b, CanonicalWord(t, b),
         NEW op,
         \/ op = "shl"
         \/ op = "sar" /\ is_signed_integer_ty(t)
         \/ op = "shr" /\ ~ is_signed_integer_ty(t),
         ~ NotFolded(op, t, a, b)
  PROVE  LET w == eval_arith(op, t, a, b)
             x == Value(t, a)
             r == Value(t, w)
         IN  /\ CanonicalWord(t, w)
             /\ op = "shl" => Congruent(t, r, x * 2^b)
             /\ op \in {"sar", "shr"} => r * 2^b <= x /\ x < (r + 1) * 2^b
<1> DEFINE x == Value(t, a)
           p == 2^b
           H == Half(t)
<1>1. /\ a \in 0 .. WordSize - 1 /\ a \in Int /\ x \in Int
      /\ SameModulo(Size(t), a, x)
      /\ is_signed_integer_ty(t) => x = ToSigned(a) /\ x \in -H .. H - 1
      /\ ~ is_signed_integer_ty(t) => x = a /\ a \in 0 .. Size(t) - 1
  BY CanonicalFacts
<1>2. p \in Nat \ {0} /\ p \in Int
  <2>1. b \in Nat
    BY CanonicalFacts, SizesOfWord
  <2> QED
    BY <2>1, PowersArePositive
<1>3. /\ Size(t) \in Nat \ {0} /\ Size(t) \in Int /\ H \in Nat \ {0} /\ Size(t) = 2 * H
      /\ H <= HalfWord /\ HalfWord \in Nat \ {0} /\ WordSize = 2 * HalfWord
      /\ WordSize \in Nat \ {0} /\ Word = 0 .. WordSize - 1
  BY SizesOfType, SizesOfWord
<1> DEFINE q == x \div p
<1>4. /\ q \in Int /\ q * p <= x /\ x < (q + 1) * p
      /\ x >= 0 => q \in 0 .. x
      /\ x < 0 => q \in x .. -1
  BY <1>1, <1>2, ShiftedDown
<1>5. CASE op = "shl"
  <2>1. eval_arith(op, t, a, b) = normalize(Wrap(a * p), t)
    BY <1>5 DEF eval_arith
  <2>2. SameModulo(Size(t), p, p)
    BY <1>2, <1>3, SameReflexive
  <2> HIDE DEF x, p, H, q
  <2>3. SameModulo(Size(t), a * p, x * p)
    BY <1>1, <1>2, <1>3, <2>2, SameArithmetic, Zenon
  <2>4. a * p \in Int /\ x * p \in Int
    BY <1>1, <1>2
  <2>5. /\ CanonicalWord(t, eval_arith(op, t, a, b))
        /\ Congruent(t, Value(t, eval_arith(op, t, a, b)), x * p)
    BY <2>1, <2>3, <2>4, WrappedResult
  <2> QED
    BY <1>5, <2>5 DEF x, p
<1>6. CASE op = "sar" /\ is_signed_integer_ty(t)
  <2>1. eval_arith(op, t, a, b) = Wrap(q) /\ Lowest(t) = -H
    BY <1>1, <1>6, RangeOfType DEF eval_arith
  <2> HIDE DEF x, p, H, q
  <2>2. q \in -H .. H - 1 /\ q \in -HalfWord .. HalfWord - 1
    BY <1>1, <1>3, <1>4, <1>6
  <2>3. Wrap(q) \in Word /\ ToSigned(Wrap(q)) = q
    BY <2>2, SignedOfWrapped
  <2>4. Value(t, Wrap(q)) = q
    BY <1>6, <2>3 DEF Value
  <2>5. InRange(t, q)
    BY <1>3, <2>1, <2>2, RangeOfType
  <2>6. CanonicalWord(t, eval_arith(op, t, a, b)) /\ Value(t, eval_arith(op, t, a, b)) = q
    BY <2>1, <2>3, <2>4, <2>5 DEF CanonicalWord
  <2> QED
    BY <1>4, <1>6, <2>6 DEF x, p
<1>7. CASE op = "shr" /\ ~ is_signed_integer_ty(t)
  <2>1. eval_arith(op, t, a, b) = q /\ Lowest(t) = 0
    BY <1>1, <1>7, RangeOfType DEF eval_arith
  <2> HIDE DEF x, p, H, q
  <2>2. q \in 0 .. WordSize - 1 /\ q \in 0 .. 0 + Size(t) - 1
    BY <1>1, <1>3, <1>4, <1>7
  <2>3. q \in Word /\ InRange(t, q)
    BY <1>3, <2>1, <2>2, RangeOfType
  <2>4. Value(t, q) = q
    BY <1>7 DEF Value
  <2>5. CanonicalWord(t, eval_arith(op, t, a, b)) /\ Value(t, eval_arith(op, t, a, b)) = q
    BY <2>1, <2>3, <2>4 DEF CanonicalWord
  <2> QED
    BY <1>4, <1>7, <2>5 DEF x, p
<1> QED
  BY <1>5, <1>6, <1>7

\* Whatever is folded is canonical again, so the next operation may read it.
LEMMA FoldIsCanonical ==
  ASSUME NEW t \in Types, NEW a, CanonicalWord(t, a), NEW b, CanonicalWord(t, b),
         NEW op \in OpsOf(t)
  PROVE  /\ NotFolded(op, t, a, b) => eval_arith(op, t, a, b) = None
         /\ ~ NotFolded(op, t, a, b) => CanonicalWord(t, eval_arith(op, t, a, b))
<1>1. NotFolded(op, t, a, b) => eval_arith(op, t, a, b) = None
  BY DEF eval_arith
<1>2. ASSUME ~ NotFolded(op, t, a, b) PROVE CanonicalWord(t, eval_arith(op, t, a, b))
  <2>1. CASE op \in {"add", "sub", "mul"}
    BY <2>1, FoldRing
  <2>2. CASE DividesIn(t, op)
    BY <1>2, <2>2, FoldDivision
  <2>3. CASE \/ op = "shl"
             \/ op = "sar" /\ is_signed_integer_ty(t)
             \/ op = "shr" /\ ~ is_signed_integer_ty(t)
    BY <1>2, <2>3, FoldShift
  <2> QED
    BY <2>1, <2>2, <2>3 DEF OpsOf, DividesIn
<1> QED
  BY <1>1, <1>2

-----------------------------------------------------------------------------
\* What the chain remembers: the last step, from which acc was computed, and
\* that its operands were canonical.
FoldInv ==
  /\ ty \in Types
  /\ last.op \in {"start", "lit", "-lit", "neg"} \cup OpsOf(ty)
  /\ last.op = "start" => acc = None
  /\ last.op = "lit" => /\ last.a \in Word /\ is_within_bounds(ty, last.a, FALSE)
                        /\ acc = normalize(last.a, ty)
  /\ last.op = "-lit" => /\ last.a \in Word /\ is_within_bounds(ty, last.a, TRUE)
                         /\ acc = eval_neg(ty, normalize(last.a, ty))
  /\ last.op = "neg" => CanonicalWord(ty, last.a) /\ acc = eval_neg(ty, last.a)
  /\ last.op \in OpsOf(ty) =>
       /\ CanonicalWord(ty, last.a) /\ CanonicalWord(ty, last.b)
       /\ acc = eval_arith(last.op, ty, last.a, last.b)

LEMMA CanonicalIsWord ==
  ASSUME NEW t \in Types, NEW w, CanonicalWord(t, w)
  PROVE  w \in Word /\ w # None
<1>1. w \in Word /\ w \in 0 .. WordSize - 1 /\ WordSize \in Nat
  BY SizesOfWord DEF CanonicalWord
<1> QED
  BY <1>1 DEF None

LEMMA AccIsCanonical ==
  ASSUME FoldInv
  PROVE  acc = None \/ CanonicalWord(ty, acc)
<1> USE DEF FoldInv
<1>1. CASE last.op = "start"
  BY <1>1
<1>2. CASE last.op = "lit"
  BY <1>2, NormalizeIsCanonical
<1>3. CASE last.op = "-lit"
  BY <1>3, NormalizeIsCanonical, NegateExact
<1>4. CASE last.op = "neg"
  BY <1>4, NegateExact
<1>5. CASE last.op \in OpsOf(ty)
  BY <1>5, FoldIsCanonical
<1> QED
  BY <1>1, <1>2, <1>3, <1>4, <1>5

LEMMA InitFold == Init => FoldInv
  BY DEF Init, FoldInv, OpsOf

LEMMA StepFold == FoldInv /\ [Next]_vars => FoldInv'
<1> SUFFICES ASSUME FoldInv, [Next]_vars PROVE FoldInv'
  OBVIOUS
<1>1. ASSUME NEW magnitude \in Word, NEW negated \in BOOLEAN, Literal(magnitude, negated)
      PROVE  FoldInv'
  <2>1. CASE negated
    <3>1. negated = TRUE
      BY <2>1
    <3> QED
      BY <1>1, <3>1 DEF Literal, FoldInv, OpsOf
  <2>2. CASE ~ negated
    <3>1. negated = FALSE
      BY <2>2
    <3> QED
      BY <1>1, <3>1 DEF Literal, FoldInv, OpsOf
  <2> QED
    BY <2>1, <2>2
<1>2. ASSUME NEW op \in OpsOf(ty), NEW w \in Words(ty), Fold(op, w)
      PROVE  FoldInv'
  <2>1. CanonicalWord(ty, acc) /\ CanonicalWord(ty, w) /\ ty \in Types
    BY <1>2, AccIsCanonical, WordsAreCanonical DEF Fold, FoldInv
  <2>2. op \notin {"start", "lit", "-lit", "neg"}
    BY <1>2 DEF OpsOf
  <2> QED
    BY <1>2, <2>1, <2>2 DEF Fold, FoldInv
<1>3. ASSUME Negate PROVE FoldInv'
  <2>1. CanonicalWord(ty, acc) /\ ty \in Types
    BY <1>3, AccIsCanonical DEF Negate, FoldInv
  <2> QED
    BY <1>3, <2>1 DEF Negate, FoldInv, OpsOf
<1>4. ASSUME UNCHANGED vars PROVE FoldInv'
  BY <1>4 DEF vars, FoldInv
<1> QED
  BY <1>1, <1>2, <1>3, <1>4 DEF Next

\* Every word of a chain of folded operations is the result of its last step
\* on canonical words (int_semantics.hpp 52-92).
THEOREM FoldingInvariant == Spec => []FoldInv
  BY InitFold, StepFold, PTL DEF Spec

\* However long the chain, the word stands for an integer of its type, also
\* after the shifts that are not normalised (int_semantics.hpp 52-92).
THEOREM ChainIsCanonical == Spec => []Canonical
<1>1. FoldInv => Canonical
  BY AccIsCanonical DEF Canonical, CanonicalWord
<1> QED
  BY <1>1, FoldingInvariant, PTL

\* The literals that is_within_bounds accepts are those of the type.
LEMMA BoundsExact ==
  ASSUME NEW t \in Types, NEW m \in Word
  PROVE  /\ is_within_bounds(t, m, FALSE) <=> InRange(t, m)
         /\ is_within_bounds(t, m, TRUE) <=> InRange(t, -m)
<1> DEFINE H == Half(t)
<1>1. m \in Nat
  BY SizesOfWord
<1>2. /\ Size(t) \in Nat \ {0} /\ H \in Nat \ {0} /\ Size(t) = 2 * H
      /\ is_signed_integer_ty(t) => Lowest(t) = -H
      /\ ~ is_signed_integer_ty(t) => Lowest(t) = 0
      /\ InRange(t, m) <=> m \in Lowest(t) .. Lowest(t) + Size(t) - 1
      /\ InRange(t, -m) <=> -m \in Lowest(t) .. Lowest(t) + Size(t) - 1
  BY SizesOfType, RangeOfType
<1>3. CASE is_signed_integer_ty(t)
  <2>1. ~ is_unsigned_integer_ty(t)
    BY <1>3 DEF is_signed_integer_ty, is_unsigned_integer_ty
  <2>2. /\ is_within_bounds(t, m, FALSE) <=> m <= H - 1
        /\ is_within_bounds(t, m, TRUE) <=> m <= (H - 1) + 1
    BY <1>3, <2>1 DEF is_within_bounds, Half
  <2> HIDE DEF H
  <2>3. InRange(t, m) <=> m <= H - 1
    BY <1>1, <1>2, <1>3
  <2>4. InRange(t, -m) <=> m <= (H - 1) + 1
    BY <1>1, <1>2, <1>3
  <2> QED
    BY <2>2, <2>3, <2>4
<1>4. CASE ~ is_signed_integer_ty(t)
  <2>1. is_unsigned_integer_ty(t)
    BY <1>4, TypesAssumption DEF is_signed_integer_ty, is_unsigned_integer_ty, is_integer_ty
  <2>2. /\ is_within_bounds(t, m, FALSE) <=> m <= Size(t) - 1
        /\ is_within_bounds(t, m, TRUE) <=> m = 0
    BY <1>4, <2>1 DEF is_within_bounds, Size
  <2> HIDE DEF H
  <2>3. InRange(t, m) <=> m <= Size(t) - 1
    BY <1>1, <1>2, <1>4
  <2>4. InRange(t, -m) <=> m = 0
    BY <1>1, <1>2, <1>4
  <2> QED
    BY <2>2, <2>3, <2>4
<1> QED
  BY <1>3, <1>4

\* A literal that the type checker accepts denotes the same integer once it is
\* lowered, under a minus too, and it accepts all that fit (types.hpp 99-109).
THEOREM LiteralsAreExact == Spec => []LiteralExact
<1>1. ASSUME FoldInv PROVE LiteralExact
  <2>1. ASSUME last.op = "lit" PROVE Value(ty, acc) = last.a
    <3>1. ty \in Types /\ last.a \in Word /\ InRange(ty, last.a)
      BY <1>1, <2>1, BoundsExact DEF FoldInv
    <3> QED
      BY <1>1, <2>1, <3>1, NormalizeKeeps DEF FoldInv
  <2>2. ASSUME last.op = "-lit" PROVE Value(ty, acc) = -last.a
    <3>1. ty \in Types /\ last.a \in Word /\ InRange(ty, -last.a)
      BY <1>1, <2>2, BoundsExact DEF FoldInv
    <3>0. last.a \in Int
      BY <3>1, SizesOfWord
    <3>2. /\ CanonicalWord(ty, normalize(last.a, ty))
          /\ SameModulo(Size(ty), Value(ty, normalize(last.a, ty)), last.a)
      BY <3>1, NormalizeIsCanonical
    <3>3. Value(ty, eval_neg(ty, normalize(last.a, ty))) = -last.a
      BY <3>0, <3>1, <3>2, NegateExact
    <3> QED
      BY <1>1, <2>2, <3>3 DEF FoldInv
  <2> QED
    BY <1>1, <2>1, <2>2, BoundsExact DEF LiteralExact, FoldInv
<1> QED
  BY <1>1, FoldingInvariant, PTL

LEMMA DivisionExact ==
  ASSUME NEW t \in Types, NEW a, CanonicalWord(t, a), NEW b, CanonicalWord(t, b),
         NEW op, DividesIn(t, op)
  PROVE  LET w == eval_arith(op, t, a, b)
             x == Value(t, a)
             y == Value(t, b)
             r == Value(t, w)
         IN  IF w = None THEN y = 0 \/ (x = Lowest(t) /\ y = -1)
             ELSE /\ y # 0
                  /\ op \in {"sdiv", "udiv"} =>
                       \E m \in -Abs(y) .. Abs(y) : IsQuotient(r, m, x, y)
                  /\ op \in {"smod", "umod"} =>
                       \E q \in -Abs(x) .. Abs(x) : IsQuotient(q, r, x, y)
<1> DEFINE w == eval_arith(op, t, a, b)
           x == Value(t, a)
           y == Value(t, b)
           r == Value(t, w)
<1>1. CASE NotFolded(op, t, a, b)
  <2>1. w = None
    BY <1>1 DEF eval_arith
  <2>2. y = 0 \/ (x = Lowest(t) /\ y = -1)
    BY <1>1, DivisionRefused
  <2> HIDE DEF w, x, y
  <2> QED
    BY <2>1, <2>2 DEF w, x, y
<1>2. CASE ~ NotFolded(op, t, a, b)
  <2>1. /\ CanonicalWord(t, w) /\ x \in Int /\ y \in Int /\ y # 0
        /\ op \in {"sdiv", "udiv"} => r = TruncDiv(x, y)
        /\ op \in {"smod", "umod"} => r = TruncMod(x, y)
    BY <1>2, FoldDivision
  <2>2. w # None
    BY <2>1, CanonicalIsWord
  <2> HIDE DEF w, x, y, r
  <2> DEFINE q == TruncDiv(x, y)
             m == TruncMod(x, y)
  <2>3. q \in Int /\ m \in Int /\ IsQuotient(q, m, x, y) /\ Abs(q) <= Abs(x)
    BY <2>1, Quotients
  <2>4. Abs(m) < Abs(y)
    BY <2>3 DEF IsQuotient
  <2> HIDE DEF q, m
  <2>5. q \in -Abs(x) .. Abs(x) /\ m \in -Abs(y) .. Abs(y)
    BY <2>1, <2>3, <2>4 DEF Abs
  <2>6. /\ op \in {"sdiv", "udiv"} => \E k \in -Abs(y) .. Abs(y) : IsQuotient(r, k, x, y)
        /\ op \in {"smod", "umod"} => \E k \in -Abs(x) .. Abs(x) : IsQuotient(k, r, x, y)
    BY <2>1, <2>3, <2>5 DEF q, m
  <2> QED
    BY <2>1, <2>2, <2>6 DEF w, x, y, r
<1> QED
  BY <1>1, <1>2

\* A folded operation agrees with integer arithmetic modulo the width, and is
\* refused exactly where that arithmetic has no answer of the type: a zero
\* divisor, the one quotient that overflows, a shift by the width or more
\* (int_semantics.hpp 52-92).
THEOREM FoldingIsExact == Spec => []FoldExact
<1>1. ASSUME FoldInv PROVE FoldExact
  <2> DEFINE x == Value(ty, last.a)
             y == Value(ty, last.b)
             r == Value(ty, acc)
  <2>1. ty \in Types
    BY <1>1 DEF FoldInv
  <2>2. ASSUME last.op \in OpsOf(ty)
        PROVE  /\ CanonicalWord(ty, last.a) /\ CanonicalWord(ty, last.b)
               /\ acc = eval_arith(last.op, ty, last.a, last.b)
    BY <1>1, <2>2 DEF FoldInv
  <2>3. CASE last.op \in {"start", "lit", "-lit"}
    <3>1. acc \in Word \cup {None}
      BY <1>1, AccIsCanonical, CanonicalIsWord, <2>1
    <3> QED
      BY <2>3, <3>1 DEF FoldExact
  <2>4. CASE last.op = "neg"
    <3>1. Congruent(ty, r, -x)
      BY <1>1, <2>1, <2>4, NegateExact DEF FoldInv
    <3> QED
      BY <2>4, <3>1 DEF FoldExact
  <2>5. CASE last.op = "add"
    <3>1. Congruent(ty, r, x + y)
      BY <2>1, <2>2, <2>5, FoldRing DEF OpsOf
    <3> QED
      BY <2>5, <3>1 DEF FoldExact
  <2>6. CASE last.op = "sub"
    <3>1. Congruent(ty, r, x - y)
      BY <2>1, <2>2, <2>6, FoldRing DEF OpsOf
    <3> QED
      BY <2>6, <3>1 DEF FoldExact
  <2>7. CASE last.op = "mul"
    <3>1. Congruent(ty, r, x * y)
      BY <2>1, <2>2, <2>7, FoldRing DEF OpsOf
    <3> QED
      BY <2>7, <3>1 DEF FoldExact
  <2>8. CASE last.op \in OpsOf(ty) /\ last.op \in {"sdiv", "smod", "udiv", "umod"}
    <3>1. DividesIn(ty, last.op)
      BY <2>8 DEF OpsOf, DividesIn
    <3>2. IF acc = None THEN y = 0 \/ (x = Lowest(ty) /\ y = -1)
          ELSE /\ y # 0
               /\ last.op \in {"sdiv", "udiv"} =>
                    \E m \in -Abs(y) .. Abs(y) : IsQuotient(r, m, x, y)
               /\ last.op \in {"smod", "umod"} =>
                    \E q \in -Abs(x) .. Abs(x) : IsQuotient(q, r, x, y)
      BY <2>1, <2>2, <2>8, <3>1, DivisionExact
    <3>3. CASE last.op \in {"sdiv", "udiv"}
      BY <3>2, <3>3 DEF FoldExact
    <3>4. CASE last.op \in {"smod", "umod"}
      BY <3>2, <3>4 DEF FoldExact
    <3> QED
      BY <2>8, <3>3, <3>4
  <2>9. CASE last.op \in OpsOf(ty) /\ last.op \in {"shl", "shr", "sar"}
    <3>1. CASE NotFolded(last.op, ty, last.a, last.b)
      <4>1. acc = None /\ y \notin 0 .. ty.bits - 1
        BY <2>1, <2>2, <2>9, <3>1, ShiftRefused, FoldIsCanonical
      <4> QED
        BY <2>9, <4>1 DEF FoldExact
    <3>2. CASE ~ NotFolded(last.op, ty, last.a, last.b)
      <4>1. \/ last.op = "shl"
            \/ last.op = "sar" /\ is_signed_integer_ty(ty)
            \/ last.op = "shr" /\ ~ is_signed_integer_ty(ty)
        BY <2>9 DEF OpsOf
      <4>2. /\ CanonicalWord(ty, acc)
            /\ last.op = "shl" => Congruent(ty, r, x * 2^last.b)
            /\ last.op \in {"sar", "shr"} => r * 2^last.b <= x /\ x < (r + 1) * 2^last.b
        BY <2>1, <2>2, <2>9, <3>2, <4>1, FoldShift
      <4>3. acc # None
        BY <2>1, <4>2, CanonicalIsWord
      <4>4. CASE last.op = "shl"
        BY <4>2, <4>3, <4>4 DEF FoldExact
      <4>5. CASE last.op \in {"sar", "shr"}
        BY <4>2, <4>3, <4>5 DEF FoldExact
      <4> QED
        BY <2>9, <4>4, <4>5
    <3> QED
      BY <3>1, <3>2
  <2> QED
    BY <1>1, <2>3, <2>4, <2>5, <2>6, <2>7, <2>8, <2>9 DEF FoldInv, OpsOf
<1> QED
  BY <1>1, FoldingInvariant, PTL

\* The comparisons that lowering picks for a type order the words of the type
\* as the integers they stand for (int_semantics.hpp 35-50).
THEOREM ComparisonsAreExact == Spec => []CompareExact
<1>1. ASSUME FoldInv PROVE CompareExact
  <2> SUFFICES ASSUME acc # None, NEW w \in Words(ty), NEW op \in CmpsOf(ty)
               PROVE  LET x == Value(ty, acc)
                          y == Value(ty, w)
                      IN  eval_cmp(op, acc, w) <=>
                            CASE op = "eq" -> x = y
                              [] op \in {"slt", "ult"} -> x < y
                              [] op \in {"sle", "ule"} -> x <= y
                              [] op \in {"sgt", "ugt"} -> x > y
                              [] op \in {"sge", "uge"} -> x >= y
    BY DEF CompareExact
  <2>1. ty \in Types /\ CanonicalWord(ty, acc) /\ CanonicalWord(ty, w)
    BY <1>1, AccIsCanonical, WordsAreCanonical DEF FoldInv
  <2> DEFINE x == Value(ty, acc)
             y == Value(ty, w)
  <2>2. /\ is_signed_integer_ty(ty) => x = ToSigned(acc) /\ y = ToSigned(w)
        /\ ~ is_signed_integer_ty(ty) => x = acc /\ y = w
        /\ acc = w <=> x = y
    <3>1. /\ acc \in 0 .. WordSize - 1 /\ w \in 0 .. WordSize - 1 /\ WordSize \in Nat
          /\ HalfWord \in Nat /\ WordSize = 2 * HalfWord
      BY <2>1, CanonicalFacts, SizesOfWord
    <3>2. /\ is_signed_integer_ty(ty) =>
               /\ x = (IF acc >= HalfWord THEN acc - WordSize ELSE acc)
               /\ y = (IF w >= HalfWord THEN w - WordSize ELSE w)
               /\ x = ToSigned(acc) /\ y = ToSigned(w)
          /\ ~ is_signed_integer_ty(ty) => x = acc /\ y = w
      BY <2>1, CanonicalFacts
    <3> HIDE DEF x, y
    <3>3. acc = w <=> x = y
      BY <3>1, <3>2
    <3> QED
      BY <3>2, <3>3
  <2> HIDE DEF x, y
  <2>3. CASE op = "eq"
    BY <2>2, <2>3 DEF eval_cmp, x, y
  <2>4. CASE op \in {"slt", "sle", "sgt", "sge"} /\ is_signed_integer_ty(ty)
    BY <2>2, <2>4 DEF eval_cmp, x, y
  <2>5. CASE op \in {"ult", "ule", "ugt", "uge"} /\ ~ is_signed_integer_ty(ty)
    BY <2>2, <2>5 DEF eval_cmp, x, y
  <2> QED
    BY <2>3, <2>4, <2>5 DEF CmpsOf
<1> QED
  BY <1>1, FoldingInvariant, PTL
=============================================================================
