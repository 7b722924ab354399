---------------------------- MODULE Words_proofs ----------------------------
(***************************************************************************)
(* Facts about the arithmetic of words of any width, for the proofs about  *)
(* the modules that use it.                                                *)
(***************************************************************************)
EXTENDS Words, Numbers_proofs

\* Every operation gives a word: the wrap of uint32_t.
LEMMA WordOperations ==
    ASSUME NEW a \in Word, NEW b \in Word, NEW n
    PROVE  /\ Plus(a, b) \in Word
           /\ Minus(a, b) \in Word
           /\ Differ(a, b) \in Word
           /\ ShiftLeft(a, n) \in Word
           /\ ShiftRight(a, n) \in Word
BY DEF Plus, Minus, Differ, Borrows, ShiftLeft, ShiftRight, Word

\* Adding carries nothing into bit 0: sums of even words (m_pc += 4, jumps and
\* the vectors of RaiseException) are even words.
LEMMA PlusEven ==
    ASSUME NEW a \in Word, NEW b \in Word, 0 \notin a, 0 \notin b
    PROVE  Plus(a, b) \in Word /\ 0 \notin Plus(a, b)
BY DEF Plus, Sum, Differ, Carries, Word

\* Adding nothing changes nothing.
LEMMA PlusNothing ==
    ASSUME NEW a \in Word
    PROVE  Plus(a, {}) = a
BY DEF Plus, Sum, Differ, Carries, Word

\* The small bits are bits of a word.
LEMMA SmallBits == 0 .. 12 \subseteq Bit /\ Sign \in Bit /\ Sign > 12
BY XLenAssumption DEF Bit, Sign

-----------------------------------------------------------------------------
(* Words as numbers *)

\* The digits of a word, and the number of its low n bits.
Digits(w) == [i \in Bit |-> IF i \in w THEN 1 ELSE 0]
Low(w, n) == FromDigits(Digits(w), 2, n)
One(P) == IF P THEN 1 ELSE 0

\* The digits of a word are digits in base 2.
LEMMA WordDigits ==
    ASSUME NEW w, NEW n \in 0 .. XLen
    PROVE  InBase(Digits(w), 2, n) /\ HasDigits(Digits(w), n)
BY XLenAssumption DEF InBase, HasDigits, Digits, Bit

\* One more bit.
LEMMA LowStep ==
    ASSUME NEW w, NEW n \in Bit
    PROVE  /\ Low(w, 0) = 0
           /\ Low(w, n) \in Nat
           /\ Low(w, n + 1) = Low(w, n) + One(n \in w) * Power(2, n)
           /\ Power(2, n) \in Nat /\ Power(2, n + 1) = 2 * Power(2, n)
           /\ n + 1 \in 0 .. XLen
<1>1. n \in Nat /\ n + 1 \in 0 .. XLen
  BY XLenAssumption DEF Bit
<1>2. HasDigits(Digits(w), n + 1)
  BY <1>1, WordDigits
<1>3. Digits(w)[n] = One(n \in w)
  BY DEF Digits, One
<1>4. Power(2, n) \in Nat /\ Power(2, n + 1) = 2 * Power(2, n)
  BY <1>1, PowerStep
<1> QED BY <1>1, <1>2, <1>3, <1>4, DigitsStep DEF Low

\* The number of a word is between 0 and 2 to the XLen.
LEMMA NumBound ==
    ASSUME NEW w
    PROVE  /\ Num(w) = Low(w, XLen)
           /\ Num(w) \in 0 .. Power(2, XLen) - 1
           /\ Num(w) \in Nat
           /\ Power(2, XLen) \in Nat /\ Power(2, XLen) > 0
<1>1. XLen \in Nat /\ XLen \in 0 .. XLen
  BY XLenAssumption
<1>2. Power(2, XLen) \in Nat /\ Power(2, XLen) > 0
  BY <1>1, PowerPositive
<1>3. InBase(Digits(w), 2, XLen)
  BY <1>1, WordDigits
<1>4. Num(w) = Low(w, XLen)
  <2>1. CASE w = {}
    <3>1. \A i \in 0 .. XLen - 1 : Digits(w)[i] = 0 BY <2>1 DEF Digits, Bit
    <3>2. FromDigits(Digits(w), 2, XLen) = 0 BY <1>1, <3>1, ZeroDigits
    <3> QED BY <2>1, <3>2 DEF Num, Low
  <2>2. CASE w # {} BY <2>2 DEF Num, Low, Digits
  <2> QED BY <2>1, <2>2
<1>5. Low(w, XLen) \in 0 .. Power(2, XLen) - 1
  BY <1>1, <1>3, DigitsBound DEF Low
<1> QED BY <1>2, <1>4, <1>5

\* The bits of a word are those of its number.
LEMMA NumBit ==
    ASSUME NEW w, NEW k \in Bit
    PROVE  (Num(w) \div Power(2, k)) % 2 = One(k \in w)
<1>1. XLen \in Nat /\ XLen \in 0 .. XLen /\ k \in 0 .. XLen - 1
  BY XLenAssumption DEF Bit
<1>2. InBase(Digits(w), 2, XLen)
  BY <1>1, WordDigits
<1>3. (FromDigits(Digits(w), 2, XLen) \div Power(2, k)) % 2 = Digits(w)[k]
  BY <1>1, <1>2, DigitAt
<1> QED BY <1>3, NumBound DEF Digits, One, Low

\* Words are the same when their numbers are.
LEMMA NumInjective ==
    ASSUME NEW a \in Word, NEW b \in Word, Num(a) = Num(b)
    PROVE  a = b
<1>1. \A k \in Bit : One(k \in a) = One(k \in b)
  BY NumBit
<1> QED BY <1>1 DEF Word, One

-----------------------------------------------------------------------------
(* Sums *)

\* A carry goes into the bit above two ones, and past any one.
LEMMA CarryStep ==
    ASSUME NEW a \in Word, NEW b \in Word, NEW k \in Bit
    PROVE  k + 1 \in Carries(a, b)
               <=> (k \in a /\ k \in b) \/ (k \in Carries(a, b) /\ (k \in a \/ k \in b))
<1>1. k \in Nat /\ k + 1 \in 1 .. XLen /\ k <= XLen
  BY XLenAssumption DEF Bit
<1>2. ASSUME k \in a, k \in b PROVE k + 1 \in Carries(a, b)
  BY <1>1, <1>2 DEF Carries
<1>3. ASSUME k \in Carries(a, b), k \in a \/ k \in b PROVE k + 1 \in Carries(a, b)
  <2>1. PICK j \in a \cap b : j < k /\ \A i \in j + 1 .. k - 1 : i \in a \cup b
    BY <1>3 DEF Carries
  <2>2. \A i \in j + 1 .. (k + 1) - 1 : i \in a \cup b
    BY <1>1, <1>3, <2>1 DEF Word, Bit
  <2> QED BY <1>1, <2>1, <2>2 DEF Carries, Word, Bit
<1>4. ASSUME k + 1 \in Carries(a, b), ~(k \in a /\ k \in b)
      PROVE  k \in Carries(a, b) /\ (k \in a \/ k \in b)
  <2>1. PICK j \in a \cap b : j < k + 1 /\ \A i \in j + 1 .. (k + 1) - 1 : i \in a \cup b
    BY <1>4 DEF Carries
  <2>2. j \in Nat /\ j < k
    BY <1>1, <1>4, <2>1 DEF Word, Bit
  <2>3. k \in a \cup b
    BY <1>1, <2>1, <2>2
  <2>4. \A i \in j + 1 .. k - 1 : i \in a \cup b
    BY <1>1, <2>1, <2>2
  <2> QED BY <1>1, <2>1, <2>2, <2>3, <2>4 DEF Carries
<1> QED BY <1>2, <1>3, <1>4

\* Bit by bit, the sum with its carry is the sum.
LEMMA PartialSum ==
    ASSUME NEW a \in Word, NEW b \in Word, NEW n \in 0 .. XLen
    PROVE  Low(a, n) + Low(b, n)
               = Low(Plus(a, b), n) + One(n \in Carries(a, b)) * Power(2, n)
<1> DEFINE s == Plus(a, b)
           Holds(k) == Low(a, k) + Low(b, k) = Low(s, k) + One(k \in Carries(a, b)) * Power(2, k)
           T == {k \in Nat : k <= XLen => Holds(k)}
<1>1. 0 \in T
  <2>1. 0 \in Bit BY XLenAssumption DEF Bit
  <2>2. 0 \notin Carries(a, b) BY DEF Carries
  <2>3. Low(a, 0) = 0 /\ Low(b, 0) = 0 /\ Low(s, 0) = 0 /\ Power(2, 0) \in Nat
    BY <2>1, LowStep
  <2> HIDE DEF s
  <2> QED BY <2>2, <2>3 DEF One
<1>2. ASSUME NEW k \in T, k + 1 <= XLen PROVE Holds(k + 1)
  <2> DEFINE x == One(k \in a)
             y == One(k \in b)
             c == One(k \in Carries(a, b))
             d == One(k + 1 \in Carries(a, b))
             z == One(k \in s)
             p == Power(2, k)
             u == Low(a, k)
             v == Low(b, k)
             w == Low(s, k)
  <2>1. k \in Bit
    <3>1. k \in Nat /\ k <= XLen - 1 BY <1>2, XLenAssumption
    <3> QED BY <3>1, XLenAssumption DEF Bit
  <2>2. x + y + c = z + 2 * d
    <3>1. k \in s <=> ((k \in a <=> k \notin b) <=> k \notin Carries(a, b))
      BY <2>1 DEF Plus, Sum, Differ
    <3> QED BY <2>1, <3>1, CarryStep DEF One
  <2>3. x \in {0, 1} /\ y \in {0, 1} /\ c \in {0, 1} /\ d \in {0, 1} /\ z \in {0, 1}
    BY DEF One
  <2>4. /\ Low(a, k + 1) = u + x * p
        /\ Low(b, k + 1) = v + y * p
        /\ Low(s, k + 1) = w + z * p
        /\ u \in Nat /\ v \in Nat /\ w \in Nat
        /\ p \in Nat /\ Power(2, k + 1) = 2 * p
    BY <2>1, LowStep
  <2>5. u + v = w + c * p
    <3>1. k \in Nat /\ k <= XLen BY <1>2, XLenAssumption
    <3>2. Holds(k) BY <1>2, <3>1
    <3> QED BY <3>2
  <2> HIDE DEF x, y, c, d, z, p, s, u, v, w
  <2>6. (u + x * p) + (v + y * p) = (w + z * p) + d * (2 * p)
    BY <2>2, <2>3, <2>4, <2>5
  <2> QED BY <2>4, <2>6 DEF d, s
<1>3. \A k \in T : k + 1 \in T
  <2>1. ASSUME NEW k \in T PROVE k + 1 \in T BY <1>2
  <2> QED BY <2>1
<1>4. T \in SUBSET Nat OBVIOUS
<1> HIDE DEF T
<1>5. n \in T BY <1>1, <1>3, <1>4, Induction
<1> QED BY <1>5 DEF T

\* The sum of words is the sum of their numbers modulo 2 to the XLen: unsigned
\* addition as C++ has it.
THEOREM PlusIsSum ==
    ASSUME NEW a \in Word, NEW b \in Word
    PROVE  Num(Plus(a, b)) = (Num(a) + Num(b)) % Power(2, XLen)
<1> DEFINE c == One(XLen \in Carries(a, b))
           p == Power(2, XLen)
           x == Num(a) + Num(b)
           r == Num(Plus(a, b))
<1>1. XLen \in 0 .. XLen BY XLenAssumption
<1>2. x = r + c * p
  BY <1>1, PartialSum, NumBound
<1>3. c \in {0, 1} BY DEF One
<1>4. p \in Nat /\ p > 0 /\ r \in Nat /\ r < p
  BY NumBound
<1> HIDE DEF c, p, x, r
<1>5. x = c * p + r /\ c \in Int
  BY <1>2, <1>3, <1>4
<1>6. x % p = r
  BY <1>4, <1>5, Division
<1> QED BY <1>6 DEF p, x, r

-----------------------------------------------------------------------------
(* Differences *)

\* Whether the low i bits of a are less than those of b: a - b borrows from bit i.
Borrowed(a, b, i) == \E j \in b \ a : j < i /\ \A k \in j + 1 .. i - 1 : k \in b \/ k \notin a

\* A borrow is from the bit above a one under a zero, and past equal bits.
LEMMA BorrowStep ==
    ASSUME NEW a \in Word, NEW b \in Word, NEW k \in Bit
    PROVE  Borrowed(a, b, k + 1)
               <=> (k \in b /\ k \notin a) \/ (Borrowed(a, b, k) /\ (k \in b \/ k \notin a))
<1>1. k \in Nat
  BY XLenAssumption DEF Bit
<1>2. ASSUME k \in b, k \notin a PROVE Borrowed(a, b, k + 1)
  BY <1>1, <1>2 DEF Borrowed
<1>3. ASSUME Borrowed(a, b, k), k \in b \/ k \notin a PROVE Borrowed(a, b, k + 1)
  <2>1. PICK j \in b \ a : j < k /\ \A i \in j + 1 .. k - 1 : i \in b \/ i \notin a
    BY <1>3 DEF Borrowed
  <2>2. \A i \in j + 1 .. (k + 1) - 1 : i \in b \/ i \notin a
    BY <1>1, <1>3, <2>1 DEF Word, Bit
  <2> QED BY <1>1, <2>1, <2>2 DEF Borrowed, Word, Bit
<1>4. ASSUME Borrowed(a, b, k + 1), ~(k \in b /\ k \notin a)
      PROVE  Borrowed(a, b, k) /\ (k \in b \/ k \notin a)
  <2>1. PICK j \in b \ a : j < k + 1 /\ \A i \in j + 1 .. (k + 1) - 1 : i \in b \/ i \notin a
    BY <1>4 DEF Borrowed
  <2>2. j \in Nat /\ j < k
    BY <1>1, <1>4, <2>1 DEF Word, Bit
  <2>3. k \in b \/ k \notin a
    BY <1>1, <2>1, <2>2
  <2>4. \A i \in j + 1 .. k - 1 : i \in b \/ i \notin a
    BY <1>1, <2>1, <2>2
  <2> QED BY <1>1, <2>1, <2>2, <2>3, <2>4 DEF Borrowed
<1> QED BY <1>2, <1>3, <1>4

\* Bit by bit, the difference with its borrow is the difference.
LEMMA PartialDifference ==
    ASSUME NEW a \in Word, NEW b \in Word, NEW n \in 0 .. XLen
    PROVE  Low(a, n) + One(Borrowed(a, b, n)) * Power(2, n)
               = Low(b, n) + Low(Minus(a, b), n)
<1> DEFINE s == Minus(a, b)
           Holds(k) == Low(a, k) + One(Borrowed(a, b, k)) * Power(2, k) = Low(b, k) + Low(s, k)
           T == {k \in Nat : k <= XLen => Holds(k)}
<1>1. 0 \in T
  <2>1. 0 \in Bit BY XLenAssumption DEF Bit
  <2>2. ~Borrowed(a, b, 0) BY DEF Borrowed, Word, Bit
  <2>3. Low(a, 0) = 0 /\ Low(b, 0) = 0 /\ Low(s, 0) = 0 /\ Power(2, 0) \in Nat
    BY <2>1, LowStep
  <2> HIDE DEF s
  <2> QED BY <2>2, <2>3 DEF One
<1>2. ASSUME NEW k \in T, k + 1 <= XLen PROVE Holds(k + 1)
  <2> DEFINE x == One(k \in a)
             y == One(k \in b)
             c == One(Borrowed(a, b, k))
             d == One(Borrowed(a, b, k + 1))
             z == One(k \in s)
             p == Power(2, k)
             u == Low(a, k)
             v == Low(b, k)
             w == Low(s, k)
  <2>1. k \in Bit
    <3>1. k \in Nat /\ k <= XLen - 1 BY <1>2, XLenAssumption
    <3> QED BY <3>1, XLenAssumption DEF Bit
  <2>2. x + 2 * d = y + z + c
    <3>1. k \in s <=> ((k \in a <=> k \notin b) <=> ~Borrowed(a, b, k))
      BY <2>1 DEF Minus, Differ, Borrows, Borrowed
    <3> QED BY <2>1, <3>1, BorrowStep DEF One
  <2>3. x \in {0, 1} /\ y \in {0, 1} /\ c \in {0, 1} /\ d \in {0, 1} /\ z \in {0, 1}
    BY DEF One
  <2>4. /\ Low(a, k + 1) = u + x * p
        /\ Low(b, k + 1) = v + y * p
        /\ Low(s, k + 1) = w + z * p
        /\ u \in Nat /\ v \in Nat /\ w \in Nat
        /\ p \in Nat /\ Power(2, k + 1) = 2 * p
    BY <2>1, LowStep
  <2>5. u + c * p = v + w
    <3>1. k \in Nat /\ k <= XLen BY <1>2, XLenAssumption
    <3>2. Holds(k) BY <1>2, <3>1
    <3> QED BY <3>2
  <2> HIDE DEF x, y, c, d, z, p, s, u, v, w
  <2>6. (u + x * p) + d * (2 * p) = (v + y * p) + (w + z * p)
    BY <2>2, <2>3, <2>4, <2>5
  <2> QED BY <2>4, <2>6 DEF d, s
<1>3. \A k \in T : k + 1 \in T
  <2>1. ASSUME NEW k \in T PROVE k + 1 \in T BY <1>2
  <2> QED BY <2>1
<1>4. T \in SUBSET Nat OBVIOUS
<1> HIDE DEF T
<1>5. n \in T BY <1>1, <1>3, <1>4, Induction
<1> QED BY <1>5 DEF T

\* The whole of a - b borrows when a is less.
LEMMA BorrowedIsLess ==
    ASSUME NEW a \in Word, NEW b \in Word
    PROVE  Borrowed(a, b, XLen) <=> Less(a, b)
<1>1. ASSUME NEW j \in b \ a
      PROVE  (\A k \in j + 1 .. XLen - 1 : k \in b \/ k \notin a) <=> (\A k \in a \ b : k < j)
  <2>1. XLen \in Nat /\ j \in 0 .. XLen - 1 /\ \A k \in a : k \in 0 .. XLen - 1
    BY XLenAssumption DEF Word, Bit
  <2>2. ASSUME \A k \in j + 1 .. XLen - 1 : k \in b \/ k \notin a, NEW k \in a \ b
        PROVE  k < j
    BY <2>1, <2>2
  <2>3. ASSUME \A k \in a \ b : k < j, NEW k \in j + 1 .. XLen - 1
        PROVE  k \in b \/ k \notin a
    BY <2>1, <2>3
  <2> QED BY <2>2, <2>3
<1>2. \A j \in b : j < XLen
  BY XLenAssumption DEF Word, Bit
<1> QED BY <1>1, <1>2 DEF Borrowed, Less

\* The difference of words is that of their numbers modulo 2 to the XLen, and
\* the comparison of words that of their numbers: unsigned arithmetic as C++
\* has it.
THEOREM MinusIsDifference ==
    ASSUME NEW a \in Word, NEW b \in Word
    PROVE  /\ Num(Minus(a, b)) = (Num(a) - Num(b)) % Power(2, XLen)
           /\ Less(a, b) <=> Num(a) < Num(b)
<1> DEFINE c == One(Less(a, b))
           p == Power(2, XLen)
           u == Num(a)
           v == Num(b)
           x == u - v
           r == Num(Minus(a, b))
<1>1. XLen \in 0 .. XLen BY XLenAssumption
<1>2. u + c * p = v + r
  <2>1. One(Borrowed(a, b, XLen)) = c
    BY BorrowedIsLess DEF One
  <2> QED BY <1>1, <2>1, PartialDifference, NumBound
<1>3. c \in {0, 1} /\ (Less(a, b) <=> c = 1) BY DEF One
<1>4. /\ p \in Nat /\ p > 0 /\ r \in Nat /\ r < p
      /\ u \in Nat /\ u < p /\ v \in Nat /\ v < p
  BY NumBound
<1> HIDE DEF c, p, u, v, r
<1>5. x = (-c) * p + r /\ -c \in Int
  BY <1>2, <1>3, <1>4
<1>6. Less(a, b) <=> u < v
  BY <1>2, <1>3, <1>4
<1> HIDE DEF x
<1>7. x % p = r
  BY <1>4, <1>5, Division
<1> QED BY <1>6, <1>7 DEF p, x, r, u, v

-----------------------------------------------------------------------------
(* Numbers as words *)

\* The word of a number: its low XLen bits.
WordOf(x) == {k \in Bit : BitOf(x, k) = 1}

\* A bit is 0 or 1.
LEMMA BitIs ==
    ASSUME NEW x \in Int, NEW k \in Nat
    PROVE  BitOf(x, k) \in {0, 1}
<1>1. Power(2, k) \in Nat /\ Power(2, k) > 0
  BY Two
<1>2. x \div Power(2, k) \in Int
  BY <1>1, Remainder
<1> QED BY <1>2 DEF BitOf

\* It is the number modulo 2 to the XLen.
LEMMA NumWordOf ==
    ASSUME NEW x \in Int
    PROVE  WordOf(x) \in Word /\ Num(WordOf(x)) = x % Power(2, XLen)
<1> DEFINE d == DigitsOf(x, 2, XLen)
           e == Digits(WordOf(x))
<1>1. XLen \in Nat
  BY XLenAssumption
<1>2. InBase(d, 2, XLen) /\ FromDigits(d, 2, XLen) = x % Power(2, XLen)
  BY <1>1, DigitsMake
<1>3. \A i \in 0 .. XLen - 1 : e[i] = d[i]
  <2>1. ASSUME NEW i \in 0 .. XLen - 1 PROVE e[i] = d[i]
    <3>1. i \in Bit /\ i \in Nat BY DEF Bit
    <3>2. d[i] = BitOf(x, i) BY DEF DigitsOf, BitOf
    <3>3. BitOf(x, i) \in {0, 1} BY <3>1, BitIs
    <3>4. e[i] = IF BitOf(x, i) = 1 THEN 1 ELSE 0 BY <3>1 DEF Digits, WordOf
    <3> QED BY <3>2, <3>3, <3>4
  <2> QED BY <2>1
<1>4. HasDigits(d, XLen)
  BY <1>1, <1>2, DigitsBound
<1> HIDE DEF d, e
<1>5. FromDigits(e, 2, XLen) = FromDigits(d, 2, XLen)
  BY <1>1, <1>3, <1>4, DigitsSame
<1> QED BY <1>2, <1>5, NumBound DEF e, Low, WordOf, Word

\* The bits of a word, beyond its last as well.
LEMMA NumBits ==
    ASSUME NEW w \in Word, NEW k \in Nat
    PROVE  BitOf(Num(w), k) = One(k \in w)
<1>1. CASE k \in Bit
  BY <1>1, NumBit DEF BitOf
<1>2. CASE k \notin Bit
  <2>1. k >= XLen /\ XLen \in Nat /\ k \notin w
    BY <1>2, XLenAssumption DEF Bit, Word
  <2> DEFINE x == Num(w)
             p == Power(2, XLen)
  <2>2. x \in Int /\ -p <= x /\ x < p /\ x >= 0
    BY NumBound
  <2> HIDE DEF x
  <2>3. BitOf(x, k) = IF x < 0 THEN 1 ELSE 0
    BY <2>1, <2>2, BitsAbove
  <2> QED BY <2>1, <2>2, <2>3 DEF x, One
<1> QED BY <1>1, <1>2

\* A word is the word of its number.
LEMMA WordOfNum ==
    ASSUME NEW w \in Word
    PROVE  WordOf(Num(w)) = w
<1>1. \A k \in Bit : k \in Nat /\ BitOf(Num(w), k) = One(k \in w)
  BY NumBits DEF Bit
<1>2. \A k \in Bit : BitOf(Num(w), k) = 1 <=> k \in w
  BY <1>1 DEF One
<1> QED BY <1>2 DEF WordOf, Word

\* To find the number of a set of bits.
LEMMA NumIs ==
    ASSUME NEW w \in Word, NEW x \in Int, \A k \in Bit : k \in w <=> BitOf(x, k) = 1
    PROVE  Num(w) = x % Power(2, XLen)
<1>1. w = WordOf(x)
  BY DEF WordOf, Word
<1> QED BY <1>1, NumWordOf

\* Sums of remainders.
LEMMA Modulo ==
    ASSUME NEW m \in Nat, m > 0, NEW x \in Int, NEW y \in Int, NEW q \in Int
    PROVE  /\ (x + q * m) % m = x % m
           /\ (x + (y % m)) % m = (x + y) % m
           /\ ((x % m) + y) % m = (x + y) % m
           /\ (x % m) % m = x % m
<1>1. \A u, v \in Int : (u + v * m) % m = u % m
  <2>1. ASSUME NEW u \in Int, NEW v \in Int PROVE (u + v * m) % m = u % m
    <3> DEFINE a == u \div m
               b == u % m
               c == a + v
               z == u + v * m
    <3>1. a \in Int /\ b \in Nat /\ b < m /\ u = a * m + b
      BY Remainder
    <3> HIDE DEF a, b
    <3>2. z = c * m + b /\ c \in Int
      BY <3>1
    <3> HIDE DEF c, z
    <3>3. z % m = b
      BY <3>1, <3>2, Division
    <3> QED BY <3>3 DEF b, z
  <2> QED BY <2>1
<1>2. ASSUME NEW u \in Int, NEW v \in Int PROVE (u + (v % m)) % m = (u + v) % m
  <2> DEFINE a == v \div m
             b == v % m
  <2>1. a \in Int /\ b \in Int /\ v = a * m + b
    BY Remainder
  <2> HIDE DEF a, b
  <2>2. u + v = (u + b) + a * m /\ u + b \in Int
    BY <2>1
  <2>3. ((u + b) + a * m) % m = (u + b) % m
    BY <1>1, <2>1, <2>2
  <2> QED BY <2>2, <2>3 DEF b
<1>3. ((x % m) + y) % m = (x + y) % m
  <2>1. x % m \in Int BY Remainder
  <2>2. (x % m) + y = y + (x % m) /\ x + y = y + x BY <2>1
  <2> QED BY <1>2, <2>2
<1>4. (x % m) % m = x % m
  <2>1. (0 + (x % m)) % m = (0 + x) % m
    <3>1. 0 \in Int OBVIOUS
    <3> QED BY <3>1, <1>2
  <2>2. x % m \in Int BY Remainder
  <2>3. 0 + (x % m) = x % m /\ 0 + x = x BY <2>2
  <2> QED BY <2>1, <2>3
<1> QED BY <1>1, <1>2, <1>3, <1>4

-----------------------------------------------------------------------------
(* Signs *)

\* The number of a word in two's complement.
SignedNum(w) == IF Sign \in w THEN Num(w) - Power(2, XLen) ELSE Num(w)

\* The sign is set in the upper half.
LEMMA SignHalf ==
    ASSUME NEW w \in Word
    PROVE  /\ Sign \in w <=> Num(w) >= Power(2, XLen - 1)
           /\ Power(2, XLen) = 2 * Power(2, XLen - 1)
           /\ Power(2, XLen - 1) \in Nat /\ Power(2, XLen - 1) > 0
           /\ Sign \in Bit /\ Sign = XLen - 1
<1> DEFINE h == Power(2, XLen - 1)
           l == Low(w, XLen - 1)
<1>1. XLen - 1 \in Bit /\ XLen - 1 \in Nat /\ XLen - 1 \in 0 .. XLen /\ (XLen - 1) + 1 = XLen
  BY XLenAssumption DEF Bit
<1>2. Low(w, XLen) = l + One(Sign \in w) * h /\ h \in Nat /\ Power(2, XLen) = 2 * h
  BY <1>1, LowStep DEF Sign
<1>3. h > 0
  BY <1>1, Two
<1>4. l \in 0 .. h - 1
  BY <1>1, WordDigits, DigitsBound DEF Low
<1>5. Num(w) = Low(w, XLen)
  BY NumBound
<1> HIDE DEF h, l
<1> DEFINE o == One(Sign \in w)
<1>6. o = IF Sign \in w THEN 1 ELSE 0
  BY DEF One
<1>7. Low(w, XLen) = l + o * h
  BY <1>2
<1> HIDE DEF o
<1>8. Sign \in w <=> Num(w) >= h
  <2>1. CASE Sign \in w
    <3>1. o = 1 BY <1>6, <2>1
    <3> QED BY <1>2, <1>3, <1>4, <1>5, <1>7, <2>1, <3>1
  <2>2. CASE Sign \notin w
    <3>1. o = 0 BY <1>6, <2>2
    <3> QED BY <1>2, <1>3, <1>4, <1>5, <1>7, <2>2, <3>1
  <2> QED BY <2>1, <2>2
<1> QED BY <1>1, <1>2, <1>3, <1>8 DEF h, Sign

\* Its range, and that it is negative when the sign is set.
LEMMA SignedRange ==
    ASSUME NEW w \in Word
    PROVE  /\ SignedNum(w) \in Int
           /\ -Power(2, XLen - 1) <= SignedNum(w) /\ SignedNum(w) < Power(2, XLen - 1)
           /\ SignedNum(w) < 0 <=> Sign \in w
           /\ SignedNum(w) % Power(2, XLen) = Num(w)
<1> DEFINE h == Power(2, XLen - 1)
           m == Power(2, XLen)
           x == Num(w)
           y == SignedNum(w)
<1>1. /\ Sign \in w <=> x >= h
      /\ m = 2 * h /\ h \in Nat /\ h > 0
      /\ x \in Nat /\ x < m
  BY SignHalf, NumBound
<1>2. y = IF Sign \in w THEN x - m ELSE x
  BY DEF SignedNum
<1> HIDE DEF h, m, x, y
<1>3. y \in Int /\ -h <= y /\ y < h /\ (y < 0 <=> Sign \in w)
  BY <1>1, <1>2
<1>4. m \in Nat /\ m > 0
  BY <1>1
<1>5. y % m = x
  <2>1. CASE Sign \in w
    <3>1. y = (-1) * m + x /\ -1 \in Int BY <1>1, <1>2, <2>1
    <3> QED BY <1>1, <1>4, <3>1, Division
  <2>2. CASE Sign \notin w
    <3>1. y = 0 * m + x /\ 0 \in Int BY <1>1, <1>2, <2>2
    <3> QED BY <1>1, <1>4, <3>1, Division
  <2> QED BY <2>1, <2>2
<1> QED BY <1>3, <1>5 DEF h, m, x, y

\* The comparison of int32_t.
THEOREM SignedLessIsLess ==
    ASSUME NEW a \in Word, NEW b \in Word
    PROVE  SignedLess(a, b) <=> SignedNum(a) < SignedNum(b)
<1> DEFINE u == Num(a)
           v == Num(b)
           m == Power(2, XLen)
<1>1. Less(a, b) <=> u < v
  BY MinusIsDifference
<1>2. u \in Int /\ v \in Int /\ m \in Int
  BY NumBound
<1>3. (SignedNum(a) < 0 <=> Sign \in a) /\ SignedNum(a) \in Int
  BY SignedRange
<1>4. (SignedNum(b) < 0 <=> Sign \in b) /\ SignedNum(b) \in Int
  BY SignedRange
<1>5. CASE Sign \in a /\ Sign \in b
  <2>1. SignedNum(a) = u - m /\ SignedNum(b) = v - m BY <1>5 DEF SignedNum
  <2> HIDE DEF u, v, m
  <2> QED BY <1>1, <1>2, <1>5, <2>1 DEF SignedLess
<1>6. CASE Sign \notin a /\ Sign \notin b
  <2>1. SignedNum(a) = u /\ SignedNum(b) = v BY <1>6 DEF SignedNum
  <2> HIDE DEF u, v, m
  <2> QED BY <1>1, <1>2, <1>6, <2>1 DEF SignedLess
<1>7. CASE Sign \in a /\ Sign \notin b
  BY <1>3, <1>4, <1>7 DEF SignedLess
<1>8. CASE Sign \notin a /\ Sign \in b
  BY <1>3, <1>4, <1>8 DEF SignedLess
<1> QED BY <1>5, <1>6, <1>7, <1>8

\* The bits of a word in two's complement go on with its sign.
LEMMA SignedBits ==
    ASSUME NEW w \in Word, NEW k \in Nat
    PROVE  BitOf(SignedNum(w), k) = One(k \in w \/ (k >= XLen /\ Sign \in w))
<1>1. XLen \in Nat /\ XLen - 1 \in Nat /\ XLen > 0
  BY XLenAssumption
<1> DEFINE x == Num(w)
           y == SignedNum(w)
<1>2. CASE k < XLen
  <2>1. k \in 0 .. XLen - 1 BY <1>1, <1>2
  <2>2. x \in Int BY NumBound
  <2>3. Power(2, XLen) \in Int BY NumBound
  <2>4. y = x + (IF Sign \in w THEN -1 ELSE 0) * Power(2, XLen)
    BY <2>2, <2>3 DEF SignedNum
  <2> HIDE DEF x, y
  <2>5. BitOf(y, k) = BitOf(x, k)
    <3>1. BitOf(x + (-1) * Power(2, XLen), k) = BitOf(x, k) BY <1>1, <2>1, <2>2, BitsBelow
    <3>2. BitOf(x + 0 * Power(2, XLen), k) = BitOf(x, k) BY <1>1, <2>1, <2>2, BitsBelow
    <3> QED BY <2>4, <3>1, <3>2
  <2>6. BitOf(x, k) = One(k \in w) BY NumBits DEF x
  <2> QED BY <1>1, <1>2, <2>5, <2>6 DEF y, One
<1>3. CASE k >= XLen
  <2> DEFINE h == Power(2, XLen - 1)
  <2>1. y \in Int /\ -h <= y /\ y < h /\ (y < 0 <=> Sign \in w)
    BY SignedRange
  <2> HIDE DEF y
  <2>2. k >= XLen - 1 BY <1>1, <1>3
  <2>3. BitOf(y, k) = IF y < 0 THEN 1 ELSE 0
    BY <1>1, <2>1, <2>2, BitsAbove
  <2>4. k \notin w BY <1>1, <1>3 DEF Word, Bit
  <2> QED BY <1>3, <2>1, <2>3, <2>4 DEF y, One
<1> QED BY <1>1, <1>2, <1>3

-----------------------------------------------------------------------------
(* Shifts *)

\* Shifting right divides.
THEOREM ShiftRightDivides ==
    ASSUME NEW w \in Word, NEW n \in Nat
    PROVE  Num(ShiftRight(w, n)) = (Num(w) \div Power(2, n)) % Power(2, XLen)
<1> DEFINE x == Num(w)
           q == x \div Power(2, n)
<1>1. x \in Int /\ q \in Int
  BY NumBound, Two, Remainder
<1>2. ShiftRight(w, n) \in Word
  BY WordOperations
<1>3. ASSUME NEW k \in Bit PROVE k \in ShiftRight(w, n) <=> BitOf(q, k) = 1
  <2>1. k \in Nat /\ n + k \in Nat BY <1>3 DEF Bit
  <2>2. BitOf(q, k) = BitOf(x, n + k) BY <1>1, <2>1, BitShifted
  <2>3. BitOf(x, n + k) = One(n + k \in w) BY <2>1, NumBits
  <2>4. n + k \in w <=> k + n \in w BY <2>1
  <2> QED BY <2>2, <2>3, <2>4 DEF ShiftRight, One
<1> HIDE DEF q
<1>4. Num(ShiftRight(w, n)) = q % Power(2, XLen)
  BY <1>1, <1>2, <1>3, NumIs
<1> QED BY <1>4 DEF q

\* With the sign filled in, it divides in two's complement.
THEOREM ShiftSignedDivides ==
    ASSUME NEW w \in Word, NEW n \in Nat, NEW s \in Word,
           s = {i \in Bit : i + n \in w \/ (i + n >= XLen /\ Sign \in w)}
    PROVE  Num(s) = (SignedNum(w) \div Power(2, n)) % Power(2, XLen)
<1> DEFINE x == SignedNum(w)
           q == x \div Power(2, n)
<1>1. x \in Int /\ q \in Int
  BY SignedRange, Two, Remainder
<1>2. ASSUME NEW k \in Bit PROVE k \in s <=> BitOf(q, k) = 1
  <2>1. k \in Nat /\ n + k \in Nat /\ n + k = k + n BY <1>2 DEF Bit
  <2>2. BitOf(q, k) = BitOf(x, n + k) BY <1>1, <2>1, BitShifted
  <2>3. BitOf(x, n + k) = One(n + k \in w \/ (n + k >= XLen /\ Sign \in w)) BY <2>1, SignedBits
  <2> QED BY <2>1, <2>2, <2>3 DEF One
<1> HIDE DEF q
<1>3. Num(s) = q % Power(2, XLen)
  BY <1>1, <1>2, NumIs
<1> QED BY <1>3 DEF q

\* Shifting left multiplies what is not shifted out.
THEOREM ShiftLeftMultiplies ==
    ASSUME NEW w \in Word, NEW n \in 0 .. XLen
    PROVE  Num(ShiftLeft(w, n))
               = ((Num(w) % Power(2, XLen - n)) * Power(2, n)) % Power(2, XLen)
<1> DEFINE x == Num(w)
           r == x % Power(2, XLen - n)
           y == r * Power(2, n)
<1>1. XLen \in Nat /\ n \in Nat /\ XLen - n \in Nat
  BY XLenAssumption
<1>2. x \in Int
  BY NumBound
<1>3. r \in Int
  BY <1>1, <1>2, Two, Remainder
<1>4. Power(2, n) \in Int
  BY <1>1, Two
<1>5. y \in Int
  <2> HIDE DEF r
  <2> QED BY <1>3, <1>4
<1>6. ShiftLeft(w, n) \in Word
  BY WordOperations
<1>7. ASSUME NEW k \in Bit PROVE k \in ShiftLeft(w, n) <=> BitOf(y, k) = 1
  <2>1. k \in Nat /\ k < XLen BY <1>1, <1>7 DEF Bit
  <2>2. BitOf(y, k) = IF k < n THEN 0 ELSE BitOf(r, k - n)
    <3> HIDE DEF r
    <3> QED BY <1>1, <1>3, <2>1, BitsOfProduct
  <2>3. CASE k < n
    <3>1. k - n \notin w BY <1>1, <2>1, <2>3 DEF Word, Bit
    <3> QED BY <2>2, <2>3, <3>1 DEF ShiftLeft
  <2>4. CASE k >= n
    <3>1. k - n \in Nat /\ k - n \in 0 .. (XLen - n) - 1 BY <1>1, <2>1, <2>4
    <3>2. BitOf(r, k - n) = BitOf(x, k - n) BY <1>1, <1>2, <3>1, BitsOfRemainder
    <3>3. BitOf(x, k - n) = One(k - n \in w) BY <3>1, NumBits
    <3>4. ~(k < n) BY <1>1, <2>1, <2>4
    <3> QED BY <2>2, <3>2, <3>3, <3>4 DEF ShiftLeft, One
  <2> QED BY <1>1, <2>1, <2>3, <2>4
<1> HIDE DEF y
<1>8. Num(ShiftLeft(w, n)) = y % Power(2, XLen)
  BY <1>5, <1>6, <1>7, NumIs
<1> QED BY <1>8 DEF y

-----------------------------------------------------------------------------
(* Bits by themselves *)

\* A bit of the sum is one of the exclusive or, one of the carries two.
LEMMA BitDiffers ==
    ASSUME NEW a, NEW b, NEW k
    PROVE  /\ One(k \in a) + One(k \in b) = One(k \in Differ(a, b)) + 2 * One(k \in a \cap b)
           /\ One(k \in a) \in {0, 1} /\ One(k \in b) \in {0, 1}
           /\ One(k \in Differ(a, b)) \in {0, 1} /\ One(k \in a \cap b) \in {0, 1}
<1>1. CASE k \in a /\ k \in b
  BY <1>1 DEF One, Differ
<1>2. CASE k \in a /\ k \notin b
  BY <1>2 DEF One, Differ
<1>3. CASE k \notin a /\ k \in b
  BY <1>3 DEF One, Differ
<1>4. CASE k \notin a /\ k \notin b
  BY <1>4 DEF One, Differ
<1> QED BY <1>1, <1>2, <1>3, <1>4

\* A sum is the exclusive or, and twice what both have.
THEOREM DifferIsSum ==
    ASSUME NEW a \in Word, NEW b \in Word
    PROVE  Num(a) + Num(b) = Num(Differ(a, b)) + 2 * Num(a \cap b)
<1> DEFINE d == Differ(a, b)
           c == a \cap b
           Holds(k) == Low(a, k) + Low(b, k) = Low(d, k) + 2 * Low(c, k)
           T == {k \in Nat : k <= XLen => Holds(k)}
<1>1. 0 \in T
  <2>1. 0 \in Bit BY XLenAssumption DEF Bit
  <2>2. Low(a, 0) = 0 /\ Low(b, 0) = 0 /\ Low(c, 0) = 0 /\ Low(d, 0) = 0
    BY <2>1, LowStep
  <2> HIDE DEF c, d
  <2> QED BY <2>2
<1>2. ASSUME NEW n \in T PROVE n + 1 \in T
  <2> SUFFICES ASSUME n + 1 <= XLen PROVE Holds(n + 1)
    OBVIOUS
  <2>1. n \in Nat /\ n <= XLen /\ n \in Bit /\ Holds(n)
    BY XLenAssumption DEF Bit
  <2> DEFINE p == Power(2, n)
             x == One(n \in a)
             y == One(n \in b)
             z == One(n \in d)
             v == One(n \in c)
             la == Low(a, n)
             lb == Low(b, n)
             lc == Low(c, n)
             ld == Low(d, n)
  <2>2. Low(a, n + 1) = la + x * p /\ la \in Nat /\ p \in Nat BY <2>1, LowStep
  <2>3. Low(b, n + 1) = lb + y * p /\ lb \in Nat BY <2>1, LowStep
  <2>4. Low(c, n + 1) = lc + v * p /\ lc \in Nat BY <2>1, LowStep
  <2>5. Low(d, n + 1) = ld + z * p /\ ld \in Nat BY <2>1, LowStep
  <2>6. la + lb = ld + 2 * lc BY <2>1
  <2>7. x + y = z + 2 * v BY BitDiffers
  <2>8. x \in {0, 1} /\ y \in {0, 1} /\ z \in {0, 1} /\ v \in {0, 1} BY BitDiffers
  <2> HIDE DEF p, x, y, z, v, la, lb, lc, ld, c, d
  <2>9. (la + x * p) + (lb + y * p) = (ld + z * p) + 2 * (lc + v * p)
    <3>1. CASE x = 0 /\ y = 0
      <4>1. z = 0 /\ v = 0 BY <2>7, <2>8, <3>1
      <4> QED BY <2>2, <2>3, <2>4, <2>5, <2>6, <3>1, <4>1
    <3>2. CASE x = 1 /\ y = 1
      <4>1. z = 0 /\ v = 1 BY <2>7, <2>8, <3>2
      <4> QED BY <2>2, <2>3, <2>4, <2>5, <2>6, <3>2, <4>1
    <3>3. CASE x = 0 /\ y = 1
      <4>1. z = 1 /\ v = 0 BY <2>7, <2>8, <3>3
      <4> QED BY <2>2, <2>3, <2>4, <2>5, <2>6, <3>3, <4>1
    <3>4. CASE x = 1 /\ y = 0
      <4>1. z = 1 /\ v = 0 BY <2>7, <2>8, <3>4
      <4> QED BY <2>2, <2>3, <2>4, <2>5, <2>6, <3>4, <4>1
    <3> QED BY <2>8, <3>1, <3>2, <3>3, <3>4
  <2> QED BY <2>2, <2>3, <2>4, <2>5, <2>9
<1>3. T \in SUBSET Nat
  OBVIOUS
<1> HIDE DEF T
<1>4. T = Nat
  BY <1>1, <1>2, <1>3, Induction
<1>5. XLen \in T
  BY <1>4, XLenAssumption
<1>6. Holds(XLen)
  BY <1>5, XLenAssumption DEF T
<1> QED BY <1>6, NumBound

\* The low bits of a word: what remains after division by 2, 4 and 32.
LEMMA LowBits ==
    ASSUME NEW w \in Word
    PROVE  /\ Num(w) % 2 = One(0 \in w)
           /\ Num(w) % 4 = One(0 \in w) + 2 * One(1 \in w)
           /\ Num(w) % 32 = One(0 \in w) + 2 * One(1 \in w) + 4 * One(2 \in w)
                            + 8 * One(3 \in w) + 16 * One(4 \in w)
<1>1. 0 .. 12 \subseteq Bit /\ XLen \in Nat /\ 0 .. 5 \subseteq 0 .. XLen
  BY XLenAssumption DEF Bit
<1>2. \A m \in 0 .. 5 : Num(w) % Power(2, m) = Low(w, m)
  <2>1. ASSUME NEW m \in 0 .. 5 PROVE Num(w) % Power(2, m) = Low(w, m)
    <3>1. InBase(Digits(w), 2, XLen) /\ m \in 0 .. XLen BY <1>1, WordDigits
    <3>2. FromDigits(Digits(w), 2, XLen) % Power(2, m) = FromDigits(Digits(w), 2, m)
      BY <1>1, <3>1, DigitsDivided
    <3> QED BY <3>2, NumBound DEF Low
  <2> QED BY <2>1
<1>3. /\ Power(2, 0) = 1 /\ Power(2, 1) = 2 /\ Power(2, 2) = 4
      /\ Power(2, 3) = 8 /\ Power(2, 4) = 16 /\ Power(2, 5) = 32
  BY SmallPowers
<1>4. \A n \in 0 .. 4 : Low(w, n + 1) = Low(w, n) + One(n \in w) * Power(2, n) /\ Low(w, 0) = 0
  BY <1>1, LowStep
<1>5. \A n \in 0 .. 4 : One(n \in w) \in Nat
  BY DEF One
<1> DEFINE l(n) == Low(w, n)
           o(n) == One(n \in w)
<1>6. l(1) = o(0)
  <2>1. l(0 + 1) = l(0) + o(0) * 1 /\ l(0) = 0 BY <1>3, <1>4
  <2>2. o(0) \in Nat BY <1>5
  <2> HIDE DEF l, o
  <2> QED BY <2>1, <2>2
<1>7. l(2) = o(0) + 2 * o(1)
  <2>1. l(1 + 1) = l(1) + o(1) * 2 BY <1>3, <1>4
  <2>2. o(0) \in Nat /\ o(1) \in Nat BY <1>5
  <2> HIDE DEF l, o
  <2> QED BY <1>6, <2>1, <2>2
<1>8. l(5) = o(0) + 2 * o(1) + 4 * o(2) + 8 * o(3) + 16 * o(4)
  <2>1. l(2 + 1) = l(2) + o(2) * 4 BY <1>3, <1>4
  <2>2. l(3 + 1) = l(3) + o(3) * 8 BY <1>3, <1>4
  <2>3. l(4 + 1) = l(4) + o(4) * 16 BY <1>3, <1>4
  <2>4. o(0) \in Nat /\ o(1) \in Nat /\ o(2) \in Nat /\ o(3) \in Nat /\ o(4) \in Nat BY <1>5
  <2> HIDE DEF l, o
  <2> QED BY <1>7, <2>1, <2>2, <2>3, <2>4
<1>9. Num(w) % 2 = l(1) /\ Num(w) % 4 = l(2) /\ Num(w) % 32 = l(5)
  BY <1>2, <1>3
<1> QED BY <1>6, <1>7, <1>8, <1>9

\* Words of two bits, and of the third.
LEMMA SmallNumbers ==
    /\ {} \in Word /\ Num({}) = 0
    /\ {0} \in Word /\ Num({0}) = 1
    /\ {1} \in Word /\ Num({1}) = 2
    /\ {0, 1} \in Word /\ Num({0, 1}) = 3
    /\ {2} \in Word /\ Num({2}) = 4
<1>1. 0 .. 12 \subseteq Bit /\ XLen \in Nat /\ 3 \in 0 .. XLen
  BY XLenAssumption DEF Bit
<1>2. {} \in Word /\ {0} \in Word /\ {1} \in Word /\ {0, 1} \in Word /\ {2} \in Word
  BY <1>1 DEF Word
<1>3. Power(2, 0) = 1 /\ Power(2, 1) = 2 /\ Power(2, 2) = 4 /\ Power(2, 3) = 8
  BY SmallPowers
<1> DEFINE m == Power(2, XLen)
<1>4. m \in Nat /\ m >= 8
  <2> DEFINE h == Power(2, XLen - 3)
  <2>1. m = h * 8 /\ h \in Nat /\ h > 0 BY <1>1, <1>3, PowerDifference
  <2> HIDE DEF m, h
  <2> QED BY <2>1
<1>5. ASSUME NEW x \in 0 .. 7, NEW w \in Word, w \subseteq 0 .. 2,
             BitOf(x, 0) = 1 <=> 0 \in w, BitOf(x, 1) = 1 <=> 1 \in w, BitOf(x, 2) = 1 <=> 2 \in w
      PROVE  Num(w) = x
  <2>1. \A k \in Bit : k \in w <=> BitOf(x, k) = 1
    <3>1. ASSUME NEW k \in Bit PROVE k \in w <=> BitOf(x, k) = 1
      <4>1. k \in Nat BY DEF Bit
      <4>2. CASE k >= 3
        <5>1. -8 <= x /\ x < 8 /\ x >= 0 /\ x \in Int OBVIOUS
        <5>2. BitOf(x, k) = IF x < 0 THEN 1 ELSE 0
          BY <1>3, <4>1, <4>2, <5>1, BitsAbove
        <5>3. k \notin w BY <1>5, <4>1, <4>2
        <5> QED BY <5>1, <5>2, <5>3
      <4>3. CASE k \in 0 .. 2
        <5>1. k = 0 \/ k = 1 \/ k = 2 BY <4>3
        <5> QED BY <1>5, <5>1
      <4> QED BY <4>1, <4>2, <4>3
    <3> QED BY <3>1
  <2>2. Num(w) = x % m
    BY <2>1, NumIs
  <2> HIDE DEF m
  <2> QED BY <1>4, <2>2
<1>6. \A x \in 0 .. 7 : BitOf(x, 0) = x % 2 /\ BitOf(x, 1) = (x \div 2) % 2 /\ BitOf(x, 2) = (x \div 4) % 2
  BY <1>3 DEF BitOf
<1>7. Num({}) = 0
  <2>1. BitOf(0, 0) = 0 /\ BitOf(0, 1) = 0 /\ BitOf(0, 2) = 0 BY <1>6
  <2> QED BY <1>2, <1>5, <2>1
<1>8. Num({0}) = 1
  <2>1. BitOf(1, 0) = 1 /\ BitOf(1, 1) = 0 /\ BitOf(1, 2) = 0 BY <1>6
  <2> QED BY <1>2, <1>5, <2>1
<1>9. Num({1}) = 2
  <2>1. BitOf(2, 0) = 0 /\ BitOf(2, 1) = 1 /\ BitOf(2, 2) = 0 BY <1>6
  <2> QED BY <1>2, <1>5, <2>1
<1>10. Num({0, 1}) = 3
  <2>1. BitOf(3, 0) = 1 /\ BitOf(3, 1) = 1 /\ BitOf(3, 2) = 0 BY <1>6
  <2> QED BY <1>2, <1>5, <2>1
<1>11. Num({2}) = 4
  <2>1. BitOf(4, 0) = 0 /\ BitOf(4, 1) = 0 /\ BitOf(4, 2) = 1 BY <1>6
  <2> QED BY <1>2, <1>5, <2>1
<1> QED BY <1>2, <1>7, <1>8, <1>9, <1>10, <1>11

\* Without its lowest bit a word is even.
LEMMA NumEven ==
    ASSUME NEW w \in Word
    PROVE  Num(w \ {0}) = Num(w) - (Num(w) % 2) /\ w \ {0} \in Word
<1> DEFINE x == Num(w)
           h == x \div 2
           y == h * 2
<1>1. x \in Int /\ h \in Int /\ y \in Int /\ x = y + (x % 2)
  BY NumBound
<1>2. Power(2, 1) = 2 /\ Power(2, 0) = 1
  BY SmallPowers
<1>3. ASSUME NEW k \in Bit PROVE k \in w \ {0} <=> BitOf(y, k) = 1
  <2>1. k \in Nat BY DEF Bit
  <2>2. BitOf(y, k) = IF k < 1 THEN 0 ELSE BitOf(h, k - 1)
    <3> HIDE DEF h
    <3> QED BY <1>1, <1>2, <2>1, BitsOfProduct
  <2>3. CASE k = 0 BY <2>2, <2>3
  <2>4. CASE k # 0
    <3>1. k - 1 \in Nat /\ ~(k < 1) /\ 1 + (k - 1) = k BY <2>1, <2>4
    <3>2. BitOf(h, k - 1) = BitOf(x, k)
      <4>1. BitOf(x \div Power(2, 1), k - 1) = BitOf(x, 1 + (k - 1))
        BY <1>1, <3>1, BitShifted
      <4> QED BY <1>2, <3>1, <4>1
    <3>3. BitOf(x, k) = One(k \in w) BY <2>1, NumBits
    <3> QED BY <2>2, <2>4, <3>1, <3>2, <3>3 DEF One
  <2> QED BY <2>3, <2>4
<1>4. w \ {0} \in Word
  BY DEF Word
<1> HIDE DEF y
<1>5. Num(w \ {0}) = y % Power(2, XLen)
  BY <1>1, <1>3, <1>4, NumIs
<1>6. y >= 0 /\ y <= x
  <2>1. x >= 0 BY NumBound
  <2> QED BY <1>1, <2>1 DEF y
<1>7. y % Power(2, XLen) = y
  <2> DEFINE m == Power(2, XLen)
  <2>1. m \in Nat /\ x < m BY NumBound
  <2>2. y \in Int /\ x \in Int /\ y >= 0 /\ y <= x BY <1>1, <1>6
  <2> HIDE DEF m, x
  <2>3. y \in Nat /\ y < m BY <2>1, <2>2
  <2>4. y % m = y BY <2>1, <2>3, SmallRemainder
  <2> QED BY <2>4 DEF m
<1>8. y = x - (x % 2)
  BY <1>1
<1> QED BY <1>4, <1>5, <1>7, <1>8
=============================================================================
