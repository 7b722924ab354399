--------------------------- MODULE Numbers_proofs ---------------------------
(***************************************************************************)
(* Induction over the natural numbers in a first-order form, functions     *)
(* defined by recursion, and what follows for the digits of numbers in any *)
(* base.                                                                   *)
(***************************************************************************)
EXTENDS Numbers, WellFoundedInduction, TLAPS

-----------------------------------------------------------------------------
(* Induction and recursion *)

\* A set of natural numbers has a smallest one.
LEMMA Smallest ==
    ASSUME NEW T \in SUBSET Nat, T # {}
    PROVE  \E n \in T : \A m \in T : n <= m
<1>1. PICK n \in T : \A m \in T : <<m, n>> \notin OpToRel(<, Nat)
  BY NatLessThanWellFounded, WFMin
<1>2. \A m \in T : ~ (m < n)
  BY <1>1 DEF OpToRel
<1> QED BY <1>2

\* Induction: in sets, since an operator cannot be instantiated here.
LEMMA Induction ==
    ASSUME NEW T \in SUBSET Nat, 0 \in T, \A n \in T : n + 1 \in T
    PROVE  T = Nat
<1> SUFFICES ASSUME Nat \ T # {} PROVE FALSE
  OBVIOUS
<1>1. PICK n \in Nat \ T : \A m \in Nat \ T : n <= m
  BY Smallest
<1>2. n - 1 \in T
  BY <1>1
<1> QED BY <1>1, <1>2

\* All the natural numbers or the first of them.
Initial(D) == D \subseteq Nat /\ \A n \in D : n = 0 \/ n - 1 \in D

\* What a step of a recursion makes of a value in T.
Steps(T) == [Nat -> [T -> T]]

\* f begins with c and goes on with s.
Recurs(f, D, T, c, s) ==
    f \in [D -> T] /\ \A n \in D : f[n] = IF n = 0 THEN c ELSE s[n][f[n - 1]]

\* Recursion: on these sets every c and s define a function.
LEMMA Recursion ==
    ASSUME NEW D, Initial(D), NEW T, NEW c \in T, NEW s, s \in Steps(T)
    PROVE  \E f : Recurs(f, D, T, c, s)
<1> USE DEF Steps
<1> DEFINE Good(g, n) ==
               /\ g \in [0 .. n -> T]
               /\ \A k \in 0 .. n : g[k] = IF k = 0 THEN c ELSE s[k][g[k - 1]]
<1>1. \A n \in Nat : \E g : Good(g, n)
  <2> DEFINE G == {n \in Nat : \E g : Good(g, n)}
  <2>1. 0 \in G
    <3>1. Good([k \in 0 .. 0 |-> c], 0) OBVIOUS
    <3> QED BY <3>1
  <2>2. ASSUME NEW n \in G PROVE n + 1 \in G
    <3>1. PICK g : Good(g, n) OBVIOUS
    <3> DEFINE h == [k \in 0 .. n + 1 |-> IF k = n + 1 THEN s[n + 1][g[n]] ELSE g[k]]
    <3>2. s[n + 1][g[n]] \in T BY <3>1
    <3>3. h \in [0 .. n + 1 -> T] BY <3>1, <3>2
    <3>4. \A k \in 0 .. n + 1 : h[k] = IF k = 0 THEN c ELSE s[k][h[k - 1]]
      BY <3>1
    <3>5. Good(h, n + 1) BY <3>3, <3>4
    <3> HIDE DEF Good, h
    <3> QED BY <3>5
  <2> HIDE DEF G
  <2>3. G = Nat BY <2>1, <2>2, Induction DEF G
  <2> QED BY <2>3 DEF G
<1>2. \A n \in Nat : \A g, h : \A m \in Nat : m >= n /\ Good(g, n) /\ Good(h, m) => g[n] = h[n]
  <2> DEFINE Same(n) ==
                 \A g, h : \A m \in Nat : m >= n /\ Good(g, n) /\ Good(h, m) => g[n] = h[n]
             V == {n \in Nat : Same(n)}
  <2>1. 0 \in V OBVIOUS
  <2>2. ASSUME NEW n \in V PROVE n + 1 \in V
    <3>1. ASSUME NEW g, NEW h, NEW m \in Nat, m >= n + 1, Good(g, n + 1), Good(h, m)
          PROVE  g[n + 1] = h[n + 1]
      <4> DEFINE low == [k \in 0 .. n |-> g[k]]
      <4>1. Good(low, n) BY <3>1
      <4>2. low[n] = g[n] OBVIOUS
      <4>3. Same(n) OBVIOUS
      <4>4. low[n] = h[n]
        <5> HIDE DEF low, Good
        <5> QED BY <3>1, <4>1, <4>3
      <4> QED BY <3>1, <4>2, <4>4
    <3> HIDE DEF Good
    <3> QED BY <3>1
  <2> HIDE DEF V
  <2>3. V = Nat BY <2>1, <2>2, Induction DEF V
  <2>4. \A n \in Nat : Same(n) BY <2>3 DEF V
  <2> HIDE DEF Good
  <2> QED BY <2>4
<1> DEFINE best(n) == CHOOSE g : Good(g, n)
           f == [n \in D |-> best(n)[n]]
<1> USE DEF Initial
<1>3. \A n \in Nat : Good(best(n), n)
  BY <1>1
<1> HIDE DEF best
<1>4. f \in [D -> T]
  BY <1>3
<1>5. \A n \in D : f[n] = IF n = 0 THEN c ELSE s[n][f[n - 1]]
  <2>1. ASSUME NEW n \in D, n = 0 PROVE f[n] = c
    BY <2>1, <1>3
  <2>2. ASSUME NEW n \in D, n # 0 PROVE f[n] = s[n][f[n - 1]]
    <3>1. n - 1 \in D /\ n \in Nat /\ n - 1 \in Nat BY <2>2
    <3>2. Good(best(n), n) /\ Good(best(n - 1), n - 1) BY <1>3, <3>1
    <3>3. best(n)[n] = s[n][best(n)[n - 1]] BY <2>2, <3>1, <3>2
    <3> HIDE DEF Good
    <3>4. best(n - 1)[n - 1] = best(n)[n - 1]
      <4>1. n >= n - 1 BY <3>1
      <4> QED BY <1>2, <3>1, <3>2, <4>1
    <3> QED BY <3>1, <3>3, <3>4
  <2> QED BY <2>1, <2>2
<1> HIDE DEF f
<1> QED BY <1>4, <1>5 DEF Recurs

-----------------------------------------------------------------------------
(* Powers *)

\* The recursive function in Power satisfies its equation.
LEMMA PowerStep ==
    ASSUME NEW b \in Nat, NEW n \in Nat
    PROVE  Power(b, 0) = 1 /\ Power(b, n + 1) = b * Power(b, n) /\ Power(b, n) \in Nat
<1> DEFINE s == [k \in Nat |-> [x \in Nat |-> b * x]]
           Is(f) == f = [k \in Nat |-> IF k = 0 THEN 1 ELSE b * f[k - 1]]
<1>1. s \in Steps(Nat)
  BY DEF Steps
<1>2. PICK f : Recurs(f, Nat, Nat, 1, s)
  <2> HIDE DEF s
  <2>1. Initial(Nat) BY DEF Initial
  <2> QED BY <1>1, <2>1, Recursion
<1>3. Is(f)
  <2>1. ASSUME NEW k \in Nat PROVE f[k] = IF k = 0 THEN 1 ELSE b * f[k - 1]
    <3>1. k # 0 => s[k][f[k - 1]] = b * f[k - 1] BY <1>2 DEF Recurs
    <3> HIDE DEF s
    <3> QED BY <1>2, <3>1 DEF Recurs
  <2>2. f = [k \in Nat |-> f[k]] BY <1>2 DEF Recurs
  <2> QED BY <2>1, <2>2
<1> DEFINE g == CHOOSE g : Is(g)
<1>4. Is(g) BY <1>3
<1>5. \A k \in Nat : Power(b, k) = g[k] BY DEF Power
<1> HIDE DEF g
<1> DEFINE T == {k \in Nat : g[k] \in Nat}
<1>6. T = Nat
  <2>1. 0 \in T /\ \A k \in T : k + 1 \in T BY <1>4
  <2> HIDE DEF T
  <2>2. T \in SUBSET Nat BY DEF T
  <2> QED BY <2>1, <2>2, Induction
<1>7. g[0] = 1 /\ g[n + 1] = b * g[n] BY <1>4
<1>8. g[n] \in Nat BY <1>6
<1> QED BY <1>5, <1>7, <1>8

\* Powers of a positive number are positive.
LEMMA PowerPositive ==
    ASSUME NEW b \in Nat, b > 0, NEW n \in Nat
    PROVE  Power(b, n) \in Nat /\ Power(b, n) > 0
<1> DEFINE T == {k \in Nat : Power(b, k) > 0}
<1>1. 0 \in T /\ \A k \in T : k + 1 \in T
  <2>1. ASSUME NEW k \in T PROVE b * Power(b, k) > 0
    BY PowerStep
  <2> QED BY <2>1, PowerStep
<1> HIDE DEF T
<1>2. T = Nat BY <1>1, Induction DEF T
<1> QED BY <1>2, PowerStep DEF T

\* Exponents add.
LEMMA PowerSum ==
    ASSUME NEW b \in Nat, NEW m \in Nat, NEW n \in Nat
    PROVE  Power(b, m + n) = Power(b, m) * Power(b, n)
<1> DEFINE T == {k \in Nat : Power(b, m + k) = Power(b, m) * Power(b, k)}
<1>1. 0 \in T BY PowerStep
<1>2. ASSUME NEW k \in T PROVE k + 1 \in T
  <2>1. Power(b, m + (k + 1)) = b * Power(b, m + k)
    <3>1. m + k \in Nat /\ m + (k + 1) = (m + k) + 1 OBVIOUS
    <3> QED BY <3>1, PowerStep
  <2>2. Power(b, k + 1) = b * Power(b, k) BY PowerStep
  <2>3. Power(b, m) \in Nat /\ Power(b, k) \in Nat BY PowerStep
  <2>4. b * (Power(b, m) * Power(b, k)) = Power(b, m) * (b * Power(b, k)) BY <2>3
  <2> QED BY <2>1, <2>2, <2>4
<1> HIDE DEF T
<1>3. T = Nat BY <1>1, <1>2, Induction DEF T
<1> QED BY <1>3 DEF T

-----------------------------------------------------------------------------
(* Digits *)

\* The first n digits of d are natural numbers.
HasDigits(d, n) == \A i \in 0 .. n - 1 : d[i] \in Nat

\* t is the recursive function in FromDigits.
Tops(t, d, b, n) ==
    /\ t \in [0 .. n -> Nat]
    /\ t[0] = 0
    /\ \A k \in 0 .. n - 1 : t[k + 1] = d[n - (k + 1)] + b * t[k]

\* There is one.
LEMMA Horner ==
    ASSUME NEW b \in Nat, NEW n \in Nat, NEW d, HasDigits(d, n)
    PROVE  \E t : Tops(t, d, b, n) /\ FromDigits(d, b, n) = t[n]
<1> DEFINE s == [k \in Nat |-> [x \in Nat |-> IF k \in 1 .. n THEN d[n - k] + b * x ELSE 0]]
           Is(f) == f = [k \in 0 .. n |-> IF k = 0 THEN 0 ELSE d[n - k] + b * f[k - 1]]
<1>1. s \in Steps(Nat)
  BY DEF Steps, HasDigits
<1>2. PICK f : Recurs(f, 0 .. n, Nat, 0, s)
  <2> HIDE DEF s
  <2>1. Initial(0 .. n) BY DEF Initial
  <2> QED BY <1>1, <2>1, Recursion
<1>3. Is(f)
  <2>1. ASSUME NEW k \in 0 .. n PROVE f[k] = IF k = 0 THEN 0 ELSE d[n - k] + b * f[k - 1]
    <3>1. k # 0 => s[k][f[k - 1]] = d[n - k] + b * f[k - 1] BY <1>2 DEF Recurs
    <3> HIDE DEF s
    <3> QED BY <1>2, <3>1 DEF Recurs
  <2>2. f = [k \in 0 .. n |-> f[k]] BY <1>2 DEF Recurs
  <2> QED BY <2>1, <2>2
<1> DEFINE g == CHOOSE g : Is(g)
<1>4. Is(g) BY <1>3
<1>5. FromDigits(d, b, n) = g[n] BY DEF FromDigits
<1> HIDE DEF g
<1> DEFINE T == {k \in Nat : k <= n => g[k] \in Nat}
<1>6. T = Nat
  <2>1. 0 \in T BY <1>4
  <2>2. ASSUME NEW k \in T, k + 1 <= n PROVE g[k + 1] \in Nat
    <3>1. g[k] \in Nat /\ k + 1 \in 0 .. n /\ k + 1 # 0 /\ (k + 1) - 1 = k BY <2>2
    <3>2. g[k + 1] = d[n - (k + 1)] + b * g[k] BY <1>4, <3>1
    <3>3. d[n - (k + 1)] \in Nat BY <3>1 DEF HasDigits
    <3> QED BY <3>1, <3>2, <3>3
  <2>3. \A k \in T : k + 1 \in T BY <2>2
  <2> HIDE DEF T
  <2>4. T \in SUBSET Nat BY DEF T
  <2> QED BY <2>1, <2>3, <2>4, Induction
<1>7. g \in [0 .. n -> Nat]
  <2>1. \A k \in 0 .. n : g[k] \in Nat BY <1>6
  <2>2. g = [k \in 0 .. n |-> g[k]] BY <1>4
  <2> QED BY <2>1, <2>2
<1>8. g[0] = 0
  <2>1. 0 \in 0 .. n OBVIOUS
  <2> QED BY <1>4, <2>1
<1>9. \A k \in 0 .. n - 1 : g[k + 1] = d[n - (k + 1)] + b * g[k] BY <1>4
<1> QED BY <1>5, <1>7, <1>8, <1>9 DEF Tops

\* The arithmetic of one digit more.
LEMMA Distribute ==
    ASSUME NEW b \in Nat, NEW x \in Nat, NEW y \in Nat, NEW z \in Nat
    PROVE  b * (x + y * z) = b * x + y * (b * z)
OBVIOUS

\* One more digit counts its power of the base.
LEMMA DigitsStep ==
    ASSUME NEW b \in Nat, NEW n \in Nat, NEW d, HasDigits(d, n + 1)
    PROVE  /\ FromDigits(d, b, 0) = 0
           /\ FromDigits(d, b, n) \in Nat
           /\ FromDigits(d, b, n + 1) = FromDigits(d, b, n) + d[n] * Power(b, n)
           /\ d[n] \in Nat
<1>1. HasDigits(d, n) /\ HasDigits(d, 0) /\ d[n] \in Nat
  BY DEF HasDigits
<1>2. PICK t : Tops(t, d, b, n) /\ FromDigits(d, b, n) = t[n]
  BY <1>1, Horner
<1>3. PICK u : Tops(u, d, b, n + 1) /\ FromDigits(d, b, n + 1) = u[n + 1]
  <2>1. n + 1 \in Nat OBVIOUS
  <2> QED BY <2>1, Horner
<1> DEFINE T == {k \in Nat : k <= n => u[k + 1] = t[k] + d[n] * Power(b, k)}
<1>4. 0 \in T
  <2>1. 0 \in 0 .. (n + 1) - 1 OBVIOUS
  <2>2. u[0 + 1] = d[(n + 1) - (0 + 1)] + b * u[0] BY <1>3, <2>1 DEF Tops
  <2>3. (n + 1) - (0 + 1) = n /\ u[0] = 0 /\ t[0] = 0 BY <1>2, <1>3 DEF Tops
  <2>4. Power(b, 0) = 1 BY PowerStep
  <2> QED BY <1>1, <2>2, <2>3, <2>4
<1>5. ASSUME NEW k \in T, k + 1 <= n PROVE u[(k + 1) + 1] = t[k + 1] + d[n] * Power(b, k + 1)
  <2>1. k \in Nat /\ k \in 0 .. n - 1 /\ k + 1 \in 0 .. (n + 1) - 1 BY <1>5
  <2>2. u[(k + 1) + 1] = d[(n + 1) - ((k + 1) + 1)] + b * u[k + 1] BY <1>3, <2>1 DEF Tops
  <2>3. t[k + 1] = d[n - (k + 1)] + b * t[k] BY <1>2, <2>1 DEF Tops
  <2>4. u[k + 1] = t[k] + d[n] * Power(b, k) BY <1>5, <2>1
  <2>5. Power(b, k + 1) = b * Power(b, k) /\ Power(b, k) \in Nat BY <2>1, PowerStep
  <2>6. (n + 1) - ((k + 1) + 1) = n - (k + 1) BY <2>1
  <2>7. t[k] \in Nat /\ d[n - (k + 1)] \in Nat
    BY <1>1, <1>2, <2>1 DEF HasDigits, Tops
  <2>8. b * u[k + 1] = b * t[k] + d[n] * Power(b, k + 1)
    BY <1>1, <2>4, <2>5, <2>7, Distribute
  <2>9. b * t[k] \in Nat /\ d[n] * Power(b, k + 1) \in Nat
    BY <1>1, <2>5, <2>7
  <2> QED BY <2>2, <2>3, <2>6, <2>7, <2>8, <2>9
<1>6. \A k \in T : k + 1 \in T
  <2>1. ASSUME NEW k \in T PROVE k + 1 \in T BY <1>5
  <2> QED BY <2>1
<1>7. T \in SUBSET Nat OBVIOUS
<1> HIDE DEF T
<1>8. n \in T BY <1>4, <1>6, <1>7, Induction
<1>9. u[n + 1] = t[n] + d[n] * Power(b, n) BY <1>8 DEF T
<1>10. FromDigits(d, b, 0) = 0
  <2>1. PICK v : Tops(v, d, b, 0) /\ FromDigits(d, b, 0) = v[0] BY <1>1, Horner
  <2> QED BY <2>1 DEF Tops
<1>11. t[n] \in Nat BY <1>2 DEF Tops
<1> QED BY <1>1, <1>2, <1>3, <1>9, <1>10, <1>11

\* Quotient and remainder are what they are multiplied back to.
LEMMA Division ==
    ASSUME NEW d \in Nat, d > 0, NEW q \in Int, NEW r \in Nat, r < d, NEW x, x = q * d + r
    PROVE  x \div d = q /\ x % d = r
OBVIOUS

\* And every number has them.
LEMMA Remainder ==
    ASSUME NEW d \in Nat, d > 0, NEW x \in Int
    PROVE  /\ x \div d \in Int /\ x % d \in Nat /\ x % d < d
           /\ x = ((x \div d) * d) + (x % d)
           /\ x \in Nat => x \div d \in Nat
OBVIOUS

\* A small number is its remainder.
LEMMA SmallRemainder ==
    ASSUME NEW m \in Nat, NEW y \in Nat, y < m
    PROVE  y % m = y
<1>1. y = 0 * m + y /\ 0 \in Int /\ m > 0
  OBVIOUS
<1> QED BY <1>1, Division

\* Only the first n digits count.
LEMMA DigitsSame ==
    ASSUME NEW b \in Nat, NEW n \in Nat, NEW d, NEW e, HasDigits(d, n),
           \A i \in 0 .. n - 1 : e[i] = d[i]
    PROVE  FromDigits(e, b, n) = FromDigits(d, b, n) /\ HasDigits(e, n)
<1>1. HasDigits(e, n) BY DEF HasDigits
<1> DEFINE T == {k \in Nat : k <= n => FromDigits(e, b, k) = FromDigits(d, b, k)}
<1>2. 0 \in T
  <2>1. HasDigits(d, 0) /\ HasDigits(e, 0) BY DEF HasDigits
  <2>2. PICK t : Tops(t, d, b, 0) /\ FromDigits(d, b, 0) = t[0] BY <2>1, Horner
  <2>3. PICK u : Tops(u, e, b, 0) /\ FromDigits(e, b, 0) = u[0] BY <2>1, Horner
  <2> QED BY <2>2, <2>3 DEF Tops
<1>3. ASSUME NEW k \in T, k + 1 <= n PROVE FromDigits(e, b, k + 1) = FromDigits(d, b, k + 1)
  <2>1. k \in Nat /\ HasDigits(d, k + 1) /\ HasDigits(e, k + 1) /\ e[k] = d[k]
    BY <1>1, <1>3 DEF HasDigits
  <2>2. FromDigits(d, b, k + 1) = FromDigits(d, b, k) + d[k] * Power(b, k)
    BY <2>1, DigitsStep
  <2>3. FromDigits(e, b, k + 1) = FromDigits(e, b, k) + e[k] * Power(b, k)
    BY <2>1, DigitsStep
  <2> QED BY <1>3, <2>1, <2>2, <2>3
<1>4. \A k \in T : k + 1 \in T
  <2>1. ASSUME NEW k \in T PROVE k + 1 \in T BY <1>3
  <2> QED BY <2>1
<1>5. T \in SUBSET Nat OBVIOUS
<1> HIDE DEF T
<1>6. n \in T BY <1>2, <1>4, <1>5, Induction
<1> QED BY <1>1, <1>6 DEF T

\* The first n digits of d are digits of base b.
InBase(d, b, n) == \A i \in 0 .. n - 1 : d[i] \in 0 .. b - 1

\* The number of n digits is below b to the n.
LEMMA DigitsBound ==
    ASSUME NEW b \in Nat, b > 0, NEW n \in Nat, NEW d, InBase(d, b, n)
    PROVE  FromDigits(d, b, n) \in 0 .. Power(b, n) - 1 /\ HasDigits(d, n)
<1> DEFINE T == {k \in Nat : k <= n => FromDigits(d, b, k) \in 0 .. Power(b, k) - 1}
<1>1. HasDigits(d, n) BY DEF HasDigits, InBase
<1>2. 0 \in T
  <2>1. PICK t : Tops(t, d, b, 0) /\ FromDigits(d, b, 0) = t[0]
    <3>1. HasDigits(d, 0) BY DEF HasDigits
    <3> QED BY <3>1, Horner
  <2> QED BY <2>1, PowerStep DEF Tops
<1>3. ASSUME NEW k \in T, k + 1 <= n PROVE FromDigits(d, b, k + 1) \in 0 .. Power(b, k + 1) - 1
  <2> DEFINE p == Power(b, k)
             v == FromDigits(d, b, k)
  <2>1. k \in Nat /\ HasDigits(d, k + 1) /\ d[k] \in 0 .. b - 1
    BY <1>1, <1>3 DEF HasDigits, InBase
  <2>2. FromDigits(d, b, k + 1) = v + d[k] * p
    BY <2>1, DigitsStep
  <2>3. v \in 0 .. p - 1 BY <1>3, <2>1
  <2>4. Power(b, k + 1) = b * p /\ p \in Nat BY <2>1, PowerStep
  <2> HIDE DEF p, v
  <2>5. d[k] * p \in Nat /\ d[k] * p + p <= b * p
    BY <2>1, <2>4
  <2> QED BY <2>2, <2>3, <2>4, <2>5
<1>4. \A k \in T : k + 1 \in T
  <2>1. ASSUME NEW k \in T PROVE k + 1 \in T BY <1>3
  <2> QED BY <2>1
<1>5. T \in SUBSET Nat OBVIOUS
<1> HIDE DEF T
<1>6. n \in T BY <1>2, <1>4, <1>5, Induction
<1> QED BY <1>1, <1>6 DEF T

\* The digits from m on.
From(d, m, n) == [i \in 0 .. n - 1 |-> d[m + i]]

\* A number is its low digits and its high digits.
LEMMA DigitsSplit ==
    ASSUME NEW b \in Nat, NEW m \in Nat, NEW n \in Nat, NEW d, HasDigits(d, m + n)
    PROVE  /\ FromDigits(d, b, m + n)
                = FromDigits(d, b, m) + FromDigits(From(d, m, n), b, n) * Power(b, m)
           /\ HasDigits(d, m) /\ HasDigits(From(d, m, n), n)
<1> DEFINE e == From(d, m, n)
           T == {k \in Nat : k <= n => FromDigits(d, b, m + k)
                                = FromDigits(d, b, m) + FromDigits(e, b, k) * Power(b, m)}
<1>1. HasDigits(d, m) /\ HasDigits(e, n) /\ HasDigits(e, 0) BY DEF HasDigits, From
<1> HIDE DEF e
<1>2. 0 \in T
  <2>1. PICK t : Tops(t, e, b, 0) /\ FromDigits(e, b, 0) = t[0] BY <1>1, Horner
  <2>2. FromDigits(e, b, 0) = 0 BY <2>1 DEF Tops
  <2>3. PICK u : Tops(u, d, b, m) /\ FromDigits(d, b, m) = u[m] BY <1>1, Horner
  <2>4. FromDigits(d, b, m) \in Nat BY <2>3 DEF Tops
  <2>5. Power(b, m) \in Nat BY PowerStep
  <2> QED BY <2>2, <2>4, <2>5
<1>3. ASSUME NEW k \in T, k + 1 <= n
      PROVE  FromDigits(d, b, m + (k + 1))
                 = FromDigits(d, b, m) + FromDigits(e, b, k + 1) * Power(b, m)
  <2>1. k \in Nat /\ HasDigits(d, (m + k) + 1) /\ HasDigits(e, k + 1) /\ e[k] = d[m + k]
    BY <1>1, <1>3 DEF HasDigits, From, e
  <2>2. FromDigits(d, b, (m + k) + 1) = FromDigits(d, b, m + k) + d[m + k] * Power(b, m + k)
    BY <2>1, DigitsStep
  <2>3. /\ FromDigits(e, b, k + 1) = FromDigits(e, b, k) + e[k] * Power(b, k)
        /\ FromDigits(e, b, k) \in Nat /\ e[k] \in Nat
    BY <2>1, DigitsStep
  <2>4. Power(b, m + k) = Power(b, m) * Power(b, k) BY <2>1, PowerSum
  <2>5. Power(b, m) \in Nat /\ Power(b, k) \in Nat BY <2>1, PowerStep
  <2>6. FromDigits(e, b, k + 1) * Power(b, m)
            = FromDigits(e, b, k) * Power(b, m) + d[m + k] * Power(b, m + k)
    <3>1. \A x, y, p, q \in Nat : (x + y * q) * p = x * p + y * (p * q) OBVIOUS
    <3> QED BY <2>1, <2>3, <2>4, <2>5, <3>1
  <2>7. FromDigits(d, b, m + k) = FromDigits(d, b, m) + FromDigits(e, b, k) * Power(b, m)
    BY <1>3, <2>1
  <2>8. PICK t : Tops(t, d, b, m) /\ FromDigits(d, b, m) = t[m] BY <1>1, Horner
  <2>9. FromDigits(d, b, m) \in Nat BY <2>8 DEF Tops
  <2>10. (m + k) + 1 = m + (k + 1) BY <2>1
  <2>11. FromDigits(e, b, k) * Power(b, m) \in Nat /\ d[m + k] * Power(b, m + k) \in Nat
    BY <2>1, <2>3, <2>4, <2>5
  <2> QED BY <2>2, <2>6, <2>7, <2>9, <2>10, <2>11
<1>4. \A k \in T : k + 1 \in T
  <2>1. ASSUME NEW k \in T PROVE k + 1 \in T BY <1>3
  <2> QED BY <2>1
<1>5. T \in SUBSET Nat OBVIOUS
<1> HIDE DEF T
<1>6. n \in T BY <1>2, <1>4, <1>5, Induction
<1>7. FromDigits(d, b, m + n) = FromDigits(d, b, m) + FromDigits(e, b, n) * Power(b, m)
  BY <1>6 DEF T
<1> QED BY <1>1, <1>7 DEF e

\* Quotient and remainder by a power of the base are the high and low digits.
LEMMA DigitsDivided ==
    ASSUME NEW b \in Nat, b > 0, NEW n \in Nat, NEW d, InBase(d, b, n), NEW m \in 0 .. n
    PROVE  /\ FromDigits(d, b, n) \div Power(b, m) = FromDigits(From(d, m, n - m), b, n - m)
           /\ FromDigits(d, b, n) % Power(b, m) = FromDigits(d, b, m)
           /\ InBase(d, b, m) /\ InBase(From(d, m, n - m), b, n - m)
<1> DEFINE k == n - m
           p == Power(b, m)
           q == FromDigits(From(d, m, k), b, k)
           r == FromDigits(d, b, m)
           x == FromDigits(d, b, n)
<1>1. m \in Nat /\ k \in Nat /\ m + k = n
  OBVIOUS
<1> HIDE DEF k
<1>2. InBase(d, b, m) /\ InBase(From(d, m, k), b, k)
  BY <1>1 DEF InBase, From
<1>3. r \in 0 .. p - 1
  BY <1>1, <1>2, DigitsBound
<1>4. p \in Nat /\ p > 0
  BY <1>1, PowerPositive
<1>5. q \in Nat
  <2>1. q \in 0 .. Power(b, k) - 1 BY <1>1, <1>2, DigitsBound
  <2>2. Power(b, k) \in Nat BY <1>1, PowerStep
  <2> QED BY <2>1, <2>2
<1>6. x = q * p + r
  <2>1. HasDigits(d, m + k) BY <1>1 DEF HasDigits, InBase
  <2>2. FromDigits(d, b, m + k) = r + q * p BY <1>1, <2>1, DigitsSplit
  <2>3. q * p \in Nat BY <1>4, <1>5
  <2> HIDE DEF q, p, r
  <2> QED BY <1>1, <1>3, <1>4, <2>2, <2>3
<1>7. x \div p = q /\ x % p = r
  <2> HIDE DEF p, q, r, x
  <2>1. r \in Nat /\ r < p /\ q \in Int BY <1>3, <1>4, <1>5
  <2> QED BY <1>4, <1>6, <2>1, Division
<1> QED BY <1>2, <1>7 DEF k

\* The lowest digit of a number is its remainder.
LEMMA LowestDigit ==
    ASSUME NEW b \in Nat, b > 0, NEW n \in Nat, n > 0, NEW d, InBase(d, b, n)
    PROVE  FromDigits(d, b, n) % b = d[0]
<1>1. 1 \in 0 .. n
  OBVIOUS
<1>2. FromDigits(d, b, n) % Power(b, 1) = FromDigits(d, b, 1)
  BY <1>1, DigitsDivided
<1>3. d[0] \in Nat /\ HasDigits(d, 0 + 1)
  BY DEF InBase, HasDigits
<1>4. FromDigits(d, b, 0 + 1) = FromDigits(d, b, 0) + d[0] * Power(b, 0) /\ FromDigits(d, b, 0) = 0
  BY <1>3, DigitsStep
<1>5. Power(b, 0) = 1 /\ Power(b, 0 + 1) = b * Power(b, 0)
  BY PowerStep
<1> QED BY <1>2, <1>3, <1>4, <1>5

\* Digit j of a number, found by division.
LEMMA DigitAt ==
    ASSUME NEW b \in Nat, b > 0, NEW n \in Nat, NEW d, InBase(d, b, n), NEW j \in 0 .. n - 1
    PROVE  (FromDigits(d, b, n) \div Power(b, j)) % b = d[j]
<1>1. j \in 0 .. n /\ n - j \in Nat /\ n - j > 0
  OBVIOUS
<1>2. /\ FromDigits(d, b, n) \div Power(b, j) = FromDigits(From(d, j, n - j), b, n - j)
      /\ InBase(From(d, j, n - j), b, n - j)
  BY <1>1, DigitsDivided
<1>3. From(d, j, n - j)[0] = d[j]
  BY <1>1 DEF From
<1> QED BY <1>1, <1>2, <1>3, LowestDigit

\* The digits of x in base b.
DigitsOf(x, b, n) == [i \in 0 .. n - 1 |-> (x \div Power(b, i)) % b]

\* They make x again, up to b to the n.
LEMMA DigitsMake ==
    ASSUME NEW b \in Nat, b > 1, NEW n \in Nat, NEW x \in Int
    PROVE  /\ InBase(DigitsOf(x, b, n), b, n)
           /\ FromDigits(DigitsOf(x, b, n), b, n) = x % Power(b, n)
<1> DEFINE d == DigitsOf(x, b, n)
           T == {k \in Nat : k <= n => FromDigits(d, b, k) = x % Power(b, k)}
<1>1. InBase(d, b, n)
  <2>1. ASSUME NEW i \in 0 .. n - 1 PROVE (x \div Power(b, i)) % b \in 0 .. b - 1
    <3>1. Power(b, i) \in Nat /\ Power(b, i) > 0 BY PowerPositive
    <3>2. x \div Power(b, i) \in Int BY <3>1, Remainder
    <3> QED BY <3>2, Remainder
  <2> QED BY <2>1 DEF InBase, DigitsOf
<1>2. 0 \in T
  <2>1. HasDigits(d, 0) BY DEF HasDigits
  <2>2. PICK t : Tops(t, d, b, 0) /\ FromDigits(d, b, 0) = t[0] BY <2>1, Horner
  <2> QED BY <2>2, PowerStep DEF Tops
<1>3. ASSUME NEW k \in T, k + 1 <= n PROVE FromDigits(d, b, k + 1) = x % Power(b, k + 1)
  <2> DEFINE p == Power(b, k)
             q == x \div p
             r == x % p
  <2>1. k \in Nat /\ HasDigits(d, k + 1) /\ d[k] = q % b
    <3>1. k \in 0 .. n - 1 BY <1>3
    <3>2. HasDigits(d, k + 1)
      <4> HIDE DEF d
      <4> QED BY <1>1, <3>1 DEF HasDigits, InBase
    <3> QED BY <3>1, <3>2 DEF DigitsOf
  <2>2. FromDigits(d, b, k + 1) = r + (q % b) * p
    BY <1>3, <2>1, DigitsStep
  <2>3. p \in Nat /\ p > 0 /\ Power(b, k + 1) = b * p
    BY <2>1, PowerStep, PowerPositive
  <2> HIDE DEF p
  <2>4. q \in Int /\ r \in Nat /\ r < p /\ x = q * p + r
    BY <2>3, Remainder
  <2> HIDE DEF q, r
  <2>5. (q \div b) \in Int /\ q % b \in Nat /\ q % b < b /\ q = ((q \div b) * b) + (q % b)
    BY <2>4, Remainder
  <2> DEFINE h == q \div b
             l == q % b
  <2> HIDE DEF h, l
  <2>6. h \in Int /\ l \in Nat /\ l < b /\ q = h * b + l BY <2>5 DEF h, l
  <2>7. x = h * (b * p) + (r + l * p)
    <3>1. \A u, v, y \in Int : (u * y + v) * p = u * (y * p) + v * p BY <2>3
    <3>2. q * p = h * (b * p) + l * p BY <2>6, <3>1
    <3>3. h * (b * p) \in Int /\ l * p \in Int BY <2>3, <2>6
    <3> QED BY <2>4, <3>2, <3>3
  <2>8. r + l * p \in Nat /\ r + l * p < b * p
    <3>1. l * p \in Nat /\ l * p + p <= b * p BY <2>3, <2>6
    <3> QED BY <2>3, <2>4, <3>1
  <2>9. b * p \in Nat /\ b * p > 0 BY <2>3
  <2>10. x % (b * p) = r + l * p
    BY <2>6, <2>7, <2>8, <2>9, Division
  <2> QED BY <2>2, <2>3, <2>10 DEF l
<1>4. \A k \in T : k + 1 \in T
  <2>1. ASSUME NEW k \in T PROVE k + 1 \in T BY <1>3
  <2> QED BY <2>1
<1>5. T \in SUBSET Nat OBVIOUS
<1> HIDE DEF T
<1>6. n \in T BY <1>2, <1>4, <1>5, Induction
<1>7. FromDigits(d, b, n) = x % Power(b, n) BY <1>6 DEF T
<1> QED BY <1>1, <1>7

\* Digits that are all zero make zero.
LEMMA ZeroDigits ==
    ASSUME NEW b \in Nat, NEW n \in Nat, NEW d, \A i \in 0 .. n - 1 : d[i] = 0
    PROVE  FromDigits(d, b, n) = 0
<1> DEFINE T == {k \in Nat : k <= n => FromDigits(d, b, k) = 0}
<1>1. 0 \in T
  <2>1. HasDigits(d, 0) BY DEF HasDigits
  <2>2. PICK t : Tops(t, d, b, 0) /\ FromDigits(d, b, 0) = t[0] BY <2>1, Horner
  <2> QED BY <2>2 DEF Tops
<1>2. ASSUME NEW k \in T, k + 1 <= n PROVE FromDigits(d, b, k + 1) = 0
  <2>1. k \in Nat /\ HasDigits(d, k + 1) /\ d[k] = 0 BY <1>2 DEF HasDigits
  <2>2. FromDigits(d, b, k + 1) = FromDigits(d, b, k) + d[k] * Power(b, k)
    BY <2>1, DigitsStep
  <2>3. Power(b, k) \in Nat BY <2>1, PowerStep
  <2>4. FromDigits(d, b, k) = 0 BY <1>2, <2>1
  <2> QED BY <2>1, <2>2, <2>3, <2>4
<1>3. \A k \in T : k + 1 \in T
  <2>1. ASSUME NEW k \in T PROVE k + 1 \in T BY <1>2
  <2> QED BY <2>1
<1>4. T \in SUBSET Nat OBVIOUS
<1> HIDE DEF T
<1>5. n \in T BY <1>1, <1>3, <1>4, Induction
<1> QED BY <1>5 DEF T

-----------------------------------------------------------------------------
(* Bits of integers *)

\* Bit k of x, in two's complement if x is negative.
BitOf(x, k) == (x \div Power(2, k)) % 2

\* Powers of two are positive and even.
LEMMA Two ==
    ASSUME NEW n \in Nat
    PROVE  /\ Power(2, n) \in Nat /\ Power(2, n) > 0
           /\ Power(2, 0) = 1
           /\ Power(2, n + 1) = 2 * Power(2, n)
BY PowerStep, PowerPositive

\* The first of them.
LEMMA SmallPowers ==
    /\ Power(2, 0) = 1 /\ Power(2, 1) = 2 /\ Power(2, 2) = 4 /\ Power(2, 3) = 8
    /\ Power(2, 4) = 16 /\ Power(2, 5) = 32 /\ Power(2, 6) = 64 /\ Power(2, 7) = 128
    /\ Power(2, 8) = 256 /\ Power(2, 11) = 2048 /\ Power(2, 12) = 4096
<1>1. Power(2, 0) = 1 BY Two
<1>2. Power(2, 0 + 1) = 2 * Power(2, 0) BY Two
<1>3. Power(2, 1 + 1) = 2 * Power(2, 1) BY Two
<1>4. Power(2, 2 + 1) = 2 * Power(2, 2) BY Two
<1>5. Power(2, 3 + 1) = 2 * Power(2, 3) BY Two
<1>6. Power(2, 4 + 1) = 2 * Power(2, 4) BY Two
<1>7. Power(2, 5 + 1) = 2 * Power(2, 5) BY Two
<1>8. Power(2, 6 + 1) = 2 * Power(2, 6) BY Two
<1>9. Power(2, 7 + 1) = 2 * Power(2, 7) BY Two
<1>10. Power(2, 8 + 1) = 2 * Power(2, 8) BY Two
<1>11. Power(2, 9 + 1) = 2 * Power(2, 9) BY Two
<1>12. Power(2, 10 + 1) = 2 * Power(2, 10) BY Two
<1>13. Power(2, 11 + 1) = 2 * Power(2, 11) BY Two
<1> QED BY <1>1, <1>2, <1>3, <1>4, <1>5, <1>6, <1>7, <1>8, <1>9, <1>10, <1>11, <1>12, <1>13

\* Exponents subtract.
LEMMA PowerDifference ==
    ASSUME NEW m \in Nat, NEW n \in 0 .. m
    PROVE  /\ n \in Nat /\ m - n \in Nat
           /\ Power(2, m) = Power(2, m - n) * Power(2, n)
           /\ Power(2, n) \in Nat /\ Power(2, n) > 0
           /\ Power(2, m - n) \in Nat /\ Power(2, m - n) > 0
<1>1. n \in Nat /\ m - n \in Nat /\ (m - n) + n = m
  OBVIOUS
<1>2. Power(2, (m - n) + n) = Power(2, m - n) * Power(2, n)
  BY <1>1, PowerSum
<1> QED BY <1>1, <1>2, Two

\* Quotients of quotients.
LEMMA DivDiv ==
    ASSUME NEW x \in Int, NEW p \in Nat, p > 0, NEW q \in Nat, q > 0
    PROVE  (x \div p) \div q = x \div (p * q)
<1> DEFINE a == x \div p
           b == x % p
<1>1. a \in Int /\ b \in Nat /\ b < p /\ x = a * p + b
  BY Remainder
<1> HIDE DEF a, b
<1> DEFINE c == a \div q
           d == a % q
<1>2. c \in Int /\ d \in Nat /\ d < q /\ a = c * q + d
  BY <1>1, Remainder
<1> HIDE DEF c, d
<1>3. x = c * (p * q) + (d * p + b)
  <2>1. \A u, v, w \in Int : (u * v + w) * p = u * (p * v) + w * p OBVIOUS
  <2>2. a * p = c * (p * q) + d * p BY <1>2, <2>1
  <2>3. c * (p * q) \in Int /\ d * p \in Int BY <1>2
  <2> QED BY <1>1, <2>2, <2>3
<1>4. d * p + b \in Nat /\ d * p + b < p * q
  <2>1. d * p \in Nat /\ d * p + p <= p * q BY <1>2
  <2> QED BY <1>1, <2>1
<1>5. p * q \in Nat /\ p * q > 0
  OBVIOUS
<1>6. x \div (p * q) = c
  BY <1>2, <1>3, <1>4, <1>5, Division
<1> QED BY <1>6 DEF c, a

\* Bits of a quotient.
LEMMA BitShifted ==
    ASSUME NEW x \in Int, NEW n \in Nat, NEW k \in Nat
    PROVE  BitOf(x \div Power(2, n), k) = BitOf(x, n + k)
<1>1. Power(2, n + k) = Power(2, n) * Power(2, k)
  BY PowerSum
<1>2. /\ Power(2, n) \in Nat /\ Power(2, n) > 0
      /\ Power(2, k) \in Nat /\ Power(2, k) > 0
  BY Two
<1>3. (x \div Power(2, n)) \div Power(2, k) = x \div (Power(2, n) * Power(2, k))
  BY <1>2, DivDiv
<1> QED BY <1>1, <1>3 DEF BitOf

\* Multiples of a power of two have the same bits below.
LEMMA BitsBelow ==
    ASSUME NEW x \in Int, NEW q \in Int, NEW n \in Nat, NEW k \in 0 .. n - 1
    PROVE  BitOf(x + q * Power(2, n), k) = BitOf(x, k)
<1> DEFINE p == Power(2, k)
           h == Power(2, n - (k + 1))
           a == x \div p
           b == x % p
<1>1. k \in Nat /\ k + 1 \in 0 .. n
  OBVIOUS
<1>2. /\ p \in Nat /\ p > 0 /\ h \in Nat
      /\ Power(2, n) = h * (2 * p)
  <2>1. Power(2, n) = h * Power(2, k + 1) /\ h \in Nat BY <1>1, PowerDifference
  <2> QED BY <1>1, <2>1, Two
<1> HIDE DEF p, h
<1>3. a \in Int /\ b \in Nat /\ b < p /\ x = a * p + b
  BY <1>2, Remainder
<1> HIDE DEF a, b
<1> DEFINE g == q * h
           y == x + q * Power(2, n)
<1>4. g \in Int BY <1>2
<1>5. y = (a + 2 * g) * p + b
  <2>1. q * Power(2, n) = (2 * g) * p
    <3>1. \A u, v, w \in Int : u * (v * (2 * w)) = (2 * (u * v)) * w OBVIOUS
    <3> QED BY <1>2, <3>1
  <2>2. \A u, v, w \in Int : (u + v) * w = u * w + v * w OBVIOUS
  <2>3. (a + 2 * g) * p = a * p + (2 * g) * p BY <1>2, <1>3, <1>4, <2>2
  <2>4. (2 * g) * p \in Int /\ a * p \in Int BY <1>2, <1>3, <1>4
  <2> HIDE DEF g
  <2> QED BY <1>3, <2>1, <2>3, <2>4
<1> HIDE DEF g, y
<1>6. a + 2 * g \in Int
  BY <1>3, <1>4
<1>7. y \div p = a + 2 * g
  BY <1>2, <1>3, <1>5, <1>6, Division
<1>8. (a + 2 * g) % 2 = a % 2
  BY <1>3, <1>4
<1> QED BY <1>7, <1>8 DEF BitOf, p, a, y

\* A remainder by a power of two has the same bits below.
LEMMA BitsOfRemainder ==
    ASSUME NEW x \in Int, NEW n \in Nat, NEW k \in 0 .. n - 1
    PROVE  BitOf(x % Power(2, n), k) = BitOf(x, k)
<1> DEFINE p == Power(2, n)
           a == x \div p
           b == x % p
<1>1. p \in Nat /\ p > 0
  BY Two
<1>2. a \in Int /\ b \in Int /\ x = b + a * p
  <2>1. a \in Int /\ b \in Nat /\ x = a * p + b BY <1>1, Remainder
  <2> HIDE DEF p, a, b
  <2> QED BY <1>1, <2>1
<1> HIDE DEF a, b
<1>3. BitOf(b + a * Power(2, n), k) = BitOf(b, k)
  BY <1>2, BitsBelow
<1> QED BY <1>2, <1>3 DEF p, b

\* From the n-th on, the bits of a small number are its sign.
LEMMA BitsAbove ==
    ASSUME NEW n \in Nat, NEW x \in Int, -Power(2, n) <= x, x < Power(2, n),
           NEW k \in Nat, k >= n
    PROVE  BitOf(x, k) = IF x < 0 THEN 1 ELSE 0
<1> DEFINE p == Power(2, k)
<1>1. p \in Nat /\ p > 0 /\ Power(2, n) <= p
  <2> DEFINE u == Power(2, n)
             v == Power(2, k - n)
  <2>1. n \in 0 .. k OBVIOUS
  <2>2. p = v * u /\ u \in Nat /\ u > 0 /\ v \in Nat /\ v > 0
    BY <2>1, PowerDifference
  <2> HIDE DEF p, u, v
  <2>3. p \in Nat /\ p > 0 /\ u <= p BY <2>2
  <2> QED BY <2>3 DEF u
<1>2. -p <= x /\ x < p
  <2>1. Power(2, n) \in Nat BY Two
  <2> HIDE DEF p
  <2> QED BY <1>1, <2>1
<1>3. BitOf(x, k) = (x \div p) % 2
  BY DEF BitOf
<1> HIDE DEF p
<1>4. CASE x < 0
  <2>1. x = (-1) * p + (x + p) /\ x + p \in Nat /\ x + p < p /\ -1 \in Int
    BY <1>1, <1>2, <1>4
  <2>2. x \div p = -1 BY <1>1, <2>1, Division
  <2> QED BY <1>3, <1>4, <2>2
<1>5. CASE x >= 0
  <2>1. x = 0 * p + x /\ x \in Nat /\ 0 \in Int
    BY <1>1, <1>5
  <2>2. x \div p = 0 BY <1>1, <1>2, <2>1, Division
  <2> QED BY <1>3, <1>5, <2>2
<1> QED BY <1>4, <1>5

\* Bits of a product with a power of two.
LEMMA BitsOfProduct ==
    ASSUME NEW x \in Int, NEW n \in Nat, NEW k \in Nat
    PROVE  BitOf(x * Power(2, n), k) = IF k < n THEN 0 ELSE BitOf(x, k - n)
<1>1. CASE k < n
  <2>1. k \in 0 .. n - 1 BY <1>1
  <2>2. BitOf(0 + x * Power(2, n), k) = BitOf(0, k) BY <2>1, BitsBelow
  <2>3. BitOf(0, k) = 0
    <3>1. Power(2, k) \in Nat /\ Power(2, k) > 0 BY Two
    <3> QED BY <3>1 DEF BitOf
  <2>4. x * Power(2, n) \in Int BY Two
  <2>5. 0 + x * Power(2, n) = x * Power(2, n) BY <2>4
  <2> QED BY <1>1, <2>2, <2>3, <2>5
<1>2. CASE k >= n
  <2> DEFINE p == Power(2, n)
             y == x * p
  <2>1. p \in Nat /\ p > 0 BY Two
  <2> HIDE DEF p
  <2>2. y \in Int /\ y = x * p + 0 BY <2>1
  <2> HIDE DEF y
  <2>3. y \div p = x BY <2>1, <2>2, Division
  <2>4. k - n \in Nat /\ n + (k - n) = k BY <1>2
  <2>5. BitOf(y \div p, k - n) = BitOf(y, n + (k - n))
    BY <2>2, <2>4, BitShifted DEF p
  <2> QED BY <1>2, <2>3, <2>4, <2>5 DEF y, p
<1> QED BY <1>1, <1>2

\* The highest bit of a number is set in its upper half.
LEMMA TopBit ==
    ASSUME NEW k \in Nat, NEW x \in Nat, x < Power(2, k + 1)
    PROVE  x >= Power(2, k) <=> BitOf(x, k) = 1
<1> DEFINE p == Power(2, k)
           q == x \div p
           r == x % p
<1>1. p \in Nat /\ p > 0 /\ Power(2, k + 1) = 2 * p
  BY Two
<1>2. BitOf(x, k) = q % 2
  BY DEF BitOf
<1>3. q \in Nat /\ r \in Nat /\ r < p /\ x = q * p + r
  <2> HIDE DEF p
  <2> QED BY <1>1, Remainder
<1>4. x < 2 * p
  BY <1>1
<1> HIDE DEF p, q, r
<1>5. CASE q = 0
  <2>1. x = r BY <1>1, <1>3, <1>5
  <2> QED BY <1>1, <1>2, <1>3, <1>5, <2>1 DEF p
<1>6. CASE q = 1
  <2>1. x = p + r BY <1>1, <1>3, <1>6
  <2> QED BY <1>1, <1>2, <1>3, <1>6, <2>1 DEF p
<1>7. CASE q >= 2
  <2> DEFINE z == q - 2
  <2>1. z \in Nat /\ q = 2 + z BY <1>3, <1>7
  <2>2. z * p \in Nat BY <1>1, <2>1
  <2>3. q * p = 2 * p + z * p
    <3> HIDE DEF z
    <3> QED BY <1>1, <2>1
  <2> HIDE DEF z
  <2> QED BY <1>1, <1>3, <1>4, <2>2, <2>3
<1> QED BY <1>3, <1>5, <1>6, <1>7

\* Bytes are eight bits.
LEMMA BytePower ==
    ASSUME NEW n \in Nat
    PROVE  Power(256, n) = Power(2, 8 * n) /\ 8 * n \in Nat
<1> DEFINE T == {k \in Nat : Power(256, k) = Power(2, 8 * k)}
<1>1. 0 \in T
  <2>1. Power(256, 0) = 1 BY PowerStep
  <2>2. 8 * 0 = 0 OBVIOUS
  <2> QED BY <2>1, <2>2, Two
<1>2. ASSUME NEW k \in T PROVE k + 1 \in T
  <2>1. k \in Nat /\ 8 * k \in Nat /\ Power(256, k) = Power(2, 8 * k) OBVIOUS
  <2>2. Power(256, k + 1) = 256 * Power(256, k) BY <2>1, PowerStep
  <2>3. Power(2, (8 * k) + 8) = Power(2, 8 * k) * Power(2, 8) BY <2>1, PowerSum
  <2>4. (8 * k) + 8 = 8 * (k + 1) BY <2>1
  <2> DEFINE p == Power(2, 8 * k)
  <2>5. p \in Int BY <2>1, Two
  <2>6. Power(2, 8) = 256 BY SmallPowers
  <2>7. Power(2, 8 * (k + 1)) = p * 256 BY <2>3, <2>4, <2>6
  <2>8. Power(256, k + 1) = 256 * p BY <2>1, <2>2
  <2> HIDE DEF p
  <2>9. Power(256, k + 1) = Power(2, 8 * (k + 1)) BY <2>5, <2>7, <2>8
  <2> QED BY <2>1, <2>9
<1>3. T \in SUBSET Nat OBVIOUS
<1> HIDE DEF T
<1>4. n \in T BY <1>1, <1>2, <1>3, Induction
<1> QED BY <1>4 DEF T

\* A bit of a number is one of its bytes.
LEMMA BitsOfBytes ==
    ASSUME NEW n \in Nat, NEW d, InBase(d, 256, n), NEW k \in 0 .. n - 1, NEW j \in 0 .. 7
    PROVE  BitOf(FromDigits(d, 256, n), 8 * k + j) = BitOf(d[k], j)
<1> DEFINE x == FromDigits(d, 256, n)
           q == x \div Power(256, k)
<1>1. x \in Int /\ k \in Nat /\ j \in Nat /\ 8 * k \in Nat
  BY DigitsBound
<1>2. q % 256 = d[k]
  BY DigitAt
<1>3. q = x \div Power(2, 8 * k)
  BY <1>1, BytePower
<1>4. q \in Int
  BY <1>1, <1>3, Two, Remainder
<1>5. BitOf(q, j) = BitOf(x, 8 * k + j)
  BY <1>1, <1>3, BitShifted
<1>6. BitOf(q % Power(2, 8), j) = BitOf(q, j)
  <2>1. j \in 0 .. 8 - 1 /\ 8 \in Nat OBVIOUS
  <2> HIDE DEF q
  <2> QED BY <1>4, <2>1, BitsOfRemainder
<1>7. Power(2, 8) = 256
  BY SmallPowers
<1> QED BY <1>2, <1>5, <1>6, <1>7
=============================================================================
