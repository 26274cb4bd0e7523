---------------------------- MODULE NumeralProofs ----------------------------
(****************************************************************************)
(* Proofs about the numbers that Print draws: printNumber, which divides by *)
(* the base until a digit is left and draws on its way back, draws the      *)
(* shortest numeral of every number in every base up to 16, and what a      *)
(* conversion draws piece by piece is the text it stands for.               *)
(****************************************************************************)
EXTENDS TerminalLayout, NaturalsInduction, WellFoundedInduction, TLAPS

\* What may be drawn of strings, numbers and single characters.
Characters == STRING \cup Range(Numeral) \cup {"-", "x", "."}

-----------------------------------------------------------------------------
(* Induction, and recursive functions.                                      *)

\* Min of the community modules finds the smallest of any numbers.
LEMMA Smallest ==
  ASSUME NEW T \in SUBSET Nat, T # {}
  PROVE  Min(T) \in T /\ \A m \in T : Min(T) <= m
<1> DEFINE R == {p \in Nat \X Nat : p[1] < p[2]}
<1>1. IsWellFoundedOn(R, Nat)
  BY NatLessThanWellFounded DEF OpToRel
<1> HIDE DEF R
<1>2. PICK n \in T : \A m \in T : <<m, n>> \notin R
  BY <1>1, WFMin
<1>3. ASSUME NEW m \in T, m < n PROVE FALSE
  <2>1. <<m, n>> \in R
    BY <1>3 DEF R
  <2>2. QED BY <1>2, <2>1
<1>4. \A m \in T : n <= m
  BY <1>3
<1>5. QED
  BY <1>4 DEF Min

\* Induction over the numbers, for a set of them.
LEMMA Induction ==
  ASSUME NEW T, 0 \in T, \A n \in Nat : n \in T => n + 1 \in T
  PROVE  Nat \subseteq T
<1> DEFINE R == Nat \ T
<1>1. ASSUME R # {} PROVE FALSE
  <2>1. Min(R) \in R /\ \A m \in R : Min(R) <= m
    BY <1>1, Smallest
  <2> DEFINE n == Min(R)
  <2> HIDE DEF n
  <2>2. n \in Nat /\ n \notin T /\ \A m \in Nat : m \notin T => n <= m
    BY <2>1 DEF n
  <2>3. n # 0 /\ n - 1 \in Nat
    BY <2>2
  <2>4. n - 1 \in T
    BY <2>2, <2>3
  <2>5. QED BY <2>2, <2>3, <2>4
<1>2. QED BY <1>1

\* Induction from all smaller numbers.
LEMMA StrongInduction ==
  ASSUME NEW T, \A n \in Nat : (\A m \in Nat : m < n => m \in T) => n \in T
  PROVE  Nat \subseteq T
<1> DEFINE R == Nat \ T
<1>1. ASSUME R # {} PROVE FALSE
  <2>1. Min(R) \in R /\ \A m \in R : Min(R) <= m
    BY <1>1, Smallest
  <2> DEFINE n == Min(R)
  <2> HIDE DEF n
  <2>2. n \in Nat /\ n \notin T /\ \A m \in Nat : m \notin T => n <= m
    BY <2>1 DEF n
  <2>3. \A m \in Nat : m < n => m \in T
    BY <2>2
  <2>4. QED BY <2>2, <2>3
<1>2. QED BY <1>1

\* A recursion over the numbers, each step of which goes back to a smaller number.
Recursion(f, n, Z, B, H, d) ==
  \A k \in 0 .. n : f[k] = IF k \in Z THEN B[k] ELSE H[k][f[d[k]]]

GoesBack(d, Z) == d \in [Nat -> Nat] /\ \A k \in Nat \ Z : d[k] < k

\* Two of them agree.
LEMMA RecursionIsOne ==
  ASSUME NEW Z, NEW B, NEW H, NEW d, GoesBack(d, Z),
         NEW n \in Nat, NEW m \in Nat, NEW f, Recursion(f, n, Z, B, H, d),
         NEW g, Recursion(g, m, Z, B, H, d), NEW k \in Nat, k <= n, k <= m
  PROVE  f[k] = g[k]
<1> DEFINE T == {i \in Nat : i <= n /\ i <= m /\ f[i] # g[i]}
<1>1. ASSUME T # {} PROVE FALSE
  <2>1. Min(T) \in T /\ \A i \in T : Min(T) <= i
    BY <1>1, Smallest
  <2> DEFINE a == Min(T)
  <2> HIDE DEF a
  <2>2. a \in T /\ \A i \in T : a <= i
    BY <2>1 DEF a
  <2>3. a \in Nat /\ a \in 0 .. n /\ a \in 0 .. m /\ f[a] # g[a]
    BY <2>2
  <2>4. /\ f[a] = IF a \in Z THEN B[a] ELSE H[a][f[d[a]]]
        /\ g[a] = IF a \in Z THEN B[a] ELSE H[a][g[d[a]]]
    BY <2>3 DEF Recursion
  <2>5. a \notin Z
    BY <2>3, <2>4
  <2>6. d[a] \in Nat /\ d[a] < a
    BY <2>3, <2>5 DEF GoesBack
  <2>7. d[a] \notin T
    BY <2>2, <2>3, <2>6
  <2>8. f[d[a]] = g[d[a]]
    BY <2>3, <2>6, <2>7
  <2>9. QED BY <2>3, <2>4, <2>5, <2>8
<1>2. QED BY <1>1

\* There is one as far as any number ...
LEMMA RecursionStarts ==
  ASSUME NEW A, NEW Z, NEW B \in [Nat -> A], NEW H \in [Nat -> [A -> A]],
         NEW d, GoesBack(d, Z), NEW n \in Nat
  PROVE  \E f \in [0 .. n -> A] : Recursion(f, n, Z, B, H, d)
<1> DEFINE Up(m) == \E f \in [0 .. m -> A] : Recursion(f, m, Z, B, H, d)
           T == {m \in Nat : Up(m)}
<1>1. 0 \in T
  <2> DEFINE f == [k \in 0 .. 0 |-> B[0]]
  <2>1. \A k \in 0 .. 0 : k = 0
    OBVIOUS
  <2>2. 0 \in Z
    <3>1. ASSUME 0 \notin Z PROVE FALSE
      <4>1. d[0] \in Nat /\ d[0] < 0
        BY <3>1 DEF GoesBack
      <4>2. QED BY <4>1
    <3>2. QED BY <3>1
  <2>3. f \in [0 .. 0 -> A]
    OBVIOUS
  <2>4. f[0] = B[0]
    OBVIOUS
  <2> HIDE DEF f
  <2>5. Recursion(f, 0, Z, B, H, d)
    BY <2>1, <2>2, <2>4 DEF Recursion
  <2>6. QED BY <2>3, <2>5
<1>2. ASSUME NEW m \in Nat, m \in T PROVE m + 1 \in T
  <2>1. PICK f \in [0 .. m -> A] : Recursion(f, m, Z, B, H, d)
    BY <1>2
  <2> DEFINE j == m + 1
             v == IF j \in Z THEN B[j] ELSE H[j][f[d[j]]]
             g == [k \in 0 .. j |-> IF k = j THEN v ELSE f[k]]
  <2>2. v \in A
    <3>1. j \in Nat
      OBVIOUS
    <3>2. CASE j \in Z
      BY <3>1, <3>2
    <3>3. CASE j \notin Z
      <4>1. d[j] \in Nat /\ d[j] < j
        BY <3>1, <3>3 DEF GoesBack
      <4>2. d[j] \in 0 .. m
        BY <4>1
      <4>3. f[d[j]] \in A
        BY <4>2
      <4>4. H[j] \in [A -> A]
        BY <3>1
      <4> HIDE DEF j
      <4>5. QED BY <3>3, <4>3, <4>4
    <3>4. QED BY <3>2, <3>3
  <2>3. g \in [0 .. j -> A] /\ g[j] = v /\ \A k \in 0 .. m : g[k] = f[k] /\ k # j
    <3> HIDE DEF v
    <3>1. \A k \in 0 .. j : k = j \/ k \in 0 .. m
      OBVIOUS
    <3>2. QED BY <2>2, <3>1
  <2>4. ASSUME NEW k \in 0 .. j PROVE g[k] = IF k \in Z THEN B[k] ELSE H[k][g[d[k]]]
    <3>1. CASE k \in Z /\ k = j
      BY <2>3, <3>1
    <3>2. CASE k \in Z /\ k # j
      <4>1. k \in 0 .. m
        BY <3>2
      <4>2. f[k] = B[k]
        BY <2>1, <3>2, <4>1 DEF Recursion
      <4> HIDE DEF g
      <4>3. QED BY <2>3, <3>2, <4>1, <4>2
    <3>3. CASE k \notin Z
      <4>1. k \in Nat /\ d[k] \in Nat /\ d[k] < k
        BY <3>3 DEF GoesBack
      <4>2. d[k] \in 0 .. m
        BY <4>1
      <4> HIDE DEF g
      <4>3. g[d[k]] = f[d[k]]
        BY <2>3, <4>2
      <4>4. CASE k = j
        <5> HIDE DEF j
        <5>1. QED BY <2>3, <3>3, <4>3, <4>4
      <4>5. CASE k # j
        <5>1. k \in 0 .. m
          BY <4>5
        <5>2. f[k] = H[k][f[d[k]]]
          BY <2>1, <3>3, <5>1 DEF Recursion
        <5>3. QED BY <2>3, <3>3, <4>3, <5>1, <5>2
      <4>6. QED BY <4>4, <4>5
    <3>4. QED BY <3>1, <3>2, <3>3
  <2> HIDE DEF g, v
  <2>5. Recursion(g, j, Z, B, H, d)
    BY <2>4 DEF Recursion
  <2>6. QED BY <2>3, <2>5
<1> HIDE DEF T
<1>3. Nat \subseteq T
  BY <1>1, <1>2, Induction
<1>4. QED BY <1>3 DEF T

\* What a recursion is made of, and a recursion over all numbers.
Recurs(A, Z, B, H, d) ==
  B \in [Nat -> A] /\ H \in [Nat -> [A -> A]] /\ GoesBack(d, Z)

RecursionOver(f, A, Z, B, H, d) ==
  /\ f \in [Nat -> A]
  /\ \A k \in Nat : f[k] = IF k \in Z THEN B[k] ELSE H[k][f[d[k]]]

\* ... and therefore one over all of them.
LEMMA RecursionExists ==
  ASSUME NEW A, NEW Z, NEW B, NEW H, NEW d, Recurs(A, Z, B, H, d)
  PROVE  \E f : RecursionOver(f, A, Z, B, H, d)
<1>1. B \in [Nat -> A] /\ H \in [Nat -> [A -> A]] /\ GoesBack(d, Z)
  BY DEF Recurs
<1> DEFINE Up(n) == CHOOSE f \in [0 .. n -> A] : Recursion(f, n, Z, B, H, d)
           f == [n \in Nat |-> Up(n)[n]]
<1>2. ASSUME NEW n \in Nat PROVE Up(n) \in [0 .. n -> A] /\ Recursion(Up(n), n, Z, B, H, d)
  <2>1. \E g \in [0 .. n -> A] : Recursion(g, n, Z, B, H, d)
    BY <1>1, RecursionStarts
  <2>2. QED BY <2>1
<1> HIDE DEF Up
<1>3. \A n \in Nat : n \in 0 .. n
  OBVIOUS
<1>4. f \in [Nat -> A]
  BY <1>2, <1>3
<1>5. ASSUME NEW k \in Nat PROVE f[k] = IF k \in Z THEN B[k] ELSE H[k][f[d[k]]]
  <2>1. Up(k)[k] = IF k \in Z THEN B[k] ELSE H[k][Up(k)[d[k]]]
    BY <1>2, <1>3 DEF Recursion
  <2>2. f[k] = Up(k)[k]
    OBVIOUS
  <2>3. ASSUME k \notin Z PROVE Up(k)[d[k]] = f[d[k]]
    <3> DEFINE j == d[k]
    <3>1. j \in Nat /\ j < k
      BY <1>1, <2>3 DEF GoesBack
    <3> HIDE DEF j
    <3>2. Recursion(Up(k), k, Z, B, H, d) /\ Recursion(Up(j), j, Z, B, H, d)
      BY <1>2, <3>1
    <3>3. j <= k /\ j <= j
      BY <3>1
    <3>4. Up(k)[j] = Up(j)[j]
      <4> DEFINE a == Up(k)
                 b == Up(j)
      <4>1. Recursion(a, k, Z, B, H, d) /\ Recursion(b, j, Z, B, H, d)
        BY <3>2
      <4> HIDE DEF a, b
      <4>2. a[j] = b[j]
        BY <3>1, <3>3, <4>1, <1>1, RecursionIsOne
      <4>3. QED BY <4>2 DEF a, b
    <3>5. QED BY <3>1, <3>4 DEF j
  <2> HIDE DEF f
  <2>4. QED BY <2>1, <2>2, <2>3
<1> HIDE DEF f
<1>6. QED BY <1>4, <1>5 DEF RecursionOver

-----------------------------------------------------------------------------
(* Numerals.                                                                *)

\* The powers of a base.
LEMMA PowerIs ==
  ASSUME NEW base \in Nat
  PROVE  /\ Power(base)[0] = 1 /\ \A k \in Nat : Power(base)[k] \in Nat
         /\ \A k \in Nat : Power(base)[k + 1] = base * Power(base)[k]
<1> DEFINE Is(f) == f = [k \in Nat |-> IF k = 0 THEN 1 ELSE base * f[k - 1]]
           g == CHOOSE f : Is(f)
<1>1. Power(base) = g
  BY DEF Power
<1>2. \E f : Is(f) /\ f \in [Nat -> Nat]
  <2> DEFINE B == [k \in Nat |-> 1]
             H == [k \in Nat |-> [v \in Nat |-> base * v]]
             d == [k \in Nat |-> IF k = 0 THEN 0 ELSE k - 1]
             Z == {0}
  <2>1. B \in [Nat -> Nat] /\ H \in [Nat -> [Nat -> Nat]]
    OBVIOUS
  <2>2. GoesBack(d, Z)
    BY DEF GoesBack
  <2>3. \A k \in Nat : B[k] = 1 /\ (k # 0 => d[k] = k - 1)
    OBVIOUS
  <2>4. \A k \in Nat, v \in Nat : H[k][v] = base * v
    OBVIOUS
  <2>5. \A k : k \in Z <=> k = 0
    OBVIOUS
  <2> HIDE DEF B, H, d, Z
  <2>6. Recurs(Nat, Z, B, H, d)
    BY <2>1, <2>2 DEF Recurs
  <2>7. PICK f : RecursionOver(f, Nat, Z, B, H, d)
    BY <2>6, RecursionExists
  <2>8. f \in [Nat -> Nat] /\ \A k \in Nat : f[k] = IF k \in Z THEN B[k] ELSE H[k][f[d[k]]]
    BY <2>7 DEF RecursionOver
  <2>9. ASSUME NEW k \in Nat PROVE f[k] = IF k = 0 THEN 1 ELSE base * f[k - 1]
    <3>1. CASE k = 0
      BY <2>3, <2>8, <2>5, <3>1
    <3>2. CASE k # 0
      <4>1. k - 1 \in Nat
        BY <3>2
      <4>2. f[k - 1] \in Nat
        BY <2>8, <4>1
      <4>3. f[k] = H[k][f[k - 1]]
        BY <2>3, <2>8, <2>5, <3>2
      <4>4. QED BY <2>4, <3>2, <4>2, <4>3
    <3>3. QED BY <3>1, <3>2
  <2>10. f = [k \in Nat |-> f[k]]
    BY <2>8
  <2>11. Is(f)
    BY <2>9, <2>10
  <2>12. QED BY <2>8, <2>11
<1>3. Is(g)
  BY <1>2
<1> HIDE DEF g
<1>4. \A k \in Nat : g[k] = IF k = 0 THEN 1 ELSE base * g[k - 1]
  BY <1>3
<1>5. \A k \in Nat : g[k + 1] = base * g[k]
  <2> SUFFICES ASSUME NEW k \in Nat PROVE g[k + 1] = base * g[k]
    OBVIOUS
  <2>1. k + 1 \in Nat /\ k + 1 # 0 /\ k + 1 - 1 = k
    OBVIOUS
  <2>2. QED BY <1>4, <2>1
<1>6. \A k \in Nat : g[k] \in Nat
  <2> DEFINE T == {k \in Nat : g[k] \in Nat}
  <2>1. 0 \in T
    BY <1>4
  <2>2. ASSUME NEW k \in Nat, k \in T PROVE k + 1 \in T
    BY <1>5, <2>2
  <2> HIDE DEF T
  <2>3. Nat \subseteq T
    BY <2>1, <2>2, Induction
  <2>4. QED BY <2>3 DEF T
<1>7. QED BY <1>1, <1>4, <1>5, <1>6

\* The powers of a base grow, and outgrow any number.
LEMMA PowersGrow ==
  ASSUME NEW base \in Nat \ {0, 1}
  PROVE  \A k \in Nat : /\ k < Power(base)[k]
                        /\ \A j \in Nat : j <= k => Power(base)[j] <= Power(base)[k]
<1> DEFINE P == Power(base)
           T == {k \in Nat : k < P[k] /\ \A j \in Nat : j <= k => P[j] <= P[k]}
<1>1. /\ P[0] = 1 /\ \A k \in Nat : P[k] \in Nat
      /\ \A k \in Nat : P[k + 1] = base * P[k]
  BY PowerIs
<1> HIDE DEF P
<1>2. 0 \in T
  BY <1>1
<1>3. ASSUME NEW k \in Nat, k \in T PROVE k + 1 \in T
  <2>1. P[k + 1] >= 2 * P[k]
    <3> DEFINE v == P[k]
    <3>1. v \in Nat /\ P[k + 1] = base * v
      BY <1>1
    <3> HIDE DEF v
    <3>2. base * v >= 2 * v
      BY <3>1
    <3>3. QED BY <3>1, <3>2 DEF v
  <2>2. P[k] \in Nat /\ k < P[k] /\ P[k + 1] \in Nat
    BY <1>1, <1>3
  <2>3. k + 1 < P[k + 1]
    BY <2>1, <2>2
  <2>4. ASSUME NEW j \in Nat, j <= k + 1 PROVE P[j] <= P[k + 1]
    <3>1. CASE j = k + 1
      BY <1>1, <3>1
    <3>2. CASE j <= k
      <4>1. P[j] <= P[k] /\ P[j] \in Nat
        BY <1>1, <1>3, <3>2
      <4>2. QED BY <2>1, <2>2, <4>1
    <3>3. QED BY <2>4, <3>1, <3>2
  <2>5. QED BY <2>3, <2>4
<1> HIDE DEF T
<1>4. Nat \subseteq T
  BY <1>2, <1>3, Induction
<1>5. QED BY <1>4 DEF T, P

\* A number has k digits.
HasLength(k, n, base) ==
  k \in 1 .. n + 1 /\ n < Power(base)[k] /\ (k = 1 \/ Power(base)[k - 1] <= n)

\* It has so many and no other number of them.
LEMMA LengthIsOne ==
  ASSUME NEW base \in Nat \ {0, 1}, NEW n \in Nat, NEW k, HasLength(k, n, base),
         NEW j, HasLength(j, n, base)
  PROVE  j = k
<1> DEFINE P == Power(base)
<1>1. \A i \in Nat : P[i] \in Nat
  BY PowerIs
<1>2. \A b \in Nat : \A a \in Nat : a <= b => P[a] <= P[b]
  BY PowersGrow
<1> HIDE DEF P
<1>3. ASSUME NEW a \in Nat, NEW b \in Nat, a < b, n < P[a], P[b - 1] <= n PROVE FALSE
  <2>1. b - 1 \in Nat /\ a <= b - 1
    BY <1>3
  <2>2. P[a] <= P[b - 1] /\ P[a] \in Nat /\ P[b - 1] \in Nat
    BY <1>1, <1>2, <2>1
  <2>3. QED BY <1>3, <2>2
<1>4. /\ k \in 1 .. n + 1 /\ n < P[k] /\ (k = 1 \/ P[k - 1] <= n)
      /\ j \in 1 .. n + 1 /\ n < P[j] /\ (j = 1 \/ P[j - 1] <= n)
  BY DEF HasLength, P
<1>5. k \in Nat /\ j \in Nat /\ k >= 1 /\ j >= 1
  BY <1>4
<1>6. ~(k < j)
  BY <1>3, <1>4, <1>5
<1>7. ~(j < k)
  BY <1>3, <1>4, <1>5
<1>8. QED BY <1>5, <1>6, <1>7

\* The digits of a number that has k of them.
Digits(n, base, k) == [i \in 1 .. k |-> Numeral[(n \div Power(base)[k - i]) % base]]

LEMMA SpelledIs ==
  ASSUME NEW base \in Nat \ {0, 1}, NEW n \in Nat, NEW k, HasLength(k, n, base)
  PROVE  Spelled(n, base) = Digits(n, base, k)
<1> DEFINE P == Power(base)
           Is(j) == n < P[j] /\ (j = 1 \/ P[j - 1] <= n)
           length == CHOOSE j \in 1 .. n + 1 : Is(j)
<1>1. k \in 1 .. n + 1 /\ Is(k)
  BY DEF HasLength
<1>2. length \in 1 .. n + 1 /\ Is(length)
  <2> HIDE DEF Is
  <2>1. QED BY <1>1
<1>3. Spelled(n, base) = [i \in 1 .. length |-> Numeral[(n \div P[length - i]) % base]]
  BY DEF Spelled
<1> HIDE DEF length
<1>4. HasLength(length, n, base)
  BY <1>2 DEF HasLength
<1>5. length = k
  BY <1>4, LengthIsOne
<1>6. QED BY <1>3, <1>5 DEF Digits

\* A single digit.
LEMMA OneDigit ==
  ASSUME NEW base \in Nat \ {0, 1}, NEW n \in Nat, n < base
  PROVE  HasLength(1, n, base) /\ Spelled(n, base) = <<Numeral[n % base]>>
<1> DEFINE P == Power(base)
<1>1. P[0] = 1 /\ P[0 + 1] = base * P[0]
  BY PowerIs
<1>2. P[1] = base
  <2> HIDE DEF P
  <2>1. QED BY <1>1
<1>3. HasLength(1, n, base)
  <2>1. 1 \in 1 .. n + 1
    OBVIOUS
  <2>2. QED BY <1>2, <2>1 DEF HasLength
<1>4. Spelled(n, base) = [i \in 1 .. 1 |-> Numeral[(n \div P[1 - i]) % base]]
  BY ZenonT(30), <1>3, SpelledIs DEF Digits
<1> HIDE DEF P
<1>5. \A i \in 1 .. 1 : i = 1 /\ (n \div P[1 - i]) % base = n % base
  <2>1. n \div 1 = n
    OBVIOUS
  <2>2. \A i \in 1 .. 1 : i = 1 /\ 1 - i = 0
    OBVIOUS
  <2>3. QED BY <1>1, <2>1, <2>2
<1>6. Spelled(n, base) = [i \in 1 .. 1 |-> Numeral[n % base]]
  BY <1>4, <1>5
<1>7. QED BY <1>3, <1>6

\* The digits of a number are those of the number without its last digit, and that.
LEMMA MoreDigits ==
  ASSUME NEW base \in Nat \ {0, 1}, NEW n \in Nat, n >= base,
         NEW m, m = n \div base, NEW k, HasLength(k, m, base)
  PROVE  HasLength(k + 1, n, base)
         /\ Spelled(n, base) = Append(Spelled(m, base), Numeral[n % base])
<1> DEFINE P == Power(base)
<1>1. /\ P[0] = 1 /\ \A i \in Nat : P[i] \in Nat
      /\ \A i \in Nat : P[i + 1] = base * P[i]
  BY PowerIs
<1>2. \A i \in Nat : P[i] # 0
  BY <1>1, PowersGrow
<1>3. m \in Nat /\ m >= 1 /\ m < n
  <2>1. m \in Nat /\ m >= 1
    OBVIOUS
  <2>2. m * base <= n
    OBVIOUS
  <2>3. m * base >= 2 * m
    BY <2>1
  <2>4. QED BY <2>1, <2>2, <2>3
<1>4. k \in 1 .. m + 1 /\ m < P[k] /\ (k = 1 \/ P[k - 1] <= m)
  BY DEF HasLength
<1>5. k \in Nat /\ k >= 1 /\ k + 1 \in 1 .. n + 1
  BY <1>3, <1>4
<1>6. \A v \in Nat : (m < v <=> n < base * v)
  <2> SUFFICES ASSUME NEW v \in Nat PROVE m < v <=> n < base * v
    OBVIOUS
  <2> DEFINE r == n % base
  <2>1. r \in 0 .. base - 1 /\ n = base * m + r
    OBVIOUS
  <2> HIDE DEF r
  <2>2. CASE m < v
    <3>1. base * (m + 1) <= base * v
      BY <1>3, <2>2
    <3>2. QED BY <1>3, <2>1, <2>2, <3>1
  <2>3. CASE m >= v
    <3>1. base * m >= base * v
      BY <1>3, <2>3
    <3>2. QED BY <1>3, <2>1, <2>3, <3>1
  <2>4. QED BY <1>3, <2>2, <2>3
<1>7. \A v \in Nat : v # 0 => (m \div v) = n \div (base * v)
  OBVIOUS
<1> HIDE DEF P
<1>8. HasLength(k + 1, n, base)
  <2>1. n < P[k + 1]
    BY <1>1, <1>4, <1>5, <1>6
  <2>2. P[k + 1 - 1] <= n
    <3>1. k + 1 - 1 = k
      BY <1>5
    <3>2. CASE k = 1
      <4>1. P[0 + 1] = base * P[0]
        BY <1>1
      <4>2. P[1] = base
        BY <1>1, <4>1
      <4>3. QED BY <3>1, <3>2, <4>2
    <3>3. CASE k # 1
      <4> DEFINE i == k - 1
      <4>1. i \in Nat /\ i + 1 = k /\ P[i] <= m
        BY <1>4, <1>5, <3>3
      <4> HIDE DEF i
      <4>2. P[k] = base * P[i] /\ P[i] \in Nat
        BY <1>1, <4>1
      <4>3. ~(m < P[i])
        BY <1>3, <4>1, <4>2
      <4>4. ~(n < base * P[i])
        BY <1>6, <4>2, <4>3
      <4>5. ~(n < P[k]) /\ P[k] \in Nat
        BY <1>1, <1>5, <4>2, <4>4
      <4>6. P[k] <= n
        BY <4>5
      <4>7. QED BY <3>1, <4>6
    <3>4. QED BY <3>2, <3>3
  <2>3. QED BY <1>5, <2>1, <2>2 DEF HasLength, P
<1> DEFINE j == k + 1
           s == Spelled(m, base)
<1>9. s = [i \in 1 .. k |-> Numeral[(m \div P[k - i]) % base]]
  <2>1. s = Digits(m, base, k)
    BY <1>3, SpelledIs
  <2> HIDE DEF s
  <2>2. QED BY <2>1 DEF P, Digits
<1>10. HasLength(j, n, base) /\ j \in Nat /\ j = k + 1
  BY <1>5, <1>8
<1> HIDE DEF j
<1>11. Spelled(n, base) = [i \in 1 .. j |-> Numeral[(n \div P[j - i]) % base]]
  <2>1. Spelled(n, base) = Digits(n, base, j)
    BY <1>10, SpelledIs
  <2>2. QED BY <2>1 DEF P, Digits
<1>12. ASSUME NEW i \in 1 .. k PROVE n \div P[j - i] = m \div P[k - i]
  <2> DEFINE a == k - i
  <2>1. a \in Nat /\ j - i = a + 1
    BY <1>5, <1>10
  <2> HIDE DEF a
  <2>2. P[a + 1] = base * P[a] /\ P[a] \in Nat /\ P[a] # 0
    BY <1>1, <1>2, <2>1 DEF P
  <2>3. m \div P[a] = n \div (base * P[a])
    BY <1>7, <2>2
  <2>4. QED BY <2>1, <2>2, <2>3 DEF a
<1>13. n \div P[j - j] = n
  <2>1. j - j = 0 /\ n \div 1 = n
    BY <1>10
  <2>2. QED BY <1>1, <2>1
<1>14. Len(s) = k /\ \A i \in 1 .. k : s[i] = Numeral[(m \div P[k - i]) % base]
  BY <1>5, <1>9
<1> HIDE DEF s
<1>15. Append(s, Numeral[n % base]) =
         [i \in 1 .. j |-> IF i = j THEN Numeral[n % base] ELSE s[i]]
  <2>1. DOMAIN s = 1 .. k
    BY <1>9 DEF s
  <2>2. QED BY <1>10, <1>14, <2>1
<1>16. \A i \in 1 .. j : Numeral[(n \div P[j - i]) % base]
                           = IF i = j THEN Numeral[n % base] ELSE s[i]
  <2> SUFFICES ASSUME NEW i \in 1 .. j
               PROVE  Numeral[(n \div P[j - i]) % base]
                        = IF i = j THEN Numeral[n % base] ELSE s[i]
    OBVIOUS
  <2>1. CASE i = j
    BY <1>13, <2>1
  <2>2. CASE i # j
    <3>1. i \in 1 .. k
      BY <1>5, <1>10, <2>2
    <3>2. QED BY <1>12, <1>14, <2>2, <3>1
  <2>3. QED BY <2>1, <2>2
<1>17. Spelled(n, base) = Append(s, Numeral[n % base])
  BY <1>11, <1>15, <1>16
<1>18. QED BY <1>8, <1>17 DEF s

-----------------------------------------------------------------------------
(* What printNumber draws.                                                  *)

\* Two drawings, one after the other.
LEMMA Joined ==
  ASSUME NEW S, NEW s \in Seq(S), NEW t \in Seq(S)
  PROVE  /\ s \o t \in Seq(S) /\ Len(s \o t) = Len(s) + Len(t)
         /\ \A i \in 1 .. Len(s) : (s \o t)[i] = s[i]
         /\ \A i \in 1 .. Len(t) : (s \o t)[Len(s) + i] = t[i]
OBVIOUS

\* Characters one by one.
Singles(s) == [i \in 1 .. Len(s) |-> <<s[i]>>]

\* One more of them.
LEMMA SinglesAppended ==
  ASSUME NEW s \in Seq(Characters), NEW c \in Characters
  PROVE  /\ Singles(Append(s, c)) = Singles(s) \o << <<c>> >>
         /\ Append(s, c) \in Seq(Characters) /\ Singles(s) \in Seq(Seq(Characters))
<1> DEFINE n == Len(s)
           t == Append(s, c)
           a == Singles(s)
           b == << <<c>> >>
<1>1. n \in Nat /\ DOMAIN s = 1 .. n /\ \A i \in 1 .. n : s[i] \in Characters
  OBVIOUS
<1>2. /\ t \in Seq(Characters) /\ Len(t) = n + 1 /\ t[n + 1] = c
      /\ \A i \in 1 .. n : t[i] = s[i]
  OBVIOUS
<1>3. a = [i \in 1 .. n |-> <<s[i]>>]
  BY DEF Singles
<1>4. \A i \in 1 .. n : <<s[i]>> \in Seq(Characters)
  BY <1>1
<1> HIDE DEF n, t, a
<1>5. a \in Seq(Seq(Characters)) /\ Len(a) = n /\ \A i \in 1 .. n : a[i] = <<s[i]>>
  BY <1>1, <1>3, <1>4
<1>6. b \in Seq(Seq(Characters)) /\ Len(b) = 1 /\ b[1] = <<c>>
  OBVIOUS
<1> HIDE DEF b
<1>7. /\ a \o b \in Seq(Seq(Characters)) /\ Len(a \o b) = n + 1
      /\ \A i \in 1 .. n : (a \o b)[i] = <<s[i]>>
      /\ (a \o b)[n + 1] = <<c>>
  <2>1. /\ a \o b \in Seq(Seq(Characters)) /\ Len(a \o b) = Len(a) + Len(b)
        /\ \A i \in 1 .. Len(a) : (a \o b)[i] = a[i]
        /\ \A i \in 1 .. Len(b) : (a \o b)[Len(a) + i] = b[i]
    <3> DEFINE S == Seq(Characters)
    <3>1. a \in Seq(S) /\ b \in Seq(S)
      BY <1>5, <1>6
    <3> HIDE DEF S
    <3>2. /\ a \o b \in Seq(S) /\ Len(a \o b) = Len(a) + Len(b)
          /\ \A i \in 1 .. Len(a) : (a \o b)[i] = a[i]
          /\ \A i \in 1 .. Len(b) : (a \o b)[Len(a) + i] = b[i]
      BY <3>1, Joined
    <3>3. QED BY <3>2 DEF S
  <2>2. (a \o b)[n + 1] = b[1]
    BY <1>5, <1>6, <2>1
  <2>3. QED BY <1>1, <1>5, <1>6, <2>1, <2>2
<1> DEFINE ab == a \o b
           m == n + 1
<1>8. ab = [i \in 1 .. n + 1 |-> ab[i]]
  <2>1. ab \in Seq(Seq(Characters)) /\ Len(ab) = m
    BY <1>7
  <2> HIDE DEF ab, m
  <2>2. ab = [i \in 1 .. m |-> ab[i]]
    BY <2>1
  <2>3. QED BY <2>2 DEF m
<1> HIDE DEF ab
<1>9. \A i \in 1 .. n + 1 : i = n + 1 \/ i \in 1 .. n
  BY <1>1
<1>10. \A i \in 1 .. n + 1 : ab[i] = <<t[i]>>
  BY <1>2, <1>7, <1>9 DEF ab
<1>11. Singles(t) = ab
  BY <1>2, <1>8, <1>10 DEF Singles
<1>12. QED BY <1>2, <1>5, <1>11 DEF t, a, b, ab

\* The numerals are characters.
LEMMA NumeralIs ==
  \A d \in 0 .. 15 : Numeral[d] \in Characters
<1>1. DOMAIN Numeral = 0 .. 15
  BY DEF Numeral
<1>2. \A d \in 0 .. 15 : Numeral[d] \in Range(Numeral)
  BY <1>1 DEF Range
<1>3. QED BY <1>2 DEF Characters

\* What the recursion of printNumber and printNumberHex draws is the number: its
\* digits in order, from the first to the last, and no others.
THEOREM NumberIsSpelled ==
  ASSUME NEW base \in 2 .. 16, NEW n \in Nat
  PROVE  /\ printNumber(n, base) = Singles(Spelled(n, base))
         /\ Spelled(n, base) \in Seq(Characters) /\ Len(Spelled(n, base)) >= 1
<1> DEFINE LastDigit(k) == << <<Numeral[k % base]>> >>
           Is(f) == f = [k \in Nat |-> (IF k < base THEN <<>> ELSE f[k \div base]) \o LastDigit(k)]
           g == CHOOSE f : Is(f)
           A == Seq(Seq(Characters))
<1>1. ASSUME NEW m \in Nat PROVE printNumber(m, base) = g[m]
  BY DEF printNumber
<1>2. ASSUME NEW k \in Nat PROVE Numeral[k % base] \in Characters /\ LastDigit(k) \in A
  <2>1. k % base \in 0 .. 15
    OBVIOUS
  <2>2. QED BY <2>1, NumeralIs
<1>3. ASSUME NEW k \in Nat, ~(k < base) PROVE k \div base \in Nat /\ k \div base < k
  <2> DEFINE m == k \div base
  <2>1. m \in Nat /\ base * m <= k /\ m >= 1
    BY <1>3
  <2> HIDE DEF m
  <2>2. base * m >= 2 * m
    BY <2>1
  <2>3. m < k
    BY <2>1, <2>2
  <2>4. QED BY <2>1, <2>3 DEF m
<1> HIDE DEF LastDigit
<1>4. \E f : Is(f)
  <2> DEFINE Z == {k \in Nat : k < base}
             B == [k \in Nat |-> <<>> \o LastDigit(k)]
             H == [k \in Nat |-> [v \in A |-> v \o LastDigit(k)]]
             d == [k \in Nat |-> k \div base]
  <2>1. \A k \in Nat : B[k] = <<>> \o LastDigit(k) /\ d[k] = k \div base /\ (k \in Z <=> k < base)
    OBVIOUS
  <2>2. \A k \in Nat, v \in A : H[k][v] = v \o LastDigit(k)
    OBVIOUS
  <2>3. GoesBack(d, Z)
    <3>1. d \in [Nat -> Nat]
      OBVIOUS
    <3>2. QED BY <1>3, <3>1 DEF GoesBack
  <2>4. B \in [Nat -> A] /\ H \in [Nat -> [A -> A]]
    <3>1. \A k \in Nat : <<>> \o LastDigit(k) \in A
      <4>1. <<>> \in A
        OBVIOUS
      <4>2. QED BY <1>2, <4>1, Joined
    <3>2. \A k \in Nat, v \in A : v \o LastDigit(k) \in A
      BY <1>2, Joined
    <3> HIDE DEF A
    <3>3. QED BY <3>1, <3>2
  <2> HIDE DEF Z, B, H, d
  <2>5. Recurs(A, Z, B, H, d)
    BY <2>3, <2>4 DEF Recurs
  <2>6. PICK f : RecursionOver(f, A, Z, B, H, d)
    BY <2>5, RecursionExists
  <2>7. f \in [Nat -> A] /\ \A k \in Nat : f[k] = IF k \in Z THEN B[k] ELSE H[k][f[d[k]]]
    BY <2>6 DEF RecursionOver
  <2>8. ASSUME NEW k \in Nat
        PROVE  f[k] = (IF k < base THEN <<>> ELSE f[k \div base]) \o LastDigit(k)
    <3>1. CASE k < base
      BY <2>1, <2>7, <3>1
    <3>2. CASE ~(k < base)
      <4>1. k \div base \in Nat
        BY <1>3, <3>2
      <4>2. f[k \div base] \in A
        BY <2>7, <4>1
      <4>3. f[k] = H[k][f[k \div base]]
        BY <2>1, <2>7, <3>2
      <4>4. QED BY <2>2, <3>2, <4>2, <4>3
    <3>3. QED BY <3>1, <3>2
  <2>9. f = [k \in Nat |-> f[k]]
    BY <2>7
  <2>10. Is(f)
    BY <2>8, <2>9
  <2>11. QED BY <2>10
<1>5. Is(g)
  BY <1>4
<1> HIDE DEF g
<1>6. \A k \in Nat : g[k] = (IF k < base THEN <<>> ELSE g[k \div base]) \o LastDigit(k)
  BY <1>5
<1> DEFINE Good(m) == /\ g[m] = Singles(Spelled(m, base))
                      /\ Spelled(m, base) \in Seq(Characters) /\ Len(Spelled(m, base)) >= 1
                      /\ \E k : HasLength(k, m, base)
           T == {m \in Nat : Good(m)}
<1>7. base \in Nat \ {0, 1}
  OBVIOUS
<1>8. ASSUME NEW k \in Nat, \A m \in Nat : m < k => m \in T PROVE k \in T
  <2> DEFINE c == Numeral[k % base]
  <2>1. c \in Characters /\ LastDigit(k) = << <<c>> >>
    BY <1>2 DEF LastDigit
  <2> HIDE DEF c
  <2>2. CASE k < base
    <3>1. HasLength(1, k, base) /\ Spelled(k, base) = <<c>>
      BY <1>7, <2>2, OneDigit DEF c
    <3>2. g[k] = << <<c>> >>
      <4>1. g[k] = <<>> \o LastDigit(k)
        BY <1>6, <2>2
      <4>2. QED BY <2>1, <4>1
    <3>3. Singles(<<c>>) = << <<c>> >>
      <4>1. Len(<<c>>) = 1 /\ \A i \in 1 .. 1 : <<c>>[i] = c
        OBVIOUS
      <4>2. Singles(<<c>>) = [i \in 1 .. 1 |-> <<c>>]
        BY <4>1 DEF Singles
      <4>3. QED BY <4>2
    <3>4. <<c>> \in Seq(Characters) /\ Len(<<c>>) >= 1
      BY <2>1
    <3>5. QED BY <3>1, <3>2, <3>3, <3>4
  <2>3. CASE ~(k < base)
    <3> DEFINE m == k \div base
               s == Spelled(m, base)
    <3>1. m \in Nat /\ m < k
      BY <1>3, <2>3
    <3>2. Good(m)
      BY <1>8, <3>1
    <3>3. g[k] = g[m] \o LastDigit(k)
      BY <1>6, <2>3
    <3>4. m = k \div base /\ k >= base
      BY <2>3
    <3> HIDE DEF m
    <3>5. PICK j : HasLength(j, m, base)
      BY <3>2
    <3>6. HasLength(j + 1, k, base) /\ Spelled(k, base) = Append(s, c)
      BY <1>7, <3>4, <3>5, MoreDigits DEF c
    <3>7. s \in Seq(Characters) /\ g[m] = Singles(s)
      BY <3>2
    <3> HIDE DEF s
    <3>8. /\ Singles(Append(s, c)) = Singles(s) \o << <<c>> >>
          /\ Append(s, c) \in Seq(Characters) /\ Len(Append(s, c)) >= 1
      BY SMTT(20), <2>1, <3>7, SinglesAppended
    <3>9. QED BY <2>1, <3>3, <3>6, <3>7, <3>8
  <2>4. QED BY <2>2, <2>3
<1> HIDE DEF T
<1>9. Nat \subseteq T
  BY <1>8, StrongInduction
<1>10. n \in T
  BY <1>9
<1>11. QED BY <1>1, <1>10 DEF T

-----------------------------------------------------------------------------
(* What a conversion draws.                                                 *)

\* Pieces, joined.
LEMMA PiecesJoined ==
  ASSUME NEW a \in Seq(Seq(Characters)), NEW b \in Seq(Seq(Characters))
  PROVE  /\ a \o b \in Seq(Seq(Characters)) /\ Len(a \o b) = Len(a) + Len(b)
         /\ \A i \in 1 .. Len(a) : (a \o b)[i] = a[i]
         /\ \A i \in 1 .. Len(b) : (a \o b)[Len(a) + i] = b[i]
OBVIOUS

\* Single characters, joined.
LEMMA SinglesJoined ==
  ASSUME NEW s \in Seq(Characters), NEW t \in Seq(Characters)
  PROVE  Singles(s \o t) = Singles(s) \o Singles(t) /\ s \o t \in Seq(Characters)
<1> DEFINE n == Len(s)
           m == Len(t)
           S == Seq(Characters)
           a == Singles(s)
           b == Singles(t)
           st == s \o t
           ab == a \o b
<1>1. n \in Nat /\ m \in Nat
  OBVIOUS
<1>2. /\ st \in S /\ Len(st) = n + m /\ \A i \in 1 .. n : st[i] = s[i]
      /\ \A i \in 1 .. m : st[n + i] = t[i]
  BY Joined
<1>3. /\ a \in Seq(S) /\ Len(a) = n /\ \A i \in 1 .. n : a[i] = <<s[i]>>
      /\ b \in Seq(S) /\ Len(b) = m /\ \A i \in 1 .. m : b[i] = <<t[i]>>
  <2>1. \A i \in 1 .. n : <<s[i]>> \in S
    OBVIOUS
  <2>2. \A i \in 1 .. m : <<t[i]>> \in S
    OBVIOUS
  <2>3. a = [i \in 1 .. n |-> <<s[i]>>] /\ b = [i \in 1 .. m |-> <<t[i]>>]
    BY DEF Singles
  <2> HIDE DEF a, b, n, m, S
  <2>4. a \in Seq(S) /\ Len(a) = n /\ \A i \in 1 .. n : a[i] = <<s[i]>>
    BY <1>1, <2>1, <2>3
  <2>5. b \in Seq(S) /\ Len(b) = m /\ \A i \in 1 .. m : b[i] = <<t[i]>>
    BY <1>1, <2>2, <2>3
  <2>6. QED BY <2>4, <2>5
<1> HIDE DEF a, b, n, m, S, st
<1>4. /\ ab \in Seq(S) /\ Len(ab) = n + m /\ \A i \in 1 .. n : ab[i] = <<s[i]>>
      /\ \A i \in 1 .. m : ab[n + i] = <<t[i]>>
  <2>1. /\ ab \in Seq(S) /\ Len(ab) = Len(a) + Len(b) /\ \A i \in 1 .. Len(a) : ab[i] = a[i]
        /\ \A i \in 1 .. Len(b) : ab[Len(a) + i] = b[i]
    BY <1>3, PiecesJoined DEF S
  <2> HIDE DEF ab
  <2>2. QED BY <1>1, <1>3, <2>1
<1> DEFINE k == n + m
<1>5. k \in Nat /\ Len(ab) = k /\ Len(st) = k
  BY <1>1, <1>2, <1>4
<1>6. ASSUME NEW i \in 1 .. k PROVE ab[i] = <<st[i]>>
  <2> HIDE DEF ab
  <2>1. CASE i <= n
    <3>1. i \in 1 .. n
      BY <2>1
    <3>2. QED BY <1>2, <1>4, <3>1
  <2>2. CASE i > n
    <3> DEFINE j == i - n
    <3>1. j \in 1 .. m /\ i = n + j
      BY <1>1, <2>2
    <3> HIDE DEF j
    <3>2. QED BY <1>2, <1>4, <3>1
  <2>3. QED BY <1>1, <2>1, <2>2
<1> HIDE DEF k, ab
<1>7. ab = [i \in 1 .. k |-> ab[i]]
  BY <1>4, <1>5
<1>8. Singles(st) = [i \in 1 .. k |-> <<st[i]>>]
  BY <1>5 DEF Singles
<1>9. Singles(st) = ab
  BY <1>6, <1>7, <1>8
<1>10. QED BY <1>2, <1>9 DEF a, b, st, ab, S

\* How much further to the right than its column the i-th character of a text is set.
Apart(i, wide) == IF i <= wide THEN i - 1 ELSE 0

\* The pieces make up the text, the j-th of them from behind character o[j] on, and
\* within each the characters are set as far apart as DrawString draws them.
Spells(pieces, text, wide, o) ==
  /\ pieces \in Seq(Seq(Characters)) /\ text \in Seq(Characters)
  /\ o \in [1 .. Len(pieces) + 1 -> Nat] /\ o[1] = 0 /\ o[Len(pieces) + 1] = Len(text)
  /\ \A j \in 1 .. Len(pieces) :
       /\ o[j + 1] = o[j] + Len(pieces[j])
       /\ \A k \in 1 .. Len(pieces[j]) :
            text[o[j] + k] = pieces[j][k] /\ Apart(o[j] + k, wide) = k - 1

\* Numbers are drawn character by character.
LEMMA SinglesSpell ==
  ASSUME NEW text \in Seq(Characters)
  PROVE  Spells(Singles(text), text, 1, [j \in 1 .. Len(text) + 1 |-> j - 1])
<1> DEFINE n == Len(text)
           S == Seq(Characters)
           a == Singles(text)
           o == [j \in 1 .. n + 1 |-> j - 1]
<1>1. n \in Nat
  OBVIOUS
<1>2. a \in Seq(S) /\ Len(a) = n /\ \A i \in 1 .. n : a[i] = <<text[i]>>
  <2>1. \A i \in 1 .. n : <<text[i]>> \in S
    OBVIOUS
  <2>2. a = [i \in 1 .. n |-> <<text[i]>>]
    BY DEF Singles
  <2> HIDE DEF a, n, S
  <2>3. QED BY <1>1, <2>1, <2>2
<1> HIDE DEF a, n, S
<1>3. o \in [1 .. n + 1 -> Nat] /\ o[1] = 0 /\ o[n + 1] = n
  BY <1>1
<1>4. ASSUME NEW j \in 1 .. n
      PROVE  o[j + 1] = o[j] + 1 /\ o[j] + 1 = j
  BY <1>1
<1> HIDE DEF o
<1>5. ASSUME NEW j \in 1 .. n, NEW k \in 1 .. 1
      PROVE  text[o[j] + k] = <<text[j]>>[k] /\ Apart(o[j] + k, 1) = k - 1
  <2>1. k = 1 /\ o[j] + k = j
    BY <1>4
  <2>2. Apart(j, 1) = 0
    BY DEF Apart
  <2>3. QED BY <2>1, <2>2
<1>6. ASSUME NEW j \in 1 .. n
      PROVE  /\ o[j + 1] = o[j] + Len(a[j])
             /\ \A k \in 1 .. Len(a[j]) : text[o[j] + k] = a[j][k] /\ Apart(o[j] + k, 1) = k - 1
  <2>1. a[j] = <<text[j]>>
    BY <1>2
  <2>2. Len(<<text[j]>>) = 1
    OBVIOUS
  <2>3. QED BY <1>4, <1>5, <2>1, <2>2
<1>7. Spells(a, text, 1, o)
  BY <1>2, <1>3, <1>6 DEF Spells, S, n
<1>8. QED BY <1>7 DEF a, o, n

\* A string is drawn in one piece.
LEMMA StringSpells ==
  ASSUME NEW text \in Seq(Characters)
  PROVE  \E o : Spells(<<text>>, text, Len(text), o)
<1> DEFINE n == Len(text)
           o == [j \in 1 .. 2 |-> IF j = 1 THEN 0 ELSE n]
           p == <<text>>
<1>1. n \in Nat /\ p \in Seq(Seq(Characters)) /\ Len(p) = 1 /\ p[1] = text
  OBVIOUS
<1> HIDE DEF p, n
<1>2. o \in [1 .. 2 -> Nat] /\ o[1] = 0 /\ o[2] = n /\ Len(p) + 1 = 2
  BY <1>1
<1> HIDE DEF o
<1>3. ASSUME NEW j \in 1 .. 1
      PROVE  /\ o[j + 1] = o[j] + Len(p[j])
             /\ \A k \in 1 .. Len(p[j]) : text[o[j] + k] = p[j][k] /\ Apart(o[j] + k, n) = k - 1
  <2>1. j = 1 /\ p[j] = text /\ o[j] = 0 /\ o[j + 1] = n /\ Len(p[j]) = n
    <3>1. j = 1 /\ j + 1 = 2
      OBVIOUS
    <3>2. QED BY <1>1, <1>2, <3>1 DEF n
  <2>2. \A k \in 1 .. n : 0 + k = k /\ Apart(k, n) = k - 1
    BY <1>1 DEF Apart
  <2>3. QED BY <1>1, <2>1, <2>2
<1>4. Spells(p, text, n, o)
  BY <1>1, <1>2, <1>3 DEF Spells, n
<1>5. QED BY <1>4 DEF p, n

\* A hexadecimal number is drawn as its prefix and single digits.
LEMMA PrefixSpells ==
  ASSUME NEW c \in Characters, NEW d \in Characters, NEW digits \in Seq(Characters)
  PROVE  \E o : Spells(<< <<c, d>> >> \o Singles(digits), <<c, d>> \o digits, 2, o)
<1> DEFINE n == Len(digits)
           S == Seq(Characters)
           a == Singles(digits)
           head == << <<c, d>> >>
           p == head \o a
           text == <<c, d>> \o digits
           o == [j \in 1 .. n + 2 |-> IF j = 1 THEN 0 ELSE j]
<1>1. n \in Nat
  OBVIOUS
<1>2. a \in Seq(S) /\ Len(a) = n /\ \A i \in 1 .. n : a[i] = <<digits[i]>>
  <2>1. \A i \in 1 .. n : <<digits[i]>> \in S
    OBVIOUS
  <2>2. a = [i \in 1 .. n |-> <<digits[i]>>]
    BY DEF Singles
  <2> HIDE DEF a, n, S
  <2>3. QED BY <1>1, <2>1, <2>2
<1>3. head \in Seq(S) /\ Len(head) = 1 /\ head[1] = <<c, d>>
  OBVIOUS
<1>4. /\ text \in S /\ Len(text) = n + 2 /\ text[1] = c /\ text[2] = d
      /\ \A i \in 1 .. n : text[i + 2] = digits[i]
  <2>1. <<c, d>> \in Seq(Characters) /\ Len(<<c, d>>) = 2
    OBVIOUS
  <2>2. /\ text \in S /\ Len(text) = 2 + n /\ \A i \in 1 .. 2 : text[i] = <<c, d>>[i]
        /\ \A i \in 1 .. n : text[2 + i] = digits[i]
    BY <2>1, Joined
  <2> HIDE DEF text, S, n
  <2>3. \A i \in 1 .. n : 2 + i = i + 2
    OBVIOUS
  <2>4. QED BY <1>1, <2>2, <2>3
<1> HIDE DEF a, n, S, head, text
<1>5. /\ p \in Seq(S) /\ Len(p) = n + 1 /\ p[1] = <<c, d>>
      /\ \A i \in 1 .. n : p[i + 1] = <<digits[i]>>
  <2>1. /\ p \in Seq(S) /\ Len(p) = Len(head) + Len(a) /\ \A i \in 1 .. Len(head) : p[i] = head[i]
        /\ \A i \in 1 .. Len(a) : p[Len(head) + i] = a[i]
    BY <1>2, <1>3, PiecesJoined DEF S
  <2> HIDE DEF p
  <2>2. \A i \in 1 .. n : 1 + i = i + 1
    OBVIOUS
  <2>3. QED BY <1>1, <1>2, <1>3, <2>1, <2>2
<1> HIDE DEF p
<1>6. /\ o \in [1 .. n + 2 -> Nat] /\ o[1] = 0 /\ o[n + 2] = n + 2 /\ n + 1 + 1 = n + 2
      /\ \A j \in 2 .. n + 2 : o[j] = j
  BY <1>1
<1> HIDE DEF o
<1>7. ASSUME NEW j \in 1 .. n + 1
      PROVE  /\ o[j + 1] = o[j] + Len(p[j])
             /\ \A k \in 1 .. Len(p[j]) : text[o[j] + k] = p[j][k] /\ Apart(o[j] + k, 2) = k - 1
  <2>1. CASE j = 1
    <3>1. o[j] = 0 /\ o[j + 1] = 2 /\ p[j] = <<c, d>>
      BY <1>1, <1>5, <1>6, <2>1
    <3>2. \A k \in 1 .. 2 : (k = 1 \/ k = 2) /\ 0 + k = k /\ Apart(k, 2) = k - 1
      BY DEF Apart
    <3>3. <<c, d>>[1] = c /\ <<c, d>>[2] = d /\ Len(<<c, d>>) = 2
      OBVIOUS
    <3>4. QED BY <1>4, <3>1, <3>2, <3>3
  <2>2. CASE j # 1
    <3> DEFINE i == j - 1
    <3>1. i \in 1 .. n /\ j = i + 1
      BY <1>1, <2>2
    <3>2. o[j] = i + 1 /\ o[j + 1] = i + 2
      <4>1. j \in 2 .. n + 2 /\ j + 1 \in 2 .. n + 2
        BY <1>1, <2>2
      <4>2. o[j] = j /\ o[j + 1] = j + 1
        BY <1>6, <4>1
      <4>3. QED BY <3>1, <4>2
    <3> HIDE DEF i
    <3>3. p[j] = <<digits[i]>>
      BY <1>5, <3>1
    <3>4. p[j] = <<digits[i]>> /\ Len(p[j]) = 1
      <4>1. Len(<<digits[i]>>) = 1
        OBVIOUS
      <4>2. QED BY <3>3, <4>1
    <3>5. text[i + 2] = digits[i] /\ Apart(i + 2, 2) = 0
      <4>1. ~(i + 2 <= 2)
        BY <3>1
      <4>2. QED BY <1>4, <3>1, <4>1 DEF Apart
    <3>6. \A k \in 1 .. 1 : k = 1 /\ o[j] + k = i + 2
      BY <3>1, <3>2
    <3>7. \A k \in 1 .. 1 : text[o[j] + k] = p[j][k] /\ Apart(o[j] + k, 2) = k - 1
      BY <3>4, <3>5, <3>6
    <3>8. QED BY <3>1, <3>2, <3>4, <3>7
  <2>3. QED BY <2>1, <2>2
<1>8. Spells(p, text, 2, o)
  BY <1>4, <1>5, <1>6, <1>7 DEF Spells, S
<1>9. QED BY <1>8 DEF p, head, a, text

\* What is drawn of a conversion is its text.
LEMMA ConversionSpells ==
  ASSUME NEW it, Printable(it), it.is \in {"%s", "%d", "%x", "%f"}
  PROVE  \E o : Spells(Pieces(it), Text(it), Wide(it), o)
<1>1. CASE it.is = "%s"
  <2>1. it.s \in Seq(Characters)
    <3>1. it.s \in Seq(STRING)
      BY <1>1 DEF Printable
    <3>2. \A i \in 1 .. Len(it.s) : it.s[i] \in Characters
      BY <3>1 DEF Characters
    <3>3. QED BY <3>1, <3>2
  <2>2. Pieces(it) = <<it.s>> /\ Text(it) = it.s /\ Wide(it) = Len(it.s)
    BY <1>1 DEF Pieces, Text, Wide
  <2>3. QED BY <2>1, <2>2, StringSpells
<1>2. "-" \in Characters /\ "." \in Characters /\ "x" \in Characters /\ "0" \in Characters
  <2>1. Numeral[0] = "0"
    BY DEF Numeral
  <2>2. QED BY <2>1, NumeralIs DEF Characters
<1>3. \A n \in Nat : /\ printNumber(n, 10) = Singles(Spelled(n, 10))
                     /\ Spelled(n, 10) \in Seq(Characters)
  BY NumberIsSpelled
<1>4. ASSUME NEW c \in Characters PROVE <<c>> \in Seq(Characters) /\ Singles(<<c>>) = << <<c>> >>
  <2>1. Len(<<c>>) = 1 /\ \A i \in 1 .. 1 : <<c>>[i] = c
    OBVIOUS
  <2>2. Singles(<<c>>) = [i \in 1 .. 1 |-> <<c>>]
    BY <2>1 DEF Singles
  <2>3. QED BY <2>2
<1>5. CASE it.is = "%d"
  <2>1. it.n \in Int
    BY <1>5 DEF Printable
  <2>2. Wide(it) = 1
    BY <1>5 DEF Wide
  <2>3. Pieces(it) = Singles(Text(it)) /\ Text(it) \in Seq(Characters)
    <3>1. CASE it.n < 0
      <4> DEFINE s == Spelled(-it.n, 10)
      <4>1. printNumber(-it.n, 10) = Singles(s) /\ s \in Seq(Characters)
        <5>1. -it.n \in Nat
          BY <2>1, <3>1
        <5>2. QED BY <1>3, <5>1
      <4>2. Pieces(it) = << <<"-">> >> \o printNumber(-it.n, 10) /\ Text(it) = <<"-">> \o s
        BY <1>5, <3>1 DEF Pieces, Text
      <4> HIDE DEF s
      <4>3. Singles(<<"-">> \o s) = Singles(<<"-">>) \o Singles(s) /\ <<"-">> \o s \in Seq(Characters)
        BY <1>2, <1>4, <4>1, SinglesJoined
      <4>4. QED BY <1>2, <1>4, <4>1, <4>2, <4>3
    <3>2. CASE ~(it.n < 0)
      <4>1. it.n \in Nat
        BY <2>1, <3>2
      <4>2. Pieces(it) = printNumber(it.n, 10) /\ Text(it) = Spelled(it.n, 10)
        BY <1>5, <3>2 DEF Pieces, Text
      <4>3. QED BY <1>3, <4>1, <4>2
    <3>3. QED BY <3>1, <3>2
  <2>4. QED BY <2>2, <2>3, SinglesSpell
<1>6. CASE it.is = "%f"
  <2> DEFINE a == Spelled(it.n \div 100, 10)
             b == Spelled(it.n % 100, 10)
             dot == <<".">>
  <2>1. it.n \in Nat /\ it.n \div 100 \in Nat /\ it.n % 100 \in Nat
    BY <1>6 DEF Printable
  <2>2. /\ printNumber(it.n \div 100, 10) = Singles(a) /\ a \in Seq(Characters)
        /\ printNumber(it.n % 100, 10) = Singles(b) /\ b \in Seq(Characters)
    BY <1>3, <2>1
  <2>3. Wide(it) = 1
    BY <1>6 DEF Wide
  <2>4. /\ Pieces(it) = printNumber(it.n \div 100, 10) \o << dot >> \o printNumber(it.n % 100, 10)
        /\ Text(it) = a \o dot \o b
    BY <1>6 DEF Pieces, Text
  <2>5. dot \in Seq(Characters) /\ Singles(dot) = << dot >>
    BY <1>2, <1>4
  <2> HIDE DEF a, b, dot
  <2>6. Singles(a \o dot) = Singles(a) \o Singles(dot) /\ a \o dot \in Seq(Characters)
    BY <2>2, <2>5, SinglesJoined
  <2> DEFINE c == a \o dot
  <2>7. c \in Seq(Characters) /\ Singles(c) = Singles(a) \o Singles(dot)
    BY <2>6
  <2> HIDE DEF c
  <2>8. Singles(c \o b) = Singles(c) \o Singles(b) /\ c \o b \in Seq(Characters)
    BY <2>2, <2>7, SinglesJoined
  <2>9. Pieces(it) = Singles(Text(it)) /\ Text(it) \in Seq(Characters)
    BY <2>2, <2>4, <2>5, <2>7, <2>8 DEF c
  <2>10. QED BY <2>3, <2>9, SinglesSpell
<1>7. CASE it.is = "%x"
  <2> DEFINE s == Spelled(it.n, 16)
  <2>1. it.n \in Nat
    BY <1>7 DEF Printable
  <2>2. printNumber(it.n, 16) = Singles(s) /\ s \in Seq(Characters)
    <3>1. 16 \in 2 .. 16
      OBVIOUS
    <3>2. QED BY <2>1, <3>1, NumberIsSpelled
  <2>3. /\ Pieces(it) = << <<"0", "x">> >> \o printNumber(it.n, 16)
        /\ Text(it) = <<"0", "x">> \o s /\ Wide(it) = 2
    BY <1>7 DEF Pieces, Text, Wide
  <2> HIDE DEF s
  <2>4. QED BY <1>2, <2>2, <2>3, PrefixSpells
<1>8. QED BY <1>1, <1>5, <1>6, <1>7
=============================================================================
