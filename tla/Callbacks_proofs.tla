--------------------------- MODULE Callbacks_proofs ---------------------------
(* Theorems about Callbacks and the clock below it, for any counter,       *)
(* precision, word, queue and callbacks.                                   *)
EXTENDS Callbacks, SequenceTheorems, WellFoundedInduction, TLAPS

-----------------------------------------------------------------------------
(* Arithmetic of the milliseconds.                                         *)

LEMMA Division ==
  ASSUME NEW a \in Int, NEW b \in Int, b > 0
  PROVE  /\ a \div b \in Int
         /\ a % b \in Int
         /\ 0 <= a % b /\ a % b < b
         /\ a = b * (a \div b) + (a % b)
BY SMTT(20)

LEMMA Monotone ==
  ASSUME NEW a \in Int, NEW b \in Int, NEW c \in Nat, a <= b
  PROVE  c * a <= c * b
BY SMTT(20)

LEMMA Product ==
  ASSUME NEW a \in Nat, NEW b \in Nat
  PROVE  a * b \in Nat
BY SMTT(20)

(* The quotient and multiples of the divisor.                              *)
LEMMA Quotient ==
  ASSUME NEW a \in Nat, NEW b \in Nat \ {0}, NEW k \in Nat
  PROVE  /\ a \div b \in Nat
         /\ b * k <= a <=> k <= a \div b
<1> DEFINE q == a \div b
<1>1. q \in Int /\ a % b \in Int /\ 0 <= a % b /\ a % b < b /\ a = b * q + (a % b)
  BY Division
<1> HIDE DEF q
<1>2. b * q \in Int /\ b * (q + 1) = b * q + b /\ b * k \in Nat
  BY <1>1, Product
<1>3. k <= q => b * k <= a
  <2>1. k <= q => b * k <= b * q
    BY <1>1, Monotone
  <2>2. QED
    BY <1>1, <1>2, <2>1
<1>4. ~(k <= q) => ~(b * k <= a)
  <2>1. ~(k <= q) => q + 1 <= k
    BY <1>1
  <2>2. ~(k <= q) => b * (q + 1) <= b * k
    BY <1>1, <2>1, Monotone
  <2>3. QED
    BY <1>1, <1>2, <2>2
<1>5. q >= 0
  <2>1. ~(q >= 0) => q + 1 <= 0
    BY <1>1
  <2>2. ~(q >= 0) => b * (q + 1) <= b * 0
    BY <1>1, <2>1, Monotone
  <2>3. b * 0 = 0
    OBVIOUS
  <2>4. QED
    BY <1>1, <1>2, <2>2, <2>3
<1>6. QED
  BY <1>1, <1>3, <1>4, <1>5 DEF q

LEMMA QuotientGrows ==
  ASSUME NEW a \in Nat, NEW c \in Nat, NEW b \in Nat \ {0}, a <= c
  PROVE  a \div b <= c \div b
<1>1. a \div b \in Nat /\ c \div b \in Nat
  BY Quotient
<1>2. b * (a \div b) <= a
  BY <1>1, Quotient
<1>3. b * (a \div b) <= c
  BY <1>1, <1>2, Product
<1>4. QED
  BY <1>1, <1>3, Quotient

(* What is at most n has a greatest element.                               *)
LEMMA Greatest ==
  ASSUME NEW n \in Nat, NEW S, S \subseteq 0 .. n, S # {}
  PROVE  Max(S) \in S /\ \A k \in S : Max(S) >= k
<1> DEFINE T == {n - k : k \in S}
<1>0. \A k \in S : k \in Nat /\ n - k \in Nat
  OBVIOUS
<1>1. T \subseteq Nat /\ T # {}
  BY <1>0
<1>2. PICK x \in T : \A y \in T : ~(<<y, x>> \in OpToRel(<, Nat))
  <2> HIDE DEF T
  <2>1. QED
    BY <1>1, NatLessThanWellFounded, WFMin
<1>3. \A y \in T : ~(y < x)
  BY <1>1, <1>2 DEF OpToRel
<1>4. PICK m \in S : x = n - m
  OBVIOUS
<1>5. \A k \in S : m >= k
  <2>1. ASSUME NEW k \in S PROVE ~(n - k < n - m)
    BY <1>3, <1>4
  <2>2. QED
    BY <1>0, <2>1
<1>6. \E a \in S : \A k \in S : a >= k
  BY <1>5
<1>7. QED
  BY <1>6, Zenon DEF Max

-----------------------------------------------------------------------------
(* Rounding.                                                               *)

LEMMA Rounding ==
  ASSUME NEW num \in Nat, NEW den \in Nat \ {0}
  PROVE  /\ RoundedToEven(num, den) \in {num \div den, num \div den + 1}
         /\ num \div den \in Nat
         /\ 2 * (den * RoundedToEven(num, den)) <= 2 * num + den
<1> DEFINE w == num \div den
<1> DEFINE t == num % den
<1> DEFINE r == RoundedToEven(num, den)
<1>1. w \in Nat /\ t \in Int /\ 0 <= t /\ t < den /\ num = den * w + t
  BY Division, Quotient
<1>2. r = IF 2 * t > den \/ (2 * t = den /\ w % 2 = 1) THEN w + 1 ELSE w
  BY DEF RoundedToEven
<1> HIDE DEF w, t, r
<1>3. den * w \in Nat /\ den * (w + 1) = den * w + den
  BY <1>1, Product
<1>4. r = w \/ (r = w + 1 /\ 2 * t >= den)
  BY <1>1, <1>2
<1>5. 2 * (den * r) <= 2 * num + den
  BY <1>1, <1>3, <1>4
<1>6. QED
  BY <1>1, <1>4, <1>5 DEF w, r

LEMMA RoundingGrows ==
  ASSUME NEW a \in Nat, NEW b \in Nat, NEW den \in Nat \ {0}, a <= b
  PROVE  RoundedToEven(a, den) <= RoundedToEven(b, den)
<1>1. a \div den \in Nat /\ b \div den \in Nat /\ a \div den <= b \div den
  BY Quotient, QuotientGrows
<1>2. CASE a \div den < b \div den
  <2>1. RoundedToEven(a, den) \in {a \div den, a \div den + 1} /\ RoundedToEven(b, den) \in {b \div den, b \div den + 1}
    BY Rounding
  <2>2. QED
    BY <1>1, <1>2, <2>1
<1>3. CASE a \div den = b \div den
  <2> DEFINE w == a \div den
  <2>1. /\ a % den \in Int /\ b % den \in Int
        /\ a = den * w + (a % den) /\ b = den * w + (b % den)
    BY <1>3, Division
  <2>2. den * w \in Nat
    BY <1>1, Product
  <2>3. a % den <= b % den
    <3> HIDE DEF w
    <3>1. QED
      BY <2>1, <2>2
  <2>4. /\ RoundedToEven(a, den) = IF 2 * (a % den) > den \/ (2 * (a % den) = den /\ w % 2 = 1) THEN w + 1 ELSE w
        /\ RoundedToEven(b, den) = IF 2 * (b % den) > den \/ (2 * (b % den) = den /\ w % 2 = 1) THEN w + 1 ELSE w
    BY <1>3 DEF RoundedToEven
  <2>5. w \in Nat
    BY <1>1
  <2> HIDE DEF w
  <2>6. QED
    BY <2>1, <2>3, <2>4, <2>5
<1>4. QED
  BY <1>1, <1>2, <1>3

-----------------------------------------------------------------------------
(* The milliseconds shown.                                                 *)

Counts == 0 .. CounterMod - 1
Whole(c) == (c * TickNum) \div TickDen

LEMMA Units ==
  /\ CounterMod \in Nat \ {0} /\ FloatLimit \in Nat \ {0} /\ TickNum \in Nat \ {0}
  /\ TickDen \in Nat \ {0} /\ SecondMs \in Nat \ {0} /\ WordMod \in Nat \ {0}
BY TimeAssumption

LEMMA WholeMs ==
  ASSUME NEW c \in Counts
  PROVE  /\ c \in Nat /\ c * TickNum \in Nat /\ Whole(c) \in Nat
         /\ TickDen * Whole(c) \in Nat
         /\ TickDen * Whole(c) <= c * TickNum
         /\ c * TickNum < TickDen * Whole(c) + TickDen
         /\ Whole(c) < FloatLimit /\ Whole(c) + 1 < WordMod
<1>1. c \in Nat /\ c <= CounterMod - 1
  BY Units DEF Counts
<1>2. c * TickNum \in Nat
  BY <1>1, Units, Product
<1>3. Whole(c) \in Nat /\ TickDen * Whole(c) \in Nat /\ TickDen * Whole(c) <= c * TickNum
  <2>1. Whole(c) \in Nat
    BY <1>2, Units, Quotient DEF Whole
  <2>2. QED
    BY <2>1, <1>2, Units, Quotient, Product DEF Whole
<1>4. c * TickNum < TickDen * Whole(c) + TickDen
  BY <1>2, Units, Division DEF Whole
<1>5. c * TickNum <= CounterMod * TickNum - TickNum
  <2>1. TickNum * c <= TickNum * (CounterMod - 1)
    BY <1>1, Units, Monotone
  <2>2. TickNum * c = c * TickNum /\ TickNum * (CounterMod - 1) = CounterMod * TickNum - TickNum
    BY <1>1, Units
  <2>3. QED
    BY <2>1, <2>2
<1>6. CounterMod * TickNum \in Nat /\ TickDen * FloatLimit \in Nat /\ TickDen * WordMod \in Nat
  BY Units, Product
<1>7. CounterMod * TickNum + TickDen <= TickDen * WordMod /\ CounterMod * TickNum <= TickDen * FloatLimit
  BY Units, TimeAssumption
<1>8. Whole(c) < FloatLimit
  <2>1. ~(TickDen * FloatLimit <= c * TickNum)
    BY <1>2, <1>5, <1>6, <1>7, Units
  <2>2. QED
    BY <2>1, <1>2, <1>3, Units, Quotient DEF Whole
<1>9. Whole(c) + 1 < WordMod
  <2>1. ASSUME WordMod <= Whole(c) + 1 PROVE FALSE
    <3>1. TickDen * WordMod <= TickDen * (Whole(c) + 1)
      BY <2>1, <1>3, Units, Monotone
    <3>2. TickDen * (Whole(c) + 1) = TickDen * Whole(c) + TickDen
      BY <1>3, Units
    <3>3. QED
      BY <3>1, <3>2, <1>2, <1>3, <1>5, <1>6, <1>7, Units
  <2>2. QED
    BY <2>1, <1>3, Units
<1>10. QED
  BY <1>1, <1>2, <1>3, <1>4, <1>8, <1>9

LEMMA StepsOfFloat ==
  ASSUME NEW ms \in Nat, ms < FloatLimit
  PROVE  FloatSteps(ms) \in Nat \ {0}
<1> DEFINE S == {k \in 1 .. FloatLimit : FloatLimit % k = 0 /\ ms * k < FloatLimit}
<1>1. S \subseteq 0 .. FloatLimit /\ \A k \in S : k \in Nat \ {0}
  BY Units
<1>2. 1 \in S
  <2>1. FloatLimit % 1 = 0
    BY Units, Division
  <2>2. QED
    BY <2>1, Units
<1> HIDE DEF S
<1>3. Max(S) \in S
  BY <1>1, <1>2, Units, Greatest
<1>4. Max(S) \in Nat \ {0}
  BY <1>1, <1>3
<1>5. QED
  BY <1>4 DEF S, FloatSteps

(* The rounded product, in the fractions that the float has.               *)
Rounded(c) == RoundedToEven(c * TickNum * FloatSteps(Whole(c)), TickDen)

LEMMA RoundedMs ==
  ASSUME NEW c \in Counts
  PROVE  /\ FloatSteps(Whole(c)) \in Nat \ {0}
         /\ c * TickNum * FloatSteps(Whole(c)) \in Nat
         /\ Rounded(c) \in Nat
         /\ FloatSteps(Whole(c)) * Whole(c) <= Rounded(c)
         /\ Rounded(c) <= FloatSteps(Whole(c)) * (Whole(c) + 1)
         /\ 2 * (TickDen * Rounded(c)) <= 2 * (c * TickNum * FloatSteps(Whole(c))) + TickDen
         /\ MsAt(c) = Rounded(c) \div FloatSteps(Whole(c))
<1> DEFINE s == FloatSteps(Whole(c))
<1> DEFINE w == Whole(c)
<1> DEFINE x == c * TickNum
<1>1. s \in Nat \ {0}
  BY WholeMs, StepsOfFloat
<1>2. /\ x \in Nat /\ w \in Nat /\ TickDen * w \in Nat
      /\ TickDen * w <= x /\ x < TickDen * w + TickDen
  BY WholeMs
<1>3. MsAt(c) = Rounded(c) \div s
  BY DEF MsAt, Milliseconds, Counts, Whole, Rounded
<1>4. Rounded(c) = RoundedToEven(x * s, TickDen)
  BY DEF Rounded
<1> HIDE DEF s, w, x
<1>5. x * s \in Nat /\ w * s \in Nat /\ (w + 1) * s \in Nat
  BY <1>1, <1>2, Product
<1>6. /\ (x * s) \div TickDen \in Nat
      /\ Rounded(c) \in {(x * s) \div TickDen, (x * s) \div TickDen + 1}
      /\ 2 * (TickDen * Rounded(c)) <= 2 * (x * s) + TickDen
  BY <1>4, <1>5, Units, Rounding
<1>7. w * s <= (x * s) \div TickDen
  <2>1. s * (TickDen * w) <= s * x
    BY <1>1, <1>2, Monotone
  <2>2. s * (TickDen * w) = TickDen * (w * s) /\ s * x = x * s
    BY <1>1, <1>2, Units
  <2>3. QED
    BY <2>1, <2>2, <1>5, Units, Quotient
<1>8. (x * s) \div TickDen + 1 <= (w + 1) * s
  <2>1. s * (x + 1) <= s * (TickDen * w + TickDen)
    BY <1>1, <1>2, Units, Monotone
  <2>2. s * (TickDen * w + TickDen) = TickDen * ((w + 1) * s) /\ s * (x + 1) = x * s + s
    BY <1>1, <1>2, Units
  <2>3. TickDen * ((w + 1) * s) \in Nat
    BY <1>5, Units, Product
  <2>4. ~(TickDen * ((w + 1) * s) <= x * s)
    BY <2>1, <2>2, <2>3, <1>1, <1>5
  <2>5. QED
    BY <2>4, <1>5, <1>6, Units, Quotient
<1>9. s * w <= Rounded(c) /\ Rounded(c) <= s * (w + 1) /\ Rounded(c) \in Nat
  <2>1. s * w = w * s /\ s * (w + 1) = (w + 1) * s
    BY <1>1, <1>2
  <2>2. QED
    BY <2>1, <1>5, <1>6, <1>7, <1>8
<1>10. QED
  BY <1>1, <1>3, <1>5, <1>6, <1>9 DEF s, w, x

(* The milliseconds are those that have passed, cut, or one more; they are *)
(* at most half a one too many, and fit in a word.                         *)
LEMMA Shown ==
  ASSUME NEW c \in Counts
  PROVE  /\ MsAt(c) \in Nat
         /\ Whole(c) <= MsAt(c) /\ MsAt(c) <= Whole(c) + 1
         /\ MsAt(c) < WordMod
         /\ TickDen * MsAt(c) \in Nat
         /\ c * TickNum < TickDen * MsAt(c) + TickDen
         /\ 2 * (TickDen * MsAt(c)) <= 2 * (c * TickNum) + TickDen
<1> DEFINE s == FloatSteps(Whole(c))
<1> DEFINE w == Whole(c)
<1> DEFINE x == c * TickNum
<1> DEFINE m == MsAt(c)
<1> DEFINE r == Rounded(c)
<1>1. /\ s \in Nat \ {0} /\ x * s \in Nat /\ r \in Nat /\ m = r \div s
      /\ s * w <= r /\ r <= s * (w + 1)
      /\ 2 * (TickDen * r) <= 2 * (x * s) + TickDen
  BY RoundedMs
<1>2. /\ x \in Nat /\ w \in Nat /\ TickDen * w \in Nat /\ w + 1 < WordMod
      /\ TickDen * w <= x /\ x < TickDen * w + TickDen
  BY WholeMs
<1> HIDE DEF s, w, x, m, r
<1>3. m \in Nat /\ w <= m /\ s * m <= r
  BY <1>1, <1>2, Quotient
<1>4. m <= w + 1
  <2>1. ASSUME w + 2 <= m PROVE FALSE
    <3>1. s * (w + 2) <= s * m
      BY <2>1, <1>1, <1>2, <1>3, Monotone
    <3>2. s * (w + 2) = s * (w + 1) + s
      BY <1>1, <1>2
    <3>3. s * (w + 1) \in Nat /\ s * m \in Nat
      BY <1>1, <1>2, <1>3, Product
    <3>4. QED
      BY <3>1, <3>2, <3>3, <1>1, <1>3
  <2>2. QED
    BY <2>1, <1>2, <1>3
<1>5. TickDen * m \in Nat /\ x < TickDen * m + TickDen
  <2>1. TickDen * w <= TickDen * m
    BY <1>2, <1>3, Units, Monotone
  <2>2. TickDen * m \in Nat
    BY <1>3, Units, Product
  <2>3. QED
    BY <2>1, <2>2, <1>2, Units
<1>6. 2 * (TickDen * m) <= 2 * x + TickDen
  <2>1. ASSUME 2 * x + TickDen + 1 <= 2 * (TickDen * m) PROVE FALSE
    <3>1. s * (2 * x + TickDen + 1) <= s * (2 * (TickDen * m))
      BY <2>1, <1>1, <1>2, <1>5, Units, Monotone
    <3>2. /\ s * (2 * (TickDen * m)) = 2 * (TickDen * (s * m))
          /\ s * (2 * x + TickDen + 1) = 2 * (x * s) + s * TickDen + s
      BY <1>1, <1>2, <1>3, Units
    <3>3. TickDen * (s * m) <= TickDen * r
      <4>1. s * m \in Nat
        BY <1>1, <1>3, Product
      <4>2. QED
        BY <4>1, <1>1, <1>3, Units, Monotone
    <3>4. TickDen <= s * TickDen
      <4>1. TickDen * 1 <= TickDen * s
        BY <1>1, Units, Monotone
      <4>2. QED
        BY <4>1, <1>1, Units
    <3>5. s * m \in Nat /\ s * TickDen \in Nat /\ TickDen * r \in Nat
      BY <1>1, <1>3, Units, Product
    <3>6. TickDen * (s * m) \in Nat
      BY <3>5, Units, Product
    <3>7. QED
      BY <3>1, <3>2, <3>3, <3>4, <3>5, <3>6, <1>1, Units
  <2>2. QED
    BY <2>1, <1>2, <1>5, Units
<1>7. m < WordMod
  BY <1>2, <1>3, <1>4, Units
<1>8. QED
  BY <1>3, <1>4, <1>5, <1>6, <1>7 DEF m, w, x

LEMMA ShownGrows ==
  ASSUME NEW c \in Counts, NEW d \in Counts, c <= d
  PROVE  MsAt(c) <= MsAt(d)
<1>1. c * TickNum <= d * TickNum
  <2>1. TickNum * c <= TickNum * d
    BY Units, Monotone DEF Counts
  <2>2. TickNum * c = c * TickNum /\ TickNum * d = d * TickNum
    BY Units DEF Counts
  <2>3. QED
    BY <2>1, <2>2
<1>2. Whole(c) <= Whole(d)
  BY <1>1, WholeMs, Units, QuotientGrows DEF Whole
<1>3. CASE Whole(c) < Whole(d)
  BY <1>3, WholeMs, Shown
<1>4. CASE Whole(c) = Whole(d)
  <2> DEFINE s == FloatSteps(Whole(c))
  <2>1. s = FloatSteps(Whole(d)) /\ s \in Nat \ {0}
    BY <1>4, RoundedMs
  <2>2. c * TickNum * s <= d * TickNum * s
    <3> DEFINE x == c * TickNum
    <3> DEFINE y == d * TickNum
    <3>1. x \in Nat /\ y \in Nat /\ x <= y
      BY <1>1, WholeMs
    <3> HIDE DEF x, y, s
    <3>2. s * x <= s * y
      BY <2>1, <3>1, Monotone
    <3>3. s * x = x * s /\ s * y = y * s
      BY <2>1, <3>1
    <3>4. QED
      BY <3>2, <3>3 DEF x, y
  <2>3. c * TickNum * s \in Nat /\ d * TickNum * s \in Nat
    BY <2>1, RoundedMs
  <2>4. Rounded(c) <= Rounded(d)
    BY <2>1, <2>2, <2>3, Units, RoundingGrows DEF Rounded
  <2>5. MsAt(c) = Rounded(c) \div s /\ MsAt(d) = Rounded(d) \div s /\ Rounded(c) \in Nat /\ Rounded(d) \in Nat
    BY <2>1, RoundedMs
  <2>6. QED
    BY <2>1, <2>4, <2>5, QuotientGrows
<1>5. QED
  BY <1>2, <1>3, <1>4, WholeMs

-----------------------------------------------------------------------------
(* The wall clock.                                                         *)

(* time_at_boot_s is what the clock was set to less the seconds shown then,*)
(* and the counter has gone on from there unless it wrapped.               *)
Seconds(c) == MsAt(c) \div SecondMs
TimeInv ==
  /\ TimeTypeOK
  /\ Seconds(set.at) <= set.to
  /\ timeAtBoot = set.to - Seconds(set.at)
  /\ ~set.wrapped => set.at <= counter

LEMMA SecondsShown ==
  ASSUME NEW c \in Counts
  PROVE  /\ Seconds(c) \in Nat
         /\ TickDen * (SecondMs * Seconds(c)) \in Nat
         /\ 2 * (TickDen * (SecondMs * Seconds(c))) <= 2 * (c * TickNum) + TickDen
         /\ c * TickNum < TickDen * (SecondMs * Seconds(c)) + SecondMs * TickDen
<1> DEFINE m == MsAt(c)
<1> DEFINE u == Seconds(c)
<1> DEFINE x == c * TickNum
<1>1. /\ m \in Nat /\ TickDen * m \in Nat /\ x \in Nat
      /\ x < TickDen * m + TickDen
      /\ 2 * (TickDen * m) <= 2 * x + TickDen
  BY Shown, WholeMs
<1>2. u = m \div SecondMs
  BY DEF Seconds
<1> HIDE DEF m, u, x
<1>3. u \in Nat /\ SecondMs * u <= m /\ m < SecondMs * u + SecondMs
  <2>1. u \in Nat /\ SecondMs * u <= m
    BY <1>1, <1>2, Units, Quotient
  <2>2. m < SecondMs * u + SecondMs
    BY <1>1, <1>2, Units, Division
  <2>3. QED
    BY <2>1, <2>2
<1>4. SecondMs * u \in Nat /\ SecondMs * TickDen \in Nat
  BY <1>3, Units, Product
<1>5. TickDen * (SecondMs * u) \in Nat /\ TickDen * (SecondMs * u) <= TickDen * m
  BY <1>1, <1>3, <1>4, Units, Product, Monotone
<1>6. TickDen * m + TickDen <= TickDen * (SecondMs * u) + SecondMs * TickDen
  <2>1. TickDen * (m + 1) <= TickDen * (SecondMs * u + SecondMs)
    BY <1>1, <1>3, <1>4, Units, Monotone
  <2>2. TickDen * (m + 1) = TickDen * m + TickDen
    BY <1>1, Units
  <2>3. TickDen * (SecondMs * u + SecondMs) = TickDen * (SecondMs * u) + SecondMs * TickDen
    BY <1>4, Units
  <2>4. QED
    BY <2>1, <2>2, <2>3
<1>7. QED
  BY <1>1, <1>3, <1>4, <1>5, <1>6, Units DEF u, x

LEMMA ClockFollows == TimeInv => ClockKeepsTime
<1> SUFFICES ASSUME TimeInv, ~set.wrapped
             PROVE  LET shown == GetTime * SecondMs * TickDen
                        real == set.to * SecondMs * TickDen + (counter - set.at) * TickNum
                        slack == (SecondMs + 1) * TickDen
                    IN  shown - real < slack /\ real - shown < slack
  BY DEF ClockKeepsTime
<1> DEFINE u == Seconds(counter)
<1> DEFINE v == Seconds(set.at)
<1> DEFINE P == TickDen * (SecondMs * u)
<1> DEFINE Q == TickDen * (SecondMs * v)
<1> DEFINE A == counter * TickNum
<1> DEFINE B == set.at * TickNum
<1> DEFINE K == SecondMs * TickDen
<1>1. counter \in Counts /\ set.at \in Counts /\ set.to \in Nat
  BY DEF TimeInv, TimeTypeOK, Counts
<1>2. /\ u \in Nat /\ P \in Nat /\ A \in Nat /\ 2 * P <= 2 * A + TickDen /\ A < P + K
      /\ v \in Nat /\ Q \in Nat /\ B \in Nat /\ 2 * Q <= 2 * B + TickDen /\ B < Q + K
  BY <1>1, SecondsShown, WholeMs
<1>3. GetTime = set.to - v + u
  BY DEF GetTime, Uptime, TicksMs, TimeInv, Seconds
<1>4. counter \in Nat /\ set.at \in Nat
  BY <1>1, WholeMs
<1> HIDE DEF u, v
<1>5. GetTime * SecondMs * TickDen = set.to * SecondMs * TickDen + P - Q
  BY <1>1, <1>2, <1>3, Units
<1>6. (counter - set.at) * TickNum = A - B
  BY <1>4, Units
<1>7. (SecondMs + 1) * TickDen = K + TickDen /\ K \in Nat
  BY Units, Product
<1>8. set.to * SecondMs * TickDen \in Nat
  BY <1>1, Units, Product
<1> HIDE DEF P, Q, A, B, K
<1>9. QED
  BY <1>2, <1>5, <1>6, <1>7, <1>8, Units

LEMMA NothingShownAtZero == 0 \in Counts /\ MsAt(0) = 0 /\ Seconds(0) = 0
<1>1. 0 \in Counts
  BY Units DEF Counts
<1>2. 0 * TickNum = 0
  BY Units
<1>3. MsAt(0) \in Nat /\ 2 * (TickDen * MsAt(0)) <= TickDen
  BY <1>1, <1>2, Shown, Units
<1>4. MsAt(0) = 0
  <2> DEFINE m == MsAt(0)
  <2> HIDE DEF m
  <2>1. ASSUME 1 <= m PROVE FALSE
    <3>1. TickDen * 1 <= TickDen * m
      BY <1>3, <2>1, Units, Monotone DEF m
    <3>2. TickDen * m \in Nat
      BY <1>3, Units, Product DEF m
    <3>3. QED
      BY <3>1, <3>2, <1>3, Units DEF m
  <2>2. QED
    BY <2>1, <1>3 DEF m
<1>5. 0 \div SecondMs = 0
  <2>1. 0 \div SecondMs \in Nat /\ SecondMs * (0 \div SecondMs) <= 0
    BY Units, Quotient
  <2>2. ASSUME 1 <= 0 \div SecondMs PROVE FALSE
    <3>1. ~(SecondMs * 1 <= 0)
      BY Units
    <3>2. QED
      BY <3>1, <2>2, Units, Quotient
  <2>3. QED
    BY <2>1, <2>2
<1>6. QED
  BY <1>1, <1>4, <1>5 DEF Seconds

LEMMA TimeStart == TimeInit => TimeInv
BY NothingShownAtZero DEF TimeInit, TimeInv, TimeTypeOK, Counts

LEMMA NextCount ==
  ASSUME NEW c \in Counts
  PROVE  /\ (c + 1) % CounterMod \in Counts
         /\ c # CounterMod - 1 => (c + 1) % CounterMod = c + 1
<1>1. c \in Nat /\ c <= CounterMod - 1
  BY Units DEF Counts
<1>2. (c + 1) % CounterMod \in Int /\ 0 <= (c + 1) % CounterMod /\ (c + 1) % CounterMod < CounterMod
  BY <1>1, Units, Division
<1>3. ASSUME c # CounterMod - 1
      PROVE  (c + 1) % CounterMod = c + 1
  BY <1>1, <1>3, Units, SMTT(20)
<1>4. QED
  BY <1>2, <1>3, Units DEF Counts

LEMMA TimePasses ==
  ASSUME TimeInv, TickTime
  PROVE  TimeInv' /\ set'.at = set.at /\ (~Wraps => counter' = counter + 1)
<1>1. counter \in Counts /\ set.at \in Counts /\ set \in [to: Nat, at: Counts, wrapped: BOOLEAN] /\ timeAtBoot \in Nat
  BY DEF TimeInv, TimeTypeOK, Counts
<1>2. counter' \in Counts /\ (~Wraps => counter' = counter + 1)
  BY <1>1, NextCount DEF TickTime, Wraps
<1>3. /\ set' \in [to: Nat, at: Counts, wrapped: BOOLEAN]
      /\ set'.at = set.at /\ set'.to = set.to /\ set'.wrapped = (set.wrapped \/ Wraps)
  BY <1>1 DEF TickTime, Wraps
<1>4. timeAtBoot' = timeAtBoot
  BY DEF TickTime
<1>5. TimeTypeOK'
  BY <1>1, <1>2, <1>3, <1>4 DEF TimeTypeOK, Counts
<1>6. ~set'.wrapped => set'.at <= counter'
  BY <1>1, <1>2, <1>3, WholeMs DEF TimeInv
<1>7. Seconds(set.at)' = Seconds(set.at)
  BY <1>3 DEF Seconds, MsAt
<1>8. QED
  BY <1>2, <1>3, <1>4, <1>5, <1>6, <1>7 DEF TimeInv

LEMMA ClockIsSet ==
  ASSUME TimeInv, NEW now \in SetTimes, SetTime(now)
  PROVE  TimeInv' /\ counter' = counter
<1>1. now \in Nat /\ counter \in Counts
  BY TimeAssumption DEF TimeInv, TimeTypeOK, Counts
<1>2. /\ Seconds(counter) <= now /\ timeAtBoot' = now - Seconds(counter) /\ counter' = counter
      /\ set' = [to |-> now, at |-> counter, wrapped |-> FALSE]
  BY DEF SetTime, Uptime, TicksMs, Seconds
<1>3. Seconds(counter) \in Nat
  BY <1>1, SecondsShown
<1>4. Seconds(set.at)' = Seconds(counter)
  BY <1>2 DEF Seconds, MsAt
<1>5. TimeTypeOK'
  BY <1>1, <1>2, <1>3 DEF TimeTypeOK, Counts
<1>6. counter <= counter
  BY <1>1, WholeMs
<1>7. QED
  BY <1>2, <1>4, <1>5, <1>6 DEF TimeInv

LEMMA TimeStays ==
  ASSUME TimeInv, UNCHANGED time
  PROVE  TimeInv' /\ counter' = counter
BY DEF time, TimeInv, TimeTypeOK, Seconds, MsAt

-----------------------------------------------------------------------------
(* The stack of frames.                                                    *)

Frames == CallbackFrames \cup DelayFrames

(* A delay whose hook ran no callback was short of its time at its last    *)
(* test, and no more than a tick has passed since; once the hook has run a *)
(* callback it may be longer.  What lies below another frame is late.      *)
Short(d, c) == d.from <= c /\ MsAt(c) - MsAt(d.from) < d.ms
Timely(d, c) ==
  ~d.wrapped =>
    /\ d.from <= c
    /\ ~d.late => \/ Short(d, c)
                  \/ d.stage = "test" /\ (c = d.from \/ Short(d, c - 1))
Sound(f, c) ==
  /\ f \in Seq(Frames)
  /\ \A j, k \in DOMAIN f : f[j].kind # "delay" /\ f[k].kind # "delay" => j = k
  /\ \A k \in DOMAIN f : f[k].kind = "delay" => Timely(f[k], c) /\ (k < Len(f) => f[k].late)

LEMMA FrameKinds ==
  ASSUME NEW x \in Frames
  PROVE  /\ x.kind \in {"callback", "wild", "delay"}
         /\ x.kind = "delay" <=> x \in DelayFrames
BY DEF Frames, CallbackFrames, DelayFrames

LEMMA DelayFields ==
  ASSUME NEW x \in DelayFrames, NEW s \in {"test", "hook", "wait"}
  PROVE  /\ x.kind = "delay" /\ x.ms \in Delays /\ x.from \in Counts /\ x.late \in BOOLEAN /\ x.wrapped \in BOOLEAN
         /\ [x EXCEPT !.stage = s] \in DelayFrames
         /\ [x EXCEPT !.stage = s].kind = "delay"
         /\ [x EXCEPT !.stage = s].stage = s
         /\ [x EXCEPT !.stage = s].ms = x.ms
         /\ [x EXCEPT !.stage = s].from = x.from
         /\ [x EXCEPT !.stage = s].late = x.late
         /\ [x EXCEPT !.stage = s].wrapped = x.wrapped
BY DEF DelayFrames, Counts

LEMMA SoundBelow ==
  ASSUME NEW c, NEW f, Sound(f, c), f # <<>>
  PROVE  /\ Sound(SubSeq(f, 1, Len(f) - 1), c)
         /\ Len(SubSeq(f, 1, Len(f) - 1)) = Len(f) - 1
         /\ \A k \in 1 .. Len(f) - 1 : SubSeq(f, 1, Len(f) - 1)[k] = f[k]
         /\ \A k \in 1 .. Len(f) - 1 : f[k].kind = "delay" => f[k].late
<1> DEFINE b == SubSeq(f, 1, Len(f) - 1)
<1>1. f \in Seq(Frames) /\ Len(f) \in Nat \ {0} /\ DOMAIN f = 1 .. Len(f)
  BY EmptySeq, LenProperties DEF Sound
<1>2. \A k \in 1 .. Len(f) - 1 : f[k] \in Frames
  BY <1>1, ElementOfSeq
<1>3. b \in Seq(Frames) /\ Len(b) = Len(f) - 1 /\ \A k \in 1 .. Len(f) - 1 : b[k] = f[k]
  BY <1>1, <1>2, SubSeqProperties
<1>4. DOMAIN b = 1 .. Len(f) - 1
  BY <1>3, LenProperties
<1> HIDE DEF b
<1>5. \A k \in 1 .. Len(f) - 1 : k \in DOMAIN f /\ k < Len(f)
  BY <1>1
<1>6. \A k \in 1 .. Len(f) - 1 : f[k].kind = "delay" => Timely(f[k], c) /\ f[k].late
  BY <1>5 DEF Sound
<1>7. \A j, k \in DOMAIN b : b[j].kind # "delay" /\ b[k].kind # "delay" => j = k
  BY <1>3, <1>4, <1>5 DEF Sound
<1>8. Sound(b, c)
  BY <1>3, <1>4, <1>6, <1>7 DEF Sound
<1>9. QED
  BY <1>3, <1>6, <1>8 DEF b

LEMMA SoundPushed ==
  ASSUME NEW c, NEW f, Sound(f, c), NEW x \in Frames,
         x.kind = "delay" => Timely(x, c),
         \A k \in DOMAIN f : f[k].kind = "delay" => f[k].late,
         x.kind # "delay" => \A k \in DOMAIN f : f[k].kind = "delay"
  PROVE  Sound(Append(f, x), c)
<1> DEFINE g == Append(f, x)
<1>1. f \in Seq(Frames) /\ Len(f) \in Nat /\ DOMAIN f = 1 .. Len(f)
  BY LenProperties DEF Sound
<1>2. /\ g \in Seq(Frames) /\ Len(g) = Len(f) + 1
      /\ \A i \in 1 .. Len(f) : g[i] = f[i]
      /\ g[Len(f) + 1] = x
  BY <1>1, AppendProperties
<1>3. DOMAIN g = 1 .. Len(f) + 1
  BY <1>2, LenProperties
<1> HIDE DEF g
<1>4. \A k \in DOMAIN g : k = Len(f) + 1 \/ k \in DOMAIN f
  BY <1>1, <1>3
<1>5. \A j, k \in DOMAIN g : g[j].kind # "delay" /\ g[k].kind # "delay" => j = k
  BY <1>1, <1>2, <1>4 DEF Sound
<1>6. \A k \in DOMAIN g : g[k].kind = "delay" => Timely(g[k], c) /\ (k < Len(g) => g[k].late)
  BY <1>1, <1>2, <1>4 DEF Sound
<1>7. QED
  BY <1>2, <1>5, <1>6 DEF Sound, g

LEMMA SoundEmpty == \A c : Sound(<<>>, c)
BY EmptySeq DEF Sound

(* The last frame as it was, at another stage.                             *)
LEMMA SoundStage ==
  ASSUME NEW c, NEW f, Sound(f, c), f # <<>>, f[Len(f)].kind = "delay",
         NEW s \in {"test", "hook", "wait"},
         Timely([f[Len(f)] EXCEPT !.stage = s], c)
  PROVE  Sound(Append(SubSeq(f, 1, Len(f) - 1), [f[Len(f)] EXCEPT !.stage = s]), c)
<1> DEFINE b == SubSeq(f, 1, Len(f) - 1)
<1> DEFINE x == [f[Len(f)] EXCEPT !.stage = s]
<1>1. f \in Seq(Frames) /\ Len(f) \in Nat \ {0}
  BY EmptySeq DEF Sound
<1>2. f[Len(f)] \in DelayFrames
  BY <1>1, ElementOfSeq, FrameKinds
<1>3. x \in Frames /\ x.kind = "delay"
  BY <1>2, DelayFields DEF Frames
<1>4. Sound(b, c) /\ Len(b) = Len(f) - 1 /\ \A k \in 1 .. Len(f) - 1 : b[k] = f[k] /\ (f[k].kind = "delay" => f[k].late)
  BY SoundBelow
<1>5. DOMAIN b = 1 .. Len(f) - 1
  BY <1>4, LenProperties DEF Sound
<1> HIDE DEF b, x
<1>6. QED
  BY <1>3, <1>4, <1>5, SoundPushed DEF b, x

(* Another delay in the place of the last.                                 *)
LEMMA LastReplaced ==
  ASSUME NEW c, NEW f, f \in Seq(Frames), f # <<>>, f[Len(f)].kind = "delay",
         \A j, k \in DOMAIN f : f[j].kind # "delay" /\ f[k].kind # "delay" => j = k,
         \A k \in DOMAIN f : f[k].kind = "delay" /\ k < Len(f) => Timely(f[k], c) /\ f[k].late,
         NEW x \in DelayFrames, Timely(x, c)
  PROVE  Sound([f EXCEPT ![Len(f)] = x], c)
<1> DEFINE w == [f EXCEPT ![Len(f)] = x]
<1> DEFINE n == Len(f)
<1>1. n \in Nat \ {0} /\ DOMAIN f = 1 .. n /\ x \in Frames /\ x.kind = "delay"
  BY EmptySeq, LenProperties DEF Frames, DelayFrames
<1>2. /\ w \in Seq(Frames) /\ Len(w) = n
      /\ \A k \in 1 .. n : w[k] = IF k = n THEN x ELSE f[k]
  BY <1>1, ExceptSeq
<1>3. DOMAIN w = 1 .. n
  BY <1>2, LenProperties
<1>4. /\ f[n].kind = "delay"
      /\ \A j, k \in 1 .. n : f[j].kind # "delay" /\ f[k].kind # "delay" => j = k
      /\ \A k \in 1 .. n : f[k].kind = "delay" /\ k < n => Timely(f[k], c) /\ f[k].late
  BY <1>1
<1> HIDE DEF w, n
<1>5. \A k \in 1 .. n : k = n \/ (k < n /\ w[k] = f[k])
  BY <1>1, <1>2
<1>6. n \in 1 .. n /\ w[n] = x
  BY <1>1, <1>2
<1>7. \A j, k \in 1 .. n : w[j].kind # "delay" /\ w[k].kind # "delay" => j = k
  BY <1>1, <1>4, <1>5, <1>6
<1>8. \A k \in 1 .. n : w[k].kind = "delay" => Timely(w[k], c) /\ (k < n => w[k].late)
  BY <1>1, <1>4, <1>5, <1>6
<1>9. QED
  BY <1>2, <1>3, <1>7, <1>8 DEF Sound, w

(* An interrupt wakes the last frame.                                      *)
LEMMA SoundWoken ==
  ASSUME NEW c, NEW f, Sound(f, c)
  PROVE  Sound(Woken(f), c)
<1>1. CASE f # <<>> /\ f[Len(f)].kind = "delay" /\ f[Len(f)].stage = "wait"
  <2> DEFINE d == f[Len(f)]
  <2> DEFINE x == [d EXCEPT !.stage = "test"]
  <2>1. f \in Seq(Frames) /\ Len(f) \in DOMAIN f /\ Len(f) \in 1 .. Len(f)
    BY <1>1, EmptySeq, LenProperties DEF Sound
  <2>2. d \in DelayFrames
    BY <1>1, <2>1, ElementOfSeq, FrameKinds
  <2>3. x \in DelayFrames /\ x.ms = d.ms /\ x.from = d.from /\ x.late = d.late /\ x.wrapped = d.wrapped
    BY <2>2, DelayFields
  <2>4. Timely(d, c)
    BY <1>1, <2>1 DEF Sound
  <2> HIDE DEF x
  <2>5. Timely(x, c)
    BY <1>1, <2>3, <2>4 DEF Timely, Short
  <2>6. Woken(f) = [f EXCEPT ![Len(f)] = x]
    BY <1>1 DEF Woken, x
  <2>7. /\ \A j, k \in DOMAIN f : f[j].kind # "delay" /\ f[k].kind # "delay" => j = k
        /\ \A k \in DOMAIN f : f[k].kind = "delay" /\ k < Len(f) => Timely(f[k], c) /\ f[k].late
    BY DEF Sound
  <2>8. QED
    BY <1>1, <2>1, <2>3, <2>5, <2>6, <2>7, LastReplaced
<1>2. CASE ~(f # <<>> /\ f[Len(f)].kind = "delay" /\ f[Len(f)].stage = "wait")
  BY <1>2 DEF Woken
<1>3. QED
  BY <1>1, <1>2

-----------------------------------------------------------------------------
(* The invariant and the steps.                                            *)

QueueTyped(q) == q \in Seq(Entries) /\ Len(q) <= Depth
CallbacksInv ==
  /\ TimeInv
  /\ registered \in [Slots -> Pointers]
  /\ QueueTyped(queue)
  /\ Sound(frames, counter)
  /\ interrupt \in BOOLEAN
  /\ events \in 0 .. MaxEvents /\ calls \in 0 .. MaxCalls

LEMMA Start == Init => CallbacksInv
<1> SUFFICES ASSUME Init PROVE CallbacksInv
  OBVIOUS
<1>1. TimeInv
  BY TimeStart DEF Init
<1>2. QueueTyped(queue)
  BY EmptySeq, CallbackAssumption DEF Init, QueueTyped
<1>3. Sound(frames, counter)
  BY SoundEmpty DEF Init
<1>4. registered \in [Slots -> Pointers] /\ interrupt \in BOOLEAN
  BY DEF Init, Slots, Pointers
<1>5. events \in 0 .. MaxEvents /\ calls \in 0 .. MaxCalls
  BY CallbackAssumption DEF Init
<1>6. QED
  BY <1>1, <1>2, <1>3, <1>4, <1>5 DEF CallbacksInv

LEMMA Last_ ==
  ASSUME CallbacksInv
  PROVE  /\ frames = <<>> => Last.kind = "script"
         /\ frames # <<>> => /\ Len(frames) \in Nat \ {0} /\ Len(frames) \in DOMAIN frames
                             /\ Last = frames[Len(frames)] /\ Last \in Frames
         /\ DOMAIN frames = 1 .. Len(frames) /\ Len(frames) \in Nat
<1>1. frames \in Seq(Frames)
  BY DEF CallbacksInv, Sound
<1>2. DOMAIN frames = 1 .. Len(frames) /\ Len(frames) \in Nat
  BY <1>1, LenProperties
<1>3. frames # <<>> => Len(frames) \in Nat \ {0}
  BY <1>1, EmptySeq
<1>4. frames # <<>> => Len(frames) \in DOMAIN frames /\ frames[Len(frames)] \in Frames
  BY <1>1, <1>2, <1>3, ElementOfSeq
<1>5. QED
  BY <1>2, <1>3, <1>4 DEF Last

(* A frame that is not the last, or lies below Python code, is late if it  *)
(* is a delay.                                                             *)
LEMMA LateBelowPython ==
  ASSUME CallbacksInv, InPython
  PROVE  \A k \in DOMAIN frames : frames[k].kind = "delay" => frames[k].late
<1> SUFFICES ASSUME NEW k \in DOMAIN frames, frames[k].kind = "delay"
             PROVE  frames[k].late
  OBVIOUS
<1>1. frames # <<>> /\ k \in 1 .. Len(frames)
  BY Last_, EmptySeq
<1>2. Last = frames[Len(frames)] /\ Len(frames) \in Nat
  BY <1>1, Last_
<1>3. k # Len(frames)
  BY <1>2 DEF InPython
<1>4. k < Len(frames)
  BY <1>1, <1>2, <1>3
<1>5. QED
  BY <1>4 DEF CallbacksInv, Sound

LEMMA Scheduled ==
  ASSUME CallbacksInv, NEW slot \in Slots, events < MaxEvents, Schedule(slot)
  PROVE  QueueTyped(queue')
<1>1. CASE registered[slot] = "none" \/ Len(queue) = Depth
  BY <1>1 DEF Schedule, CallbacksInv
<1>2. CASE ~(registered[slot] = "none" \/ Len(queue) = Depth)
  <2> DEFINE e == [slot |-> slot, arg |-> events + 1, func |-> registered[slot]]
  <2>1. e \in Entries
    <3>1. registered[slot] \in Pointers \ {"none"} /\ events + 1 \in 1 .. MaxEvents
      BY <1>2, CallbackAssumption DEF CallbacksInv
    <3>2. QED
      BY <3>1 DEF Entries
  <2>2. queue' = Append(queue, e)
    BY <1>2 DEF Schedule
  <2>3. queue \in Seq(Entries) /\ Len(queue) <= Depth /\ Len(queue) \in Nat
    BY LenProperties DEF CallbacksInv, QueueTyped
  <2> HIDE DEF e
  <2>4. queue' \in Seq(Entries) /\ Len(queue') = Len(queue) + 1
    BY <2>1, <2>2, <2>3, AppendProperties
  <2>5. QED
    BY <1>2, <2>3, <2>4, CallbackAssumption DEF QueueTyped
<1>3. QED
  BY <1>1, <1>2

(* Steps that leave the clock alone: what is to be shown of each.          *)
LEMMA Kept ==
  ASSUME CallbacksInv, UNCHANGED time,
         registered' \in [Slots -> Pointers], QueueTyped(queue'), Sound(frames', counter),
         interrupt' \in BOOLEAN, events' \in 0 .. MaxEvents, calls' \in 0 .. MaxCalls
  PROVE  CallbacksInv'
<1>1. TimeInv' /\ counter' = counter
  BY TimeStays DEF CallbacksInv
<1>2. QueueTyped(queue)' /\ Sound(frames, counter)'
  BY <1>1 DEF QueueTyped, Sound, Timely, Short, MsAt
<1>3. QED
  BY <1>1, <1>2 DEF CallbacksInv

LEMMA InterruptStep ==
  ASSUME CallbacksInv, TouchOne \/ TouchBoth \/ Receive \/ ControlC
  PROVE  CallbacksInv'
<1>1. /\ events < MaxEvents /\ events' = events + 1 /\ frames' = Woken(frames)
      /\ UNCHANGED <<time, registered, calls>>
  BY DEF TouchOne, TouchBoth, Receive, ControlC, Interrupt
<1>2. /\ Sound(frames', counter) /\ events' \in 0 .. MaxEvents
      /\ registered' \in [Slots -> Pointers] /\ calls' \in 0 .. MaxCalls
  BY <1>1, SoundWoken, CallbackAssumption DEF CallbacksInv
<1>3. QueueTyped(queue')
  <2>1. CASE ControlC
    BY <2>1 DEF ControlC, CallbacksInv
  <2>2. CASE TouchOne
    <3>1. PICK button \in {"A", "B"} : Schedule(IF registered["either"] # "none" THEN "either" ELSE button)
      BY <2>2 DEF TouchOne
    <3>2. (IF registered["either"] # "none" THEN "either" ELSE button) \in Slots
      BY DEF Slots
    <3>3. QED
      BY <1>1, <3>1, <3>2, Scheduled
  <2>3. CASE TouchBoth
    BY <2>3, <1>1, Scheduled DEF TouchBoth, Slots
  <2>4. CASE Receive
    BY <2>4, <1>1, Scheduled DEF Receive, Slots
  <2>5. QED
    BY <2>1, <2>2, <2>3, <2>4
<1>4. interrupt' \in BOOLEAN
  BY DEF TouchOne, TouchBoth, Receive, ControlC, Interrupt, CallbacksInv
<1>5. QED
  BY <1>1, <1>2, <1>3, <1>4, Kept

(* What the counter's tick does to the frames.                             *)
Ticked(f) == [k \in DOMAIN f |-> IF Wraps /\ f[k].kind = "delay" THEN [f[k] EXCEPT !.wrapped = TRUE] ELSE f[k]]

LEMMA WrappedSound ==
  ASSUME CallbacksInv, Wraps, NEW c
  PROVE  Sound(Ticked(frames), c)
<1> DEFINE g == Ticked(frames)
<1> DEFINE n == Len(frames)
<1>1. frames \in Seq(Frames) /\ n \in Nat /\ DOMAIN frames = 1 .. n
  BY Last_ DEF CallbacksInv, Sound
<1>2. \A k \in 1 .. n :
        /\ frames[k] \in Frames
        /\ g[k] = IF frames[k].kind = "delay" THEN [frames[k] EXCEPT !.wrapped = TRUE] ELSE frames[k]
  BY <1>1, ElementOfSeq DEF Ticked
<1>3. ASSUME NEW d \in DelayFrames
      PROVE  /\ [d EXCEPT !.wrapped = TRUE] \in DelayFrames /\ [d EXCEPT !.wrapped = TRUE].kind = "delay"
             /\ [d EXCEPT !.wrapped = TRUE].wrapped /\ [d EXCEPT !.wrapped = TRUE].late = d.late
  BY DEF DelayFrames
<1>4. /\ \A j, k \in 1 .. n : frames[j].kind # "delay" /\ frames[k].kind # "delay" => j = k
      /\ \A k \in 1 .. n : frames[k].kind = "delay" /\ k < n => frames[k].late
  BY <1>1 DEF CallbacksInv, Sound
<1>5. g = [k \in 1 .. n |-> g[k]]
  BY <1>1 DEF Ticked
<1> HIDE DEF g, n
<1>6. \A k \in 1 .. n :
        /\ g[k] \in Frames
        /\ g[k].kind = "delay" <=> frames[k].kind = "delay"
        /\ g[k].kind = "delay" => g[k].wrapped /\ g[k].late = frames[k].late
  <2> SUFFICES ASSUME NEW k \in 1 .. n
               PROVE  /\ g[k] \in Frames
                      /\ g[k].kind = "delay" <=> frames[k].kind = "delay"
                      /\ g[k].kind = "delay" => g[k].wrapped /\ g[k].late = frames[k].late
    OBVIOUS
  <2>1. CASE frames[k].kind = "delay"
    <3>1. frames[k] \in DelayFrames
      BY <1>2, <2>1, FrameKinds
    <3>2. g[k] = [frames[k] EXCEPT !.wrapped = TRUE]
      BY <1>2, <2>1
    <3>3. QED
      BY <1>3, <2>1, <3>1, <3>2 DEF Frames
  <2>2. CASE frames[k].kind # "delay"
    BY <1>2, <2>2
  <2>3. QED
    BY <2>1, <2>2
<1>7. g \in Seq(Frames) /\ Len(g) = n /\ DOMAIN g = 1 .. n
  <2>1. g \in [1 .. n -> Frames]
    BY <1>5, <1>6
  <2>2. g \in Seq(Frames)
    BY <1>1, <2>1, SeqDef
  <2>3. DOMAIN g = 1 .. n
    BY <2>1
  <2>4. QED
    BY <1>1, <2>2, <2>3, LenProperties
<1>8. \A k \in DOMAIN g : g[k].kind = "delay" => Timely(g[k], c) /\ (k < Len(g) => g[k].late)
  BY <1>4, <1>6, <1>7 DEF Timely
<1>9. \A j, k \in DOMAIN g : g[j].kind # "delay" /\ g[k].kind # "delay" => j = k
  BY <1>4, <1>6, <1>7
<1>10. QED
  BY <1>7, <1>8, <1>9 DEF Sound, g

LEMMA Unwrapped ==
  ASSUME CallbacksInv, ~Wraps
  PROVE  Ticked(frames) = frames
<1>1. frames = [k \in DOMAIN frames |-> frames[k]]
  <2>1. frames \in [1 .. Len(frames) -> Frames]
    BY LenProperties DEF CallbacksInv, Sound
  <2>2. QED
    BY <2>1
<1>2. QED
  BY <1>1 DEF Ticked

LEMMA TickStep ==
  ASSUME CallbacksInv, Tick
  PROVE  CallbacksInv'
<1>1. /\ TickTime /\ frames' = Woken(Ticked(frames))
      /\ InPython \/ InDelay("wait")
      /\ UNCHANGED <<registered, queue, interrupt, events, calls>>
  BY DEF Tick, Ticked
<1>2. TimeInv' /\ (~Wraps => counter' = counter + 1)
  BY <1>1, TimePasses DEF CallbacksInv
<1>3. counter \in Int /\ \A d \in DelayFrames : d.from \in Int
  BY Units DEF CallbacksInv, TimeInv, TimeTypeOK, DelayFrames
<1>4. Sound(frames', counter')
  <2>1. CASE Wraps
    BY <1>1, <2>1, WrappedSound, SoundWoken
  <2>2. CASE ~Wraps /\ InPython
    <3>1. frames' = Woken(frames) /\ counter' = counter + 1
      BY <1>1, <1>2, <2>2, Unwrapped
    <3>2. \A k \in DOMAIN frames : frames[k].kind = "delay" => frames[k].late /\ Timely(frames[k], counter) /\ frames[k] \in DelayFrames
      <4>1. \A k \in DOMAIN frames : frames[k] \in Frames
        BY Last_, ElementOfSeq DEF CallbacksInv, Sound
      <4>2. QED
        BY <4>1, <2>2, LateBelowPython, FrameKinds DEF CallbacksInv, Sound
    <3>3. \A d \in DelayFrames : d.late /\ Timely(d, counter) => Timely(d, counter + 1)
      BY <1>3 DEF Timely
    <3>4. Sound(frames, counter + 1)
      BY <3>2, <3>3 DEF CallbacksInv, Sound
    <3>5. QED
      BY <3>1, <3>4, SoundWoken
  <2>3. CASE ~Wraps /\ InDelay("wait")
    <3> DEFINE d == frames[Len(frames)]
    <3> DEFINE x == [d EXCEPT !.stage = "test"]
    <3>1. frames # <<>> /\ d.kind = "delay" /\ d.stage = "wait"
      BY <2>3, Last_ DEF InDelay
    <3>2. d \in DelayFrames /\ Len(frames) \in DOMAIN frames
      BY <3>1, Last_, FrameKinds
    <3>3. Timely(d, counter)
      BY <3>1, <3>2 DEF CallbacksInv, Sound
    <3>4. /\ x \in DelayFrames /\ x.ms = d.ms /\ x.from = d.from /\ x.late = d.late
          /\ x.wrapped = d.wrapped /\ x.stage = "test" /\ d.from \in Int
      BY <1>3, <3>2, DelayFields
    <3>5. frames' = [frames EXCEPT ![Len(frames)] = x] /\ counter' = counter + 1
      BY <1>1, <1>2, <2>3, <3>1, Unwrapped DEF Woken
    <3>6. \A k \in DOMAIN frames : frames[k].kind = "delay" /\ k < Len(frames) =>
            frames[k].late /\ Timely(frames[k], counter) /\ frames[k] \in DelayFrames
      <4>1. \A k \in DOMAIN frames : frames[k] \in Frames
        BY Last_, ElementOfSeq DEF CallbacksInv, Sound
      <4>2. QED
        BY <4>1, FrameKinds DEF CallbacksInv, Sound
    <3>7. \A e \in DelayFrames : e.late /\ Timely(e, counter) => Timely(e, counter + 1)
      BY <1>3 DEF Timely
    <3>8. Timely(x, counter + 1)
      <4> HIDE DEF x, d
      <4>1. counter + 1 - 1 = counter
        BY <1>3
      <4>2. QED
        BY <1>3, <3>1, <3>3, <3>4, <4>1 DEF Timely, Short
    <3>9. frames \in Seq(Frames) /\ \A j, k \in DOMAIN frames : frames[j].kind # "delay" /\ frames[k].kind # "delay" => j = k
      BY DEF CallbacksInv, Sound
    <3> HIDE DEF x
    <3>10. QED
      BY <3>1, <3>4, <3>5, <3>6, <3>7, <3>8, <3>9, LastReplaced
  <2>4. QED
    BY <1>1, <2>1, <2>2, <2>3
<1>5. QED
  BY <1>1, <1>2, <1>4 DEF CallbacksInv, QueueTyped

LEMMA ElapsedShown ==
  ASSUME NEW c \in Counts, NEW f \in Counts, f <= c
  PROVE  (MsAt(c) - MsAt(f)) % WordMod = MsAt(c) - MsAt(f)
<1> DEFINE d == MsAt(c) - MsAt(f)
<1>1. d \in Nat /\ d < WordMod
  BY Shown, ShownGrows, Units
<1> HIDE DEF d
<1>2. d % WordMod = d
  BY <1>1, Units, SMTT(20)
<1>3. QED
  BY <1>2 DEF d

LEMMA PythonStep ==
  ASSUME CallbacksInv, SetCallback \/ CallTime \/ CallDelay
  PROVE  CallbacksInv'
<1>1. InPython /\ calls < MaxCalls /\ calls' = calls + 1 /\ UNCHANGED <<queue, interrupt, events>>
  BY DEF SetCallback, CallTime, CallDelay, PythonCalls
<1>2. calls' \in 0 .. MaxCalls
  BY <1>1, CallbackAssumption DEF CallbacksInv
<1>3. CASE SetCallback
  <2>1. PICK c \in Settings : registered' = [registered EXCEPT ![c[1]] = c[2]]
    BY <1>3 DEF SetCallback
  <2>2. c[1] \in Slots /\ c[2] \in Pointers
    BY SettingsAssumption
  <2>3. registered' \in [Slots -> Pointers] /\ UNCHANGED <<time, frames>>
    BY <1>3, <2>1, <2>2 DEF SetCallback, CallbacksInv
  <2>4. QED
    BY <1>1, <1>2, <2>3, Kept DEF CallbacksInv, QueueTyped
<1>4. CASE CallTime
  <2>1. PICK now \in SetTimes : SetTime(now)
    BY <1>4 DEF CallTime
  <2>2. TimeInv' /\ counter' = counter
    BY <2>1, ClockIsSet DEF CallbacksInv
  <2>3. UNCHANGED <<registered, frames>>
    BY <1>4 DEF CallTime
  <2>4. Sound(frames, counter)'
    BY <2>2, <2>3 DEF CallbacksInv
  <2>5. QED
    BY <1>1, <1>2, <2>2, <2>3, <2>4 DEF CallbacksInv, QueueTyped
<1>5. CASE CallDelay
  <2>1. PICK ms \in Delays : frames' = Append(frames, [kind |-> "delay", ms |-> ms, from |-> counter, stage |-> "test",
                                                       wrapped |-> FALSE, late |-> FALSE])
    BY <1>5 DEF CallDelay
  <2> DEFINE d == [kind |-> "delay", ms |-> ms, from |-> counter, stage |-> "test", wrapped |-> FALSE, late |-> FALSE]
  <2>2. counter \in Counts /\ counter \in Nat
    BY WholeMs DEF CallbacksInv, TimeInv, TimeTypeOK, Counts
  <2>3. d \in Frames /\ d.kind = "delay" /\ d.from = counter /\ d.stage = "test"
    BY <2>2 DEF Frames, DelayFrames, Counts
  <2>4. Timely(d, counter)
    <3> HIDE DEF d
    <3>1. counter <= counter
      BY <2>2
    <3>2. QED
      BY <2>3, <3>1 DEF Timely
  <2>5. frames' = Append(frames, d)
    BY <2>1
  <2> HIDE DEF d
  <2>6. Sound(frames', counter)
    BY <1>1, <2>3, <2>4, <2>5, LateBelowPython, SoundPushed DEF CallbacksInv
  <2>7. UNCHANGED <<time, registered>>
    BY <1>5 DEF CallDelay
  <2>8. QED
    BY <1>1, <1>2, <2>6, <2>7, Kept DEF CallbacksInv, QueueTyped
<1>6. QED
  BY <1>3, <1>4, <1>5

LEMMA HeapStep ==
  ASSUME CallbacksInv, Collect \/ SoftReboot
  PROVE  CallbacksInv'
<1>1. CASE Collect
  <2>1. registered' = [s \in Slots |-> IF registered[s] = "unnamed" /\ ~InUse(s) THEN "freed" ELSE registered[s]]
        /\ UNCHANGED <<time, queue, frames, interrupt, events, calls>>
    BY <1>1 DEF Collect
  <2>2. registered' \in [Slots -> Pointers]
    BY <2>1 DEF CallbacksInv, Pointers
  <2>3. QED
    BY <2>1, <2>2, Kept DEF CallbacksInv, QueueTyped
<1>2. CASE SoftReboot
  <2>1. /\ registered' = [s \in Slots |-> IF registered[s] = "none" THEN "none" ELSE "freed"]
        /\ queue' = <<>> /\ interrupt' = FALSE /\ calls < MaxCalls /\ calls' = calls + 1
        /\ UNCHANGED <<time, frames, events>>
    BY <1>2 DEF SoftReboot
  <2>2. registered' \in [Slots -> Pointers] /\ interrupt' \in BOOLEAN
    BY <2>1 DEF Pointers
  <2>3. QueueTyped(queue')
    <3>1. Depth \in Nat /\ Len(<<>>) = 0 /\ <<>> \in Seq(Entries)
      BY CallbackAssumption, EmptySeq
    <3>2. QED
      BY <2>1, <3>1 DEF QueueTyped
  <2>4. calls' \in 0 .. MaxCalls
    BY <2>1, CallbackAssumption DEF CallbacksInv
  <2>5. QED
    BY <2>1, <2>2, <2>3, <2>4, Kept DEF CallbacksInv
<1>3. QED
  BY <1>1, <1>2

(* The innermost frame ends.                                               *)
LEMMA ReturnStep ==
  ASSUME CallbacksInv, CallbackReturns \/ DelayReturns
  PROVE  CallbacksInv'
<1>1. /\ frames # <<>>
      /\ frames' = Below \/ frames' = Woken(Below)
      /\ UNCHANGED <<time, registered, queue, interrupt, events, calls>>
  BY DEF CallbackReturns, DelayReturns, InDelay, Last
<1>2. Sound(Below, counter)
  BY <1>1, SoundBelow DEF CallbacksInv, Below
<1>3. Sound(frames', counter)
  BY <1>1, <1>2, SoundWoken
<1>4. QED
  BY <1>1, <1>3, Kept DEF CallbacksInv, QueueTyped

(* The innermost delay goes on to another stage.                           *)
LEMMA StageStep ==
  ASSUME CallbacksInv, NEW s \in {"hook", "wait"}, Last.kind = "delay", GoTo(s),
         ~Last.wrapped /\ ~Last.late => Short(Last, counter)
  PROVE  Sound(frames', counter)
<1> DEFINE x == [Last EXCEPT !.stage = s]
<1>1. frames # <<>> /\ Last = frames[Len(frames)] /\ Last \in DelayFrames /\ Len(frames) \in DOMAIN frames
  BY Last_, FrameKinds
<1>2. x.ms = Last.ms /\ x.from = Last.from /\ x.late = Last.late /\ x.wrapped = Last.wrapped
  BY <1>1, DelayFields
<1>3. Timely(Last, counter)
  BY <1>1 DEF CallbacksInv, Sound
<1>4. Timely(x, counter)
  <2> HIDE DEF x
  <2>1. QED
    BY <1>2, <1>3 DEF Timely, Short
<1>5. frames' = Append(SubSeq(frames, 1, Len(frames) - 1), x)
  BY DEF GoTo, Below
<1>6. QED
  BY <1>1, <1>4, <1>5, SoundStage DEF CallbacksInv

LEMMA DelayGoesOnStep ==
  ASSUME CallbacksInv, DelayGoesOn
  PROVE  CallbacksInv'
<1>1. /\ Last.kind = "delay" /\ Elapsed < Last.ms /\ GoTo("hook")
      /\ UNCHANGED <<time, registered, queue, interrupt, events, calls>>
  BY DEF DelayGoesOn, InDelay
<1>2. frames # <<>> /\ Last = frames[Len(frames)] /\ Last \in DelayFrames /\ Len(frames) \in DOMAIN frames
  BY <1>1, Last_, FrameKinds
<1>3. Timely(Last, counter) /\ Last.from \in Counts /\ counter \in Counts
  BY <1>1, <1>2, DelayFields DEF CallbacksInv, Sound, TimeInv, TimeTypeOK, Counts
<1>4. ~Last.wrapped => Short(Last, counter)
  <2>1. SUFFICES ASSUME ~Last.wrapped PROVE Last.from <= counter /\ MsAt(counter) - MsAt(Last.from) < Last.ms
    BY DEF Short
  <2>2. Last.from <= counter
    BY <1>3, <2>1 DEF Timely
  <2>3. Elapsed = MsAt(counter) - MsAt(Last.from)
    BY <1>3, <2>2, ElapsedShown DEF Elapsed, TicksMs
  <2>4. QED
    BY <1>1, <2>2, <2>3
<1>5. Sound(frames', counter)
  BY <1>1, <1>4, StageStep
<1>6. QED
  BY <1>1, <1>5, Kept DEF CallbacksInv, QueueTyped

(* In the hook a delay is short of its time.                               *)
LEMMA ShortInHook ==
  ASSUME CallbacksInv, InDelay("hook")
  PROVE  /\ Last.kind = "delay" /\ frames # <<>> /\ Last \in DelayFrames
         /\ ~Last.wrapped => Last.from <= counter
         /\ ~Last.wrapped /\ ~Last.late => Short(Last, counter)
<1>1. Last.kind = "delay" /\ Last.stage = "hook"
  BY DEF InDelay
<1>2. frames # <<>> /\ Last = frames[Len(frames)] /\ Last \in DelayFrames /\ Len(frames) \in DOMAIN frames
  BY <1>1, Last_, FrameKinds
<1>3. Timely(Last, counter)
  BY <1>1, <1>2 DEF CallbacksInv, Sound
<1>4. QED
  BY <1>1, <1>2, <1>3 DEF Timely

(* A callback runs above the frames under it, which are delays.            *)
LEMMA RunStep ==
  ASSUME CallbacksInv, NEW under, RunCallback(under), Sound(under, counter),
         \A k \in DOMAIN under : under[k].kind = "delay" /\ under[k].late
  PROVE  Sound(frames', counter) /\ QueueTyped(queue') /\ registered' = registered /\ interrupt' = interrupt
<1> DEFINE x == [kind |-> IF queue[1].func = "freed" THEN "wild" ELSE "callback",
                 slot |-> queue[1].slot, arg |-> queue[1].arg]
<1>1. queue # <<>> /\ queue' = Tail(queue) /\ frames' = Append(under, x)
  BY DEF RunCallback
<1>2. queue \in Seq(Entries) /\ Len(queue) <= Depth
  BY DEF CallbacksInv, QueueTyped
<1>3. Len(queue) \in Nat \ {0}
  BY <1>1, <1>2, EmptySeq
<1>4. queue[1] \in Entries
  BY <1>2, <1>3, ElementOfSeq
<1>5. x \in Frames /\ x.kind # "delay"
  BY <1>4 DEF Entries, Frames, CallbackFrames
<1>6. Tail(queue) \in Seq(Entries) /\ Len(Tail(queue)) = Len(queue) - 1
  BY <1>1, <1>2, HeadTailProperties
<1>7. QueueTyped(queue')
  BY <1>1, <1>2, <1>3, <1>6, CallbackAssumption DEF QueueTyped
<1> HIDE DEF x
<1>8. Sound(frames', counter)
  BY <1>1, <1>5, SoundPushed
<1>9. QED
  BY <1>7, <1>8 DEF RunCallback

LEMMA RaiseStep ==
  ASSUME CallbacksInv, Raise
  PROVE  Sound(frames', counter) /\ QueueTyped(queue') /\ registered' = registered /\ interrupt' \in BOOLEAN
BY SoundEmpty DEF Raise, CallbacksInv, QueueTyped

LEMMA PythonPollsStep ==
  ASSUME CallbacksInv, PythonPolls
  PROVE  CallbacksInv'
<1>1. frames = <<>> /\ UNCHANGED <<time, events, calls>>
  BY DEF PythonPolls
<1>2. Sound(frames, counter) /\ \A k \in DOMAIN frames : FALSE
  BY <1>1, Last_, EmptySeq DEF CallbacksInv
<1>3. Sound(frames', counter) /\ QueueTyped(queue') /\ registered' = registered /\ interrupt' \in BOOLEAN
  BY <1>2, RunStep, RaiseStep DEF PythonPolls, CallbacksInv
<1>4. QED
  BY <1>1, <1>3, Kept DEF CallbacksInv

LEMMA HookStep ==
  ASSUME CallbacksInv, HookIsBusy \/ HookPolls
  PROVE  CallbacksInv'
<1>1. InDelay("hook") /\ UNCHANGED <<time, events, calls>>
  BY DEF HookIsBusy, HookPolls
<1>2. /\ Last.kind = "delay" /\ frames # <<>> /\ Last \in DelayFrames
      /\ ~Last.wrapped => Last.from <= counter
      /\ ~Last.wrapped /\ ~Last.late => Short(Last, counter)
  BY <1>1, ShortInHook
<1>3. CASE GoTo("wait") /\ UNCHANGED <<registered, queue, interrupt>>
  <2>1. Sound(frames', counter)
    BY <1>2, <1>3, StageStep
  <2>2. QED
    BY <1>1, <1>3, <2>1, Kept DEF CallbacksInv, QueueTyped
<1>4. CASE Raise
  BY <1>1, <1>4, RaiseStep, Kept DEF CallbacksInv
<1>5. CASE RunCallback(Append(Below, [Last EXCEPT !.stage = "wait", !.late = TRUE]))
  <2> DEFINE x == [Last EXCEPT !.stage = "wait", !.late = TRUE]
  <2>1. /\ x \in DelayFrames /\ x \in Frames /\ x.kind = "delay" /\ x.late
        /\ x.from = Last.from /\ x.wrapped = Last.wrapped
    BY <1>2 DEF DelayFrames, Frames
  <2>2. /\ Sound(Below, counter) /\ Len(Below) = Len(frames) - 1
        /\ \A k \in 1 .. Len(frames) - 1 : Below[k] = frames[k]
        /\ \A k \in 1 .. Len(frames) - 1 : frames[k].kind = "delay" => frames[k].late
    BY <1>2, SoundBelow DEF CallbacksInv, Below
  <2>3. \A k \in DOMAIN frames : frames[k].kind = "delay"
    BY <1>5 DEF RunCallback, Locked
  <2>4. DOMAIN Below = 1 .. Len(frames) - 1 /\ Len(frames) \in Nat /\ DOMAIN frames = 1 .. Len(frames)
    BY <2>2, LenProperties, Last_ DEF Sound
  <2> DEFINE b == Below
  <2> HIDE DEF x, b
  <2>5. \A k \in DOMAIN b : b[k].kind = "delay" /\ b[k].late
    BY <2>2, <2>3, <2>4 DEF b
  <2>6. Timely(x, counter)
    BY <1>2, <2>1 DEF Timely
  <2>7. Sound(Append(b, x), counter)
    BY <2>1, <2>2, <2>5, <2>6, SoundPushed DEF b
  <2>8. \A k \in DOMAIN Append(b, x) : Append(b, x)[k].kind = "delay" /\ Append(b, x)[k].late
    <3>1. b \in Seq(Frames) /\ Len(b) \in Nat /\ DOMAIN b = 1 .. Len(b)
      BY <2>2, LenProperties DEF Sound, b
    <3>2. /\ Append(b, x) \in Seq(Frames) /\ Len(Append(b, x)) = Len(b) + 1
          /\ \A i \in 1 .. Len(b) : Append(b, x)[i] = b[i]
          /\ Append(b, x)[Len(b) + 1] = x
      BY <2>1, <3>1, AppendProperties
    <3>3. DOMAIN Append(b, x) = 1 .. Len(b) + 1
      BY <3>2, LenProperties
    <3>4. \A k \in 1 .. Len(b) + 1 : k \in 1 .. Len(b) \/ k = Len(b) + 1
      BY <3>1
    <3>5. QED
      BY <2>1, <2>5, <3>1, <3>2, <3>3, <3>4
  <2>9. RunCallback(Append(b, x))
    BY <1>5 DEF b, x
  <2>10. Sound(frames', counter) /\ QueueTyped(queue') /\ registered' = registered /\ interrupt' = interrupt
    BY <2>7, <2>8, <2>9, RunStep
  <2>11. QED
    BY <1>1, <2>10, Kept DEF CallbacksInv
<1>6. QED
  BY <1>1, <1>3, <1>4, <1>5 DEF HookIsBusy, HookPolls

LEMMA NextKeepsInv ==
  ASSUME CallbacksInv, [Next]_vars
  PROVE  CallbacksInv'
<1>1. CASE Next
  BY <1>1, InterruptStep, TickStep, PythonStep, HeapStep, ReturnStep, PythonPollsStep, DelayGoesOnStep, HookStep DEF Next
<1>2. CASE UNCHANGED vars
  BY <1>2, Kept DEF vars, CallbacksInv, QueueTyped
<1>3. QED
  BY <1>1, <1>2

LEMMA AlwaysInv == Spec => []CallbacksInv
<1>1. Init => CallbacksInv
  BY Start
<1>2. CallbacksInv /\ [Next]_vars => CallbacksInv'
  BY NextKeepsInv
<1>3. QED
  BY <1>1, <1>2, PTL DEF Spec

-----------------------------------------------------------------------------
(* The theorems.                                                           *)

(* The clock, the callbacks, the queue and the stack keep their types; at  *)
(* most one callback is on the stack.                                      *)
THEOREM CallbacksTypeCorrect == Spec => []TypeOK
<1>1. CallbacksInv => TypeOK
  BY DEF CallbacksInv, TimeInv, QueueTyped, Sound, Frames, TypeOK
<1>2. QED
  BY <1>1, AlwaysInv, PTL

(* The clock keeps time whatever runs meanwhile, over soft reboots too.    *)
THEOREM ClockRight == Spec => []ClockKeepsTime
<1>1. CallbacksInv => ClockKeepsTime
  BY ClockFollows DEF CallbacksInv
<1>2. QED
  BY <1>1, AlwaysInv, PTL

(* What has passed between two counts is what is shown, to the rounding.   *)
LEMMA Lasting ==
  ASSUME NEW f \in Counts, NEW c \in Counts
  PROVE  /\ 2 * ((c - f) * TickNum) + 3 * TickDen > 2 * (TickDen * (MsAt(c) - MsAt(f)))
         /\ 2 * ((c - f) * TickNum) < 2 * (TickDen * (MsAt(c) - MsAt(f))) + 3 * TickDen
<1> DEFINE A == c * TickNum
<1> DEFINE B == f * TickNum
<1> DEFINE P == TickDen * MsAt(c)
<1> DEFINE Q == TickDen * MsAt(f)
<1>1. /\ A \in Nat /\ B \in Nat /\ P \in Nat /\ Q \in Nat
      /\ A < P + TickDen /\ 2 * P <= 2 * A + TickDen
      /\ B < Q + TickDen /\ 2 * Q <= 2 * B + TickDen
  BY WholeMs, Shown
<1>2. (c - f) * TickNum = A - B
  BY Units, WholeMs
<1>3. TickDen * (MsAt(c) - MsAt(f)) = P - Q
  BY Units, Shown
<1> HIDE DEF A, B, P, Q
<1>4. QED
  BY <1>1, <1>2, <1>3, Units

LEMMA DelayReturnsLate ==
  ASSUME CallbacksInv, DelayReturns, ~Last.wrapped
  PROVE  /\ 2 * Lasted(Last) > (2 * Last.ms - 3) * TickDen
         /\ ~Last.late => 2 * Lasted(Last) < (2 * Last.ms + 1) * TickDen + 2 * TickNum
<1> DEFINE f == Last.from
<1> DEFINE m == Last.ms
<1>1. Last.kind = "delay" /\ Elapsed >= Last.ms
  BY DEF DelayReturns, InDelay
<1>2. frames # <<>> /\ Last = frames[Len(frames)] /\ Last \in DelayFrames /\ Len(frames) \in DOMAIN frames
  BY <1>1, Last_, FrameKinds
<1>3. Timely(Last, counter) /\ f \in Counts /\ counter \in Counts /\ m \in Nat
  <2>1. Timely(Last, counter)
    BY <1>1, <1>2 DEF CallbacksInv, Sound
  <2>2. f \in Counts /\ counter \in Counts
    BY <1>2, DelayFields DEF CallbacksInv, TimeInv, TimeTypeOK, Counts
  <2>3. Last.ms \in Nat
    <3>1. Last.ms \in Delays
      BY <1>2 DEF DelayFrames
    <3>2. Last.ms \in 0 .. WordMod - 1
      BY <3>1, CallbackAssumption
    <3>3. QED
      BY <3>2
  <2>4. QED
    BY <2>1, <2>2, <2>3
<1>4. f <= counter
  BY <1>3 DEF Timely
<1>5. Elapsed = MsAt(counter) - MsAt(f)
  BY <1>3, <1>4, ElapsedShown DEF Elapsed, TicksMs
<1>6. MsAt(counter) \in Nat /\ MsAt(f) \in Nat /\ counter \in Nat /\ f \in Nat
  BY <1>3, Shown, WholeMs
<1>7. Lasted(Last) = (counter - f) * TickNum
  BY DEF Lasted
<1>8. 2 * Lasted(Last) > (2 * m - 3) * TickDen
  <2> DEFINE e == MsAt(counter) - MsAt(f)
  <2>1. e \in Nat /\ m <= e
    BY <1>1, <1>3, <1>4, <1>5, <1>6, ShownGrows
  <2>2. 2 * ((counter - f) * TickNum) + 3 * TickDen > 2 * (TickDen * e)
    BY <1>3, Lasting
  <2> HIDE DEF e, f, m
  <2>3. TickDen * m <= TickDen * e
    BY <1>3, <2>1, Units, Monotone
  <2>4. TickDen * m \in Nat /\ TickDen * e \in Nat /\ (2 * m - 3) * TickDen = 2 * (TickDen * m) - 3 * TickDen
    BY <1>3, <2>1, Units, Product
  <2>5. (counter - f) * TickNum \in Int
    BY <1>6, Units
  <2>6. QED
    BY <1>7, <2>2, <2>3, <2>4, <2>5, Units
<1>9. ASSUME ~Last.late
      PROVE  2 * Lasted(Last) < (2 * m + 1) * TickDen + 2 * TickNum
  <2>1. ~Short(Last, counter)
    BY <1>1, <1>3, <1>5, <1>6 DEF Short
  <2>2. CASE counter = f
    <3>1. (counter - f) * TickNum = 0
      BY <1>6, <2>2, Units
    <3>2. (2 * m + 1) * TickDen \in Nat
      BY <1>3, Units, Product
    <3> HIDE DEF f, m
    <3>3. QED
      BY <1>7, <3>1, <3>2, Units
  <2>3. CASE Short(Last, counter - 1)
    <3> DEFINE e == MsAt(counter - 1) - MsAt(f)
    <3>1. f <= counter - 1 /\ e < m
      BY <2>3 DEF Short
    <3>2. counter - 1 \in Counts
      BY <1>3, <1>6, <3>1, Units DEF Counts
    <3>3. e \in Nat /\ e <= m - 1
      BY <1>3, <1>6, <3>1, <3>2, Shown, ShownGrows
    <3>4. 2 * ((counter - 1 - f) * TickNum) < 2 * (TickDen * e) + 3 * TickDen
      BY <1>3, <3>2, Lasting
    <3> HIDE DEF e, f, m
    <3>5. TickDen * e <= TickDen * (m - 1)
      BY <1>3, <3>3, Units, Monotone
    <3>6. /\ TickDen * (m - 1) = TickDen * m - TickDen
          /\ (2 * m + 1) * TickDen = 2 * (TickDen * m) + TickDen
          /\ (counter - 1 - f) * TickNum = (counter - f) * TickNum - TickNum
      BY <1>3, <1>6, Units
    <3>7. TickDen * e \in Nat /\ TickDen * m \in Nat /\ (counter - f) * TickNum \in Int
      BY <1>3, <1>6, <3>3, Units, Product
    <3>8. QED
      BY <1>7, <3>4, <3>5, <3>6, <3>7, Units
  <2>4. QED
    BY <1>3, <1>9, <2>1, <2>2, <2>3 DEF Timely
<1>10. QED
  BY <1>8, <1>9

(* A delay lasts what was asked, to the rounding, and not a tick longer    *)
(* unless its hook ran callbacks, whatever they and interrupts do.         *)
THEOREM DelaysLast == Spec => DelayLasts
<1> DEFINE A == DelayReturns /\ ~Last.wrapped =>
                  /\ 2 * Lasted(Last) > (2 * Last.ms - 3) * TickDen
                  /\ ~Last.late => 2 * Lasted(Last) < (2 * Last.ms + 1) * TickDen + 2 * TickNum
<1>1. CallbacksInv /\ [Next]_vars => [A]_vars
  BY DelayReturnsLate
<1>2. Spec => [][A]_vars
  BY <1>1, AlwaysInv, PTL DEF Spec
<1>3. QED
  BY <1>2 DEF DelayLasts
=============================================================================
