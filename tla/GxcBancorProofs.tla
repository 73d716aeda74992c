-------------------------- MODULE GxcBancorProofs --------------------------
(* gxc.bancor books what it moves, and a conversion touches its parties     *)
(* alone: for any tokens, reserves, weights, charges and owners.            *)
EXTENDS GxcBancor, GxcReserveProofs

-----------------------------------------------------------------------------
(* Rounding.                                                                *)

(* Every nonempty set of naturals has a smallest member.                    *)
LEMMA SmallestNat ==
  ASSUME NEW B, B \subseteq Nat, B # {}
  PROVE  \E n \in B : \A m \in B : n <= m
<1>1. \E n \in B : \A m \in B : ~ (<<m, n>> \in OpToRel(<, Nat))
  BY NatLessThanWellFounded, WFMin
<1>2. PICK n \in B : \A m \in B : ~ (<<m, n>> \in OpToRel(<, Nat))
  BY <1>1
<1>3. \A m \in B : ~ (m < n)
  BY <1>2 DEF OpToRel
<1>4. \A m \in B : n <= m
  BY <1>3
<1> QED BY <1>4

LEMMA MaxOfRange ==
  ASSUME NEW n \in Nat, NEW S, S \subseteq 0 .. n, S # {}
  PROVE  Max(S) \in S /\ \A y \in S : y <= Max(S)
<1> DEFINE B == {i \in Nat : \A y \in S : y <= i}
<1>1. n \in B
  OBVIOUS
<1>2. PICK i \in B : \A j \in B : i <= j
  <2> B \subseteq Nat /\ B # {}
    BY <1>1
  <2> HIDE DEF B
  <2> QED BY SmallestNat
<1>3. i \in Nat /\ \A y \in S : y <= i
  OBVIOUS
<1>4. i \in S
  <2> SUFFICES ASSUME i \notin S PROVE FALSE
    OBVIOUS
  <2>1. PICK y \in S : TRUE
    OBVIOUS
  <2>2. \A z \in S : z <= i - 1 /\ z \in Nat
    BY <1>3
  <2>3. i - 1 \in Nat
    BY <1>3, <2>1, <2>2
  <2>4. i - 1 \in B
    BY <2>2, <2>3
  <2> QED BY <1>2, <1>3, <2>4
<1> HIDE DEF B
<1>5. \E x \in S : \A y \in S : x >= y
  BY <1>3, <1>4
<1>6. Max(S) \in S /\ \A y \in S : Max(S) >= y
  BY <1>5, Zenon DEF Max
<1> QED BY <1>6

(* A quotient that is rounded up, or not.                                   *)
LEMMA QuotientTimes ==
  ASSUME NEW a \in Int, NEW b \in Nat \ {0}, NEW c \in Int, c >= a \div b
  PROVE  a < (c + 1) * b
<1> DEFINE q == a \div b
<1>1. q \in Int /\ a = b * q + (a % b) /\ a % b \in 0 .. b - 1 /\ c >= q
  OBVIOUS
<1> HIDE DEF q
<1>2. (q + 1) * b <= (c + 1) * b
  BY <1>1, TimesGrows
<1>3. (q + 1) * b = b * q + b
  BY <1>1
<1> QED BY <1>1, <1>2, <1>3

LEMMA CutNat ==
  ASSUME NEW n \in Nat, NEW d \in Nat, d > 0, NEW c \in Cut(n, d)
  PROVE  c \in Nat
<1> DEFINE a == n * (Precision - 1)
           b == d * Precision
<1>1. a \in Nat /\ b \in Nat /\ b > 0
  <2>1. Precision \in Nat /\ Precision > 0
    BY ReserveAssumption
  <2> QED BY <2>1
<1>2. \E e : c \in a \div b .. e
  BY Zenon DEF Cut
<1> HIDE DEF a, b
<1>3. c \in Int /\ c >= a \div b
  <2>1. a \div b \in Int
    BY <1>1
  <2> QED BY <1>2, <2>1
<1>4. a < (c + 1) * b
  BY <1>1, <1>3, QuotientTimes
<1>5. c + 1 > 0
  <2> SUFFICES ASSUME c + 1 <= 0 PROVE FALSE
    BY <1>3
  <2> DEFINE e == c + 1
  <2>1. e \in Int /\ e <= 0 /\ 0 * b = 0 /\ a < e * b
    BY <1>1, <1>3, <1>4
  <2> HIDE DEF e
  <2>2. e * b <= 0 * b /\ e * b \in Int
    BY <1>1, <2>1, TimesGrows
  <2> QED BY <1>1, <2>1, <2>2
<1> QED BY <1>3, <1>5

(* A share is below what it costs by a unit, and what a double may lose.    *)
LEMMA ShareAbove ==
  ASSUME NEW v \in Nat, NEW rate \in Nat \X (Nat \ {0}), NEW c \in Share(v, rate)
  PROVE  /\ c \in Int
         /\ (c + 1) * (rate[2] * Precision) > v * rate[1] * (Precision - 1)
<1> DEFINE n == v * rate[1]
           d == rate[2]
           a == n * (Precision - 1)
           b == d * Precision
<1>1. n \in Nat /\ d \in Nat \ {0} /\ Precision \in Nat \ {0}
  BY ReserveAssumption
<1>2. a \in Int /\ b \in Nat \ {0}
  <2> HIDE DEF n, d
  <2> QED BY <1>1
<1>3. \E e : c \in a \div b .. e
  BY Zenon DEF Share, Cut
<1> HIDE DEF n, d, a, b
<1>4. c \in Int /\ c >= a \div b
  <2>1. a \div b \in Int
    BY <1>2
  <2> QED BY <1>3, <2>1
<1>5. a < (c + 1) * b
  BY <1>2, <1>4, QuotientTimes
<1>6. a = v * rate[1] * (Precision - 1) /\ b = rate[2] * Precision
  BY DEF a, b, n, d
<1> QED BY <1>4, <1>5, <1>6

(* The doubles of the four prices, as sets of the amounts alone.            *)
CurveDoubles(t, q) ==
  LET curve(n, m) == Bought(t, q, n, m) IN Doubles(curve, Supply(t), Supply(t) * q)
PriceDoubles(t, v) ==
  LET curve(n, m) == Price(t, v, n, m) IN Doubles(curve, Balance(t), MaxAmount * v)
BuyDoubles(t, q) ==
  LET rate(n, m) == BoughtAtRate(t, q, n, m) IN Doubles(rate, 0, Rate(t)[2] * q)
SaleDoubles(t, v, scale) ==
  LET rate(n, m) == PriceAtRate(t, v, scale, n, m)
  IN  Doubles(rate, 0, v * Rate(t)[1] * scale[1])

LEMMA DoublesNat ==
  ASSUME NEW t, NEW q, NEW v, NEW scale
  PROVE  /\ CurveDoubles(t, q) \subseteq Nat /\ PriceDoubles(t, v) \subseteq Nat
         /\ BuyDoubles(t, q) \subseteq Nat /\ SaleDoubles(t, v, scale) \subseteq Nat
<1>1. \A a, b : {i \in a .. b : i >= 0} \subseteq Nat
  OBVIOUS
<1>2. CurveDoubles(t, q) \subseteq Nat
  BY <1>1, Zenon DEF CurveDoubles, Doubles
<1>3. PriceDoubles(t, v) \subseteq Nat
  BY <1>1, Zenon DEF PriceDoubles, Doubles
<1>4. BuyDoubles(t, q) \subseteq Nat
  BY <1>1, Zenon DEF BuyDoubles, Doubles
<1>5. SaleDoubles(t, v, scale) \subseteq Nat
  BY <1>1, Zenon DEF SaleDoubles, Doubles
<1> QED BY <1>2, <1>3, <1>4, <1>5

LEMMA WholeIs ==
  ASSUME NEW i \in Nat
  PROVE  /\ Whole(i) \in Nat /\ Whole(i) * Precision <= i
         /\ i < (Whole(i) + 1) * Precision /\ i % Precision = i - Whole(i) * Precision
<1> DEFINE K == Precision
           q == i \div K
<1>1. K \in Nat /\ K > 0
  BY ReserveAssumption
<1> HIDE DEF K
<1>2. q \in Int /\ i = K * q + (i % K) /\ i % K \in 0 .. K - 1
  BY <1>1
<1>3. Whole(i) = q
  BY DEF Whole, K
<1> HIDE DEF q
<1>4. q >= 0
  <2> SUFFICES ASSUME q + 1 <= 0 PROVE FALSE
    BY <1>2
  <2>1. (q + 1) * K <= 0 * K
    BY <1>1, <1>2, TimesGrows
  <2> QED BY <1>1, <1>2, <2>1
<1> QED BY <1>1, <1>2, <1>3, <1>4 DEF K

(* What is used of an amount is some of it ...                              *)
LEMMA PartWithin ==
  ASSUME NEW v \in Nat, NEW i, NEW m \in Part(v, i)
  PROVE  m \in Nat /\ m <= v
<1>1. \E r \in 0 .. v : m = v - r
  BY Zenon DEF Part
<1> QED BY <1>1

(* ... and near enough to its whole units.                                  *)
LEMMA PartNear ==
  ASSUME NEW v \in Nat, NEW i \in Nat, i > 0, NEW m \in Part(v, i),
         NEW u \in Nat, u = Whole(i)
  PROVE  /\ m \in Nat /\ m <= v
         /\ m * (i * Precision) >= v * (u * Precision * Precision - 2 * i)
         /\ m * (i * Precision) <= i * Precision + v * u * Precision * Precision + 2 * v * i
<1> DEFINE K == Precision
           lost == v * (i % K) * K
           off == 2 * v * i
           b == i * K
<1>1. K \in Nat /\ K > 0
  BY ReserveAssumption
<1>2. /\ i % K = i - u * K
      /\ i - u * K >= 0
  <2>1. u * K <= i /\ i % K = i - u * K
    BY WholeIs
  <2> HIDE DEF K
  <2> QED BY <1>1, <2>1
<1>3. PICK r \in (lost - off) \div b .. (lost + off) \div b : r \in 0 .. v /\ m = v - r
  BY Zenon DEF Part
<1> HIDE DEF K
<1>4. lost \in Int /\ off \in Int /\ b \in Nat /\ b > 0 /\ lost = v * (i - u * K) * K
  BY <1>1, <1>2
<1> DEFINE low == lost - off
           high == lost + off
<1>5. r * b <= lost + off /\ lost - off < (r + 1) * b
  <2>1. low \in Int /\ high \in Int /\ r \in Int /\ b \in Nat \ {0}
    BY <1>3, <1>4
  <2>2. low \div b \in Int /\ high \div b \in Int
    <3> HIDE DEF low, high, b
    <3> QED BY <2>1
  <2>3. r <= high \div b /\ r >= low \div b
    <3> HIDE DEF low, high, b
    <3> QED BY <1>3, <2>2 DEF low, high
  <2> HIDE DEF low, high, b
  <2>4. r * b <= high /\ low < (r + 1) * b
    BY <2>1, <2>3, TimesQuotient, QuotientTimes
  <2> QED BY <2>4 DEF low, high
<1>6. m * b = v * b - r * b
  <2> HIDE DEF b
  <2> QED BY <1>3, <1>4
<1>7. v * b - lost = v * u * K * K
  <2>1. v * b = (v * i) * K
    BY <1>1
  <2>2. lost = (v * i) * K - v * u * K * K
    <3>1. \A x \in Int : v * (i - x) * K = (v * i) * K - v * x * K
      BY <1>1
    <3>2. u * K \in Int /\ v * (u * K) * K = v * u * K * K
      BY <1>1
    <3> HIDE DEF lost
    <3> QED BY <1>4, <3>1, <3>2
  <2> HIDE DEF lost, b
  <2> QED BY <1>1, <2>1, <2>2
<1>8. /\ v * b \in Int /\ r * b \in Int /\ (r + 1) * b = r * b + b /\ v * u * K * K \in Int
  <2> HIDE DEF b
  <2> QED BY <1>1, <1>3, <1>4
<1>9. v * (u * K * K - 2 * i) = v * u * K * K - off
  BY <1>1
<1>10. /\ m * b >= v * (u * K * K - 2 * i)
       /\ m * b <= b + v * u * K * K + off
  <2> HIDE DEF b, off, lost
  <2> QED BY <1>4, <1>5, <1>6, <1>7, <1>8, <1>9
<1> QED BY <1>3, <1>10 DEF K

LEMMA CutIs ==
  ASSUME NEW D, D \subseteq Nat, NEW v \in Nat, NEW fee \in Nat, NEW cut \in Cuts(D, v, fee)
  PROVE  /\ cut.units \in Nat /\ cut.units > 0
         /\ \A m \in cut.used : m \in Nat /\ m <= v
         /\ \A f \in cut.kept : f \in Nat /\ f <= fee
<1>1. PICK i \in D : /\ Whole(i) > 0
                     /\ cut = [units |-> Whole(i), used |-> Part(v, i), kept |-> Part(fee, i)]
  BY Zenon DEF Cuts
<1>2. Whole(i) \in Nat
  BY WholeIs
<1>3. cut.units = Whole(i) /\ cut.used = Part(v, i) /\ cut.kept = Part(fee, i)
  BY <1>1
<1> QED BY <1>1, <1>2, <1>3, PartWithin

LEMMA KeptIs ==
  ASSUME NEW D, D \subseteq Nat, NEW v \in Nat, NEW fee \in Nat, NEW cut \in Cuts(D, v, fee),
         NEW core, NEW q, NEW f \in FeeKept(cut, fee, core, q)
  PROVE  f \in Nat /\ f <= fee
<1>1. f \in cut.kept \/ f = fee
  BY DEF FeeKept
<1>2. \A g \in cut.kept : g \in Nat /\ g <= fee
  BY CutIs
<1> QED BY <1>1, <1>2

(* A rate is the one of an offer.                                           *)
RateOK(t) ==
  /\ Rate(t)[1] \in Nat /\ Rate(t)[1] > 0
  /\ Rate(t)[2] \in Nat /\ Rate(t)[2] > 0
  /\ \E offer \in Backings : Rate(t) = <<offer.underlying, offer.derivative>>

(* At the rate of a reserve a price is a quotient a / b, and its doubles    *)
(* are as near to it as they are to one another.                            *)
Near(i, k, a, b) ==
  /\ k \in Nat /\ k * b <= a
  /\ i <= (k + 1) * Precision + k + 2
  /\ (i - k - 2) * b <= a * Precision /\ a * Precision <= (i + k + 2) * b

(* The greatest of low and what is not above the quotient, in 1 / m.        *)
Highest(a, b, m, low, high) == Max({low} \cup {n \in low .. high : m * a - n * b >= 0})
QuotientDoubles(a, b, top) ==
  LET k   == Highest(a, b, 1, 0, top)
      x   == Highest(a, b, Precision, k * Precision, (k + 1) * Precision)
      off == 0 + k + 1
  IN  {i \in x - off .. x + 1 + off : i >= 0}

IsHighest(k, a, b, m, low, high) ==
  /\ k \in low .. high /\ k * b <= m * a
  /\ \A n \in low .. high : n * b <= m * a => n <= k

LEMMA HighestIs ==
  ASSUME NEW a \in Nat, NEW b \in Nat, NEW m \in Nat, NEW low \in Nat, NEW high \in Nat,
         low <= high, low * b <= m * a
  PROVE  IsHighest(Highest(a, b, m, low, high), a, b, m, low, high)
<1> DEFINE k == Highest(a, b, m, low, high)
           S == {low} \cup {n \in low .. high : m * a - n * b >= 0}
<1>0. m * a - low * b >= 0
  OBVIOUS
<1>1. S \subseteq 0 .. high /\ S # {} /\ S \subseteq low .. high
  OBVIOUS
<1>2. k = Max(S)
  BY Zenon DEF Highest
<1>3. k \in S /\ \A y \in S : y <= k
  <2> HIDE DEF S, k
  <2> QED BY <1>1, <1>2, MaxOfRange
<1> HIDE DEF k
<1>4. k \in low .. high
  <2> HIDE DEF S
  <2> QED BY <1>1, <1>3
<1>5. m * a \in Int /\ k * b \in Int
  BY <1>4
<1>6. m * a - k * b >= 0
  BY <1>0, <1>3
<1>7. ASSUME NEW n \in low .. high, n * b <= m * a
      PROVE  n <= k
  <2>1. n * b \in Int /\ m * a - n * b >= 0
    BY <1>5, <1>7
  <2>2. n \in S
    BY <2>1
  <2> HIDE DEF S
  <2> QED BY <1>3, <2>2
<1>8. k * b <= m * a
  BY <1>5, <1>6
<1> QED BY <1>4, <1>7, <1>8 DEF IsHighest, k

LEMMA QuotientNear ==
  ASSUME NEW a \in Nat, NEW b \in Nat, b > 0, NEW top \in Nat, a <= top * b,
         NEW i \in QuotientDoubles(a, b, top)
  PROVE  \E k : Near(i, k, a, b)
<1> DEFINE K == Precision
           k == Highest(a, b, 1, 0, top)
           x == Highest(a, b, K, k * K, (k + 1) * K)
<1>1. K \in Nat /\ K > 0
  BY ReserveAssumption
<1>2. i \in x - (0 + k + 1) .. x + 1 + (0 + k + 1)
  BY Zenon DEF QuotientDoubles
<1> HIDE DEF K
<1>3. /\ k \in 0 .. top /\ k * b <= 1 * a
      /\ \A n \in 0 .. top : n * b <= 1 * a => n <= k
  <2>1. 0 * b <= 1 * a /\ 0 <= top /\ 0 \in Nat /\ 1 \in Nat
    OBVIOUS
  <2>2. IsHighest(k, a, b, 1, 0, top)
    BY <2>1, HighestIs
  <2> HIDE DEF k
  <2> QED BY <2>2 DEF IsHighest
<1>4. ~ ((k + 1) * b <= a)
  <2> HIDE DEF k
  <2> SUFFICES ASSUME (k + 1) * b <= a PROVE FALSE
    OBVIOUS
  <2>1. k + 1 <= top
    <3>1. (k + 1) * b <= top * b
      BY <1>3
    <3> QED BY <1>3, <3>1, TimesCancels
  <2> QED BY <1>3, <2>1
<1> HIDE DEF k
<1> DEFINE low == k * K
           high == (k + 1) * K
<1>5. low \in Nat /\ high \in Nat /\ low <= high /\ high = low + K
  BY <1>1, <1>3
<1>6. low * b = (k * b) * K /\ high * b = ((k + 1) * b) * K
  BY <1>1, <1>3
<1>7. low * b <= K * a
  <2>1. (k * b) * K <= a * K
    BY <1>1, <1>3, TimesGrows
  <2> QED BY <1>1, <1>3, <1>6, <2>1
<1>8. high * b > K * a
  <2>1. (a + 1) * K <= ((k + 1) * b) * K
    BY <1>1, <1>3, <1>4, TimesGrows
  <2>2. (a + 1) * K = K * a + K
    BY <1>1
  <2> QED BY <1>1, <1>3, <1>6, <2>1, <2>2
<1> HIDE DEF low, high, x
<1>9. /\ x \in low .. high /\ x * b <= K * a
      /\ \A n \in low .. high : n * b <= K * a => n <= x
  <2>1. IsHighest(Highest(a, b, K, low, high), a, b, K, low, high)
    BY <1>1, <1>5, <1>7, HighestIs
  <2>2. x = Highest(a, b, K, low, high)
    BY Zenon DEF x, low, high
  <2> QED BY <2>1, <2>2 DEF IsHighest
<1>10. x # high
  BY <1>1, <1>5, <1>8, <1>9
<1>11. K * a <= (x + 1) * b
  <2>1. x + 1 \in low .. high /\ ~ (x + 1 <= x)
    BY <1>5, <1>9, <1>10
  <2>2. (x + 1) * b \in Int /\ K * a \in Int
    BY <1>1, <2>1, <1>5
  <2> QED BY <1>9, <2>1, <2>2
<1>12. x \in Nat /\ k \in Nat /\ i \in Int
  BY <1>2, <1>3, <1>5, <1>9
<1>13. i - k - 2 <= x /\ x + 1 <= i + k + 2
  BY <1>2, <1>12
<1>14. (i - k - 2) * b <= x * b /\ (x + 1) * b <= (i + k + 2) * b
  BY <1>12, <1>13, TimesGrows
<1>15. (i - k - 2) * b <= a * K /\ a * K <= (i + k + 2) * b
  <2>1. K * a = a * K /\ a * K \in Int /\ (i - k - 2) * b \in Int /\ x * b \in Int
        /\ (x + 1) * b \in Int /\ (i + k + 2) * b \in Int
    BY <1>1, <1>12
  <2> QED BY <1>9, <1>11, <1>14, <2>1
<1>16. i <= high + k + 2
  BY <1>5, <1>9, <1>12, <1>13
<1>17. Near(i, k, a, b)
  BY <1>3, <1>12, <1>15, <1>16 DEF Near, K, high
<1> QED BY <1>17

LEMMA BuyNear ==
  ASSUME NEW t, RateOK(t), NEW q \in Nat, NEW i \in BuyDoubles(t, q)
  PROVE  \E k : Near(i, k, q * Rate(t)[2], Rate(t)[1])
<1> DEFINE a == q * Rate(t)[2]
           b == Rate(t)[1]
           top == Rate(t)[2] * q
<1>1. /\ a \in Nat /\ b \in Nat /\ b > 0 /\ top \in Nat /\ top = a
      /\ Rate(t)[2] \in Nat
  BY DEF RateOK
<1>2. \A n, m \in Int : BoughtAtRate(t, q, n, m) = m * a - n * b
  <2>1. \A m \in Int : m * q * Rate(t)[2] = m * (q * Rate(t)[2])
    BY <1>1
  <2> QED BY <2>1 DEF BoughtAtRate
<1> DEFINE Lower(m, low, high) ==
             Max({low} \cup {n \in low .. high : BoughtAtRate(t, q, n, m) >= 0})
<1>3. \A m \in Int : \A low, high : Lower(m, low, high) = Highest(a, b, m, low, high)
  <2> SUFFICES ASSUME NEW m \in Int, NEW low, NEW high
               PROVE  Lower(m, low, high) = Highest(a, b, m, low, high)
    OBVIOUS
  <2>1. {n \in low .. high : BoughtAtRate(t, q, n, m) >= 0}
          = {n \in low .. high : m * a - n * b >= 0}
    <3> HIDE DEF a, b
    <3> QED BY <1>2
  <2> QED BY <2>1, Zenon DEF Highest
<1>4. i \in LET k   == Lower(1, 0, top)
                x   == Lower(Precision, k * Precision, (k + 1) * Precision)
                off == 0 + k + 1
            IN  {j \in x - off .. x + 1 + off : j >= 0}
  BY Zenon DEF BuyDoubles, Doubles, Below
<1> HIDE DEF Lower, a, b, top
<1>5. 1 \in Int /\ Precision \in Int
  BY ReserveAssumption
<1>6. i \in QuotientDoubles(a, b, top)
  BY <1>3, <1>4, <1>5, Zenon DEF QuotientDoubles
<1>7. a <= top * b
  <2>1. a * 1 <= a * b
    BY <1>1
  <2> QED BY <1>1, <2>1
<1> QED BY <1>1, <1>6, <1>7, QuotientNear DEF a, b

(* In the digits of the connected token.                                    *)
LEMMA SaleNear ==
  ASSUME NEW t, RateOK(t), NEW v \in Nat, NEW i \in SaleDoubles(t, v, OnPar)
  PROVE  \E k : Near(i, k, v * Rate(t)[1], Rate(t)[2])
<1> DEFINE a == v * Rate(t)[1]
           b == Rate(t)[2]
           top == v * Rate(t)[1] * OnPar[1]
<1>1. /\ a \in Nat /\ b \in Nat /\ b > 0 /\ top \in Nat /\ top = a
      /\ Rate(t)[1] \in Nat
  BY DEF RateOK, OnPar
<1>2. \A n, m \in Int : PriceAtRate(t, v, OnPar, n, m) = m * a - n * b
  <2>1. \A m \in Int : m * v * Rate(t)[1] * 1 = m * (v * Rate(t)[1])
    BY <1>1
  <2>2. \A n \in Int : n * Rate(t)[2] * 1 = n * Rate(t)[2]
    BY <1>1
  <2> QED BY <2>1, <2>2 DEF PriceAtRate, OnPar
<1> DEFINE Lower(m, low, high) ==
             Max({low} \cup {n \in low .. high : PriceAtRate(t, v, OnPar, n, m) >= 0})
<1>3. \A m \in Int : \A low, high : Lower(m, low, high) = Highest(a, b, m, low, high)
  <2> SUFFICES ASSUME NEW m \in Int, NEW low, NEW high
               PROVE  Lower(m, low, high) = Highest(a, b, m, low, high)
    OBVIOUS
  <2>1. {n \in low .. high : PriceAtRate(t, v, OnPar, n, m) >= 0}
          = {n \in low .. high : m * a - n * b >= 0}
    <3> HIDE DEF a, b
    <3> QED BY <1>2
  <2> QED BY <2>1, Zenon DEF Highest
<1>4. i \in LET k   == Lower(1, 0, top)
                x   == Lower(Precision, k * Precision, (k + 1) * Precision)
                off == 0 + k + 1
            IN  {j \in x - off .. x + 1 + off : j >= 0}
  BY Zenon DEF SaleDoubles, Doubles, Below
<1> HIDE DEF Lower, a, b, top
<1>5. 1 \in Int /\ Precision \in Int
  BY ReserveAssumption
<1>6. i \in QuotientDoubles(a, b, top)
  BY <1>3, <1>4, <1>5, Zenon DEF QuotientDoubles
<1>7. a <= top * b
  <2>1. a * 1 <= a * b
    BY <1>1
  <2> QED BY <1>1, <2>1
<1> QED BY <1>1, <1>6, <1>7, QuotientNear DEF a, b

(* The arithmetic of a sale: u whole units are paid for s, which is what is *)
(* used of v, and c comes back as the share, at the rate of r for b.        *)
LEMMA SaleSlack ==
  ASSUME NEW K \in Nat, NEW i \in Nat, NEW k \in Nat, NEW u \in Nat,
         u > 0, u * K <= i, i < (u + 1) * K, u <= k + 2, 4 * k + 10 <= K
  PROVE  (u - 1) * (K * K * K * i) <= (i - k - 2) * ((u * K * K - 2 * i) * (K - 1))
<1> DEFINE g == u * K * K - 2 * i
           m == i - k - 2
<1>1. g \in Int /\ m \in Int /\ K - 1 \in Nat
  OBVIOUS
<1>2. i * K <= (u + 1) * K * K
  <2>1. i <= (u + 1) * K
    OBVIOUS
  <2> QED BY <2>1, TimesGrows
<1>3. u * K * K <= i * K
  OBVIOUS
<1> QED OBVIOUS

LEMMA SaleLoss ==
  ASSUME NEW K \in Nat, NEW a \in Nat, NEW b \in Nat, b > 0, NEW r \in Nat, NEW v \in Nat,
         a = v * r,
         NEW i \in Nat, NEW k \in Nat, NEW u \in Nat, NEW s \in Int, NEW c \in Int,
         u > 0, u * K <= i, i < (u + 1) * K, u <= k + 2, 4 * k + 10 <= K,
         (i - k - 2) * b <= a * K,
         s * (i * K) >= v * (u * K * K - 2 * i),
         (c + 1) * (b * K) > s * r * (K - 1)
  PROVE  c >= u - 1
<1> DEFINE g == u * K * K - 2 * i
           m == i - k - 2
           h == K - 1
           p == K * K * K * i
<1>1. (u - 1) * p <= m * (g * h)
  BY SaleSlack
<1>2. /\ g \in Nat /\ m \in Int /\ h \in Nat /\ p \in Nat /\ p > 0 /\ i * K \in Nat /\ K > 0
      /\ i > 0
  <2>1. i > 0 /\ K > 0
    OBVIOUS
  <2>2. u * K * K - 2 * i >= 0
    <3>1. 2 * i <= 4 * u * K
      OBVIOUS
    <3>2. 4 * (u * K) <= K * (u * K)
      BY TimesGrows
    <3> QED BY <3>1, <3>2
  <2>3. K * K * K > 0
    BY <2>1
  <2>4. K * K * K * i > 0
    BY <2>1, <2>3
  <2> QED BY <2>1, <2>2, <2>4
<1> SUFFICES ASSUME c + 1 <= u - 1 PROVE FALSE
  OBVIOUS
<1> HIDE DEF g, m, h, p
<1>3. (c + 1) * p <= m * (g * h)
  <2>1. (c + 1) * p <= (u - 1) * p
    BY <1>2, TimesGrows
  <2> QED BY <1>1, <1>2, <2>1
<1>4. (m * b) * (g * h) <= (a * K) * (g * h)
  BY <1>2, TimesGrows DEF m
<1>5. (a * K) * (g * h) = (v * g) * (r * h * K)
  BY <1>2
<1>6. (v * g) * (r * h * K) <= (s * (i * K)) * (r * h * K)
  <2>1. v * g <= s * (i * K)
    BY DEF g
  <2>2. r * h * K \in Nat /\ v * g \in Int /\ s * (i * K) \in Int
    BY <1>2
  <2> QED BY <2>1, <2>2, TimesGrows
<1>7. (s * (i * K)) * (r * h * K) = (s * r * h) * (i * K * K)
  BY <1>2
<1>8. (s * r * h) * (i * K * K) < ((c + 1) * (b * K)) * (i * K * K)
  <2>1. s * r * h < (c + 1) * (b * K)
    BY DEF h
  <2>2. i * K * K \in Nat /\ i * K * K > 0
    BY <1>2
  <2> DEFINE x == s * r * h
             y == (c + 1) * (b * K)
             z == i * K * K
  <2>3. x \in Int /\ y \in Int
    BY <1>2
  <2> HIDE DEF x, y, z
  <2>4. x < y /\ z \in Nat /\ z > 0
    BY <2>1, <2>2 DEF x, y, z
  <2>5. x * z < y * z
    BY <2>3, <2>4
  <2> QED BY <2>5 DEF x, y, z
<1>9. ((c + 1) * (b * K)) * (i * K * K) = ((c + 1) * p) * b
  BY <1>2 DEF p
<1>10. ((c + 1) * p) * b <= (m * (g * h)) * b
  BY <1>2, <1>3, TimesGrows
<1>11. (m * (g * h)) * b = (m * b) * (g * h)
  BY <1>2
<1> QED BY <1>2, <1>4, <1>5, <1>6, <1>7, <1>8, <1>9, <1>10, <1>11

(* The same where w is named: s smart tokens are taken for u of it, and c   *)
(* comes back.                                                              *)
LEMMA PurchaseLoss ==
  ASSUME NEW K \in Nat, NEW b \in Nat, b > 0, NEW r \in Nat, r > 0, NEW w \in Nat,
         NEW i \in Nat, NEW k \in Nat, NEW s \in Nat, NEW u \in Int, NEW c \in Int,
         s > 0, s * K <= i, s <= k + 2, k * r <= w * b,
         4 * k + 8 <= K, 8 * w <= K,
         (i - k - 2) * r <= w * b * K, w * b * K <= (i + k + 2) * r,
         u * (i * K) <= i * K + w * s * K * K + 2 * w * i,
         (c + 1) * (b * K) > s * r * (K - 1)
  PROVE  c >= u - 2
<1> DEFINE a == w * b
           q == i * K
<1>1. a \in Nat /\ i >= K /\ i > 0 /\ K > 0 /\ q \in Nat /\ q > 0
  <2>1. i >= K
    BY TimesGrows
  <2>2. K > 0
    OBVIOUS
  <2>3. i * K > 0
    BY <2>1, <2>2
  <2> QED BY <2>1, <2>2, <2>3
<1> HIDE DEF a, q
<1>2. 3 * r <= 4 * a
  <2>1. (K - k - 2) * r <= a * K
    <3>1. (K - k - 2) * r <= (i - k - 2) * r
      BY <1>1, TimesGrows
    <3> QED BY <1>1, <3>1 DEF a
  <2>2. (3 * K) * r <= (4 * (K - k - 2)) * r
    BY TimesGrows
  <2>3. (3 * r) * K <= (4 * a) * K
    BY <1>1, <2>1, <2>2
  <2> QED BY <1>1, <2>3, TimesCancels
<1>3. (k + 2) * r <= 4 * a
  <2>1. (k + 2) * r = k * r + 2 * r /\ k * r \in Int
    OBVIOUS
  <2> QED BY <1>1, <1>2, <2>1 DEF a
<1>4. s * r <= 2 * a
  <2>1. (s * K) * r <= i * r
    BY TimesGrows
  <2>2. i * r <= a * K + 4 * a
    BY <1>1, <1>3 DEF a
  <2>3. 4 * a <= K * a
    BY <1>1, TimesGrows
  <2>4. (s * r) * K <= (2 * a) * K
    BY <1>1, <2>1, <2>2, <2>3
  <2> QED BY <1>1, <2>4, TimesCancels
<1> SUFFICES ASSUME c + 1 <= u - 2 PROVE FALSE
  OBVIOUS
<1>5. (s * r) * ((K - 1) * q) < (u - 2) * (b * K * q)
  <2> DEFINE x == s * r * (K - 1)
             y == (c + 1) * (b * K)
             z == (u - 2) * (b * K)
  <2>1. x \in Int /\ y \in Int /\ z \in Int /\ x < y
    BY <1>1
  <2>2. y <= z
    <3>1. b * K \in Nat
      OBVIOUS
    <3> QED BY <3>1, TimesGrows
  <2> HIDE DEF x, y, z
  <2>3. x < z
    BY <2>1, <2>2
  <2>4. x * q < z * q
    BY <1>1, <2>1, <2>3
  <2>5. x * q = (s * r) * ((K - 1) * q) /\ z * q = (u - 2) * (b * K * q)
    BY <1>1 DEF x, z
  <2> QED BY <2>4, <2>5
<1>6. (u - 2) * q <= w * (s * K * K + 2 * i) - q
  <2>1. (u - 2) * q = u * q - 2 * q
    BY <1>1
  <2>2. w * (s * K * K + 2 * i) = w * s * K * K + 2 * w * i
    BY <1>1
  <2>3. u * q \in Int /\ w * s * K * K \in Int /\ 2 * w * i \in Int
    BY <1>1
  <2>4. u * q <= q + w * s * K * K + 2 * w * i
    BY DEF q
  <2> QED BY <1>1, <2>1, <2>2, <2>3, <2>4
<1>7. (u - 2) * (b * K * q) <= (s * K * K + 2 * i) * (a * K) - q * (b * K)
  <2> DEFINE x == (u - 2) * q
             y == w * (s * K * K + 2 * i) - q
             z == b * K
  <2>1. x \in Int /\ y \in Int /\ z \in Nat
    BY <1>1
  <2>2. x * z <= y * z
    <3> HIDE DEF x, y, z
    <3> QED BY <1>6, <2>1, TimesGrows DEF x, y
  <2>3. x * z = (u - 2) * (b * K * q)
    BY <1>1
  <2>4. y * z = (s * K * K + 2 * i) * (a * K) - q * (b * K)
    BY <1>1 DEF a
  <2> QED BY <2>2, <2>3, <2>4
<1>8. (s * K * K) * (a * K) <= (s * K * K) * ((i + k + 2) * r)
  <2>1. s * K * K \in Nat /\ a * K \in Int /\ (i + k + 2) * r \in Int
    BY <1>1
  <2>2. a * K <= (i + k + 2) * r
    BY DEF a
  <2> QED BY <2>1, <2>2, TimesGrows
<1>9. (s * K * K) * ((i + k + 2) * r) = (s * r) * (K * q) + (s * K) * (K * ((k + 2) * r))
  BY <1>1 DEF q
<1>10. (s * r) * ((K - 1) * q) = (s * r) * (K * q) - (s * r) * q
  BY <1>1
<1>11. (s * K) * (K * ((k + 2) * r)) <= q * (4 * a)
  <2>1. (s * K) * (K * ((k + 2) * r)) <= i * (K * ((k + 2) * r))
    <3>1. K * ((k + 2) * r) \in Nat
      OBVIOUS
    <3> QED BY <3>1, TimesGrows
  <2>2. i * (K * ((k + 2) * r)) = ((k + 2) * r) * q
    BY DEF q
  <2>3. ((k + 2) * r) * q <= (4 * a) * q
    BY <1>1, <1>3, TimesGrows
  <2> QED BY <1>1, <2>1, <2>2, <2>3
<1>12. (s * r) * q <= (2 * a) * q
  BY <1>1, <1>4, TimesGrows
<1>13. (2 * i) * (a * K) = (2 * a) * q
  BY <1>1 DEF q
<1>14. q * (b * K) >= (8 * a) * q
  <2>1. 8 * w * (b * q) <= K * (b * q)
    <3>1. b * q \in Nat
      BY <1>1
    <3> QED BY <3>1, TimesGrows
  <2> QED BY <1>1, <2>1 DEF a
<1>15. (s * K * K + 2 * i) * (a * K) = (s * K * K) * (a * K) + (2 * i) * (a * K)
  BY <1>1
<1> DEFINE e1 == (s * r) * (K * q)
           e2 == (s * r) * q
           e3 == (s * K * K) * (a * K)
           e4 == (s * K) * (K * ((k + 2) * r))
           e5 == a * q
           e6 == q * (b * K)
           e7 == (u - 2) * (b * K * q)
<1>16. /\ e1 \in Int /\ e2 \in Int /\ e3 \in Int /\ e4 \in Int /\ e5 \in Int /\ e6 \in Int
       /\ e7 \in Int /\ (2 * a) * q = 2 * e5 /\ q * (4 * a) = 4 * e5 /\ (8 * a) * q = 8 * e5
  BY <1>1
<1>17. /\ e1 - e2 < e7 /\ e7 <= e3 + 2 * e5 - e6 /\ e3 <= e1 + e4 /\ e4 <= 4 * e5
       /\ e2 <= 2 * e5 /\ e6 >= 8 * e5
  BY <1>5, <1>7, <1>8, <1>9, <1>10, <1>11, <1>12, <1>13, <1>14, <1>15, <1>16
<1> HIDE DEF e1, e2, e3, e4, e5, e6, e7
<1> QED BY <1>16, <1>17

(* As long as doubles carry the amounts, what they are worth and the rate.  *)
AmountsAreCarried ==
  \A v \in Amounts :
    /\ 8 * v <= Precision
    /\ \A offer \in Backings : offer.underlying > 0 =>
         /\ 4 * v * offer.underlying + 10 * offer.derivative <= Precision * offer.derivative
         /\ 4 * v * offer.derivative + 8 * offer.underlying <= Precision * offer.underlying

LEMMA RateCarried ==
  ASSUME AmountsAreCarried, NEW t, RateOK(t), NEW v \in Amounts
  PROVE  /\ v \in Nat /\ 8 * v <= Precision
         /\ 4 * (v * Rate(t)[1]) + 10 * Rate(t)[2] <= Precision * Rate(t)[2]
         /\ 4 * (v * Rate(t)[2]) + 8 * Rate(t)[1] <= Precision * Rate(t)[1]
<1>1. PICK offer \in Backings : Rate(t) = <<offer.underlying, offer.derivative>>
  BY DEF RateOK
<1> DEFINE r == Rate(t)[1]
           d == Rate(t)[2]
<1>2. /\ r = offer.underlying /\ d = offer.derivative
      /\ r \in Nat /\ r > 0 /\ d \in Nat /\ v \in Nat
  BY <1>1, Domains DEF RateOK
<1>3. /\ 8 * v <= Precision /\ 4 * v * r + 10 * d <= Precision * d
      /\ 4 * v * d + 8 * r <= Precision * r
  BY <1>2, Zenon DEF AmountsAreCarried
<1> HIDE DEF r, d
<1>4. 4 * v * r = 4 * (v * r) /\ 4 * v * d = 4 * (v * d)
  BY <1>2
<1> QED BY <1>2, <1>3, <1>4 DEF r, d

LEMMA NearWhole ==
  ASSUME NEW i \in Nat, NEW k, NEW a \in Nat, NEW b \in Nat, b > 0, Near(i, k, a, b),
         NEW m \in Nat, 4 * a + m * b <= Precision * b, m >= 4
  PROVE  /\ k \in Nat /\ 4 * k + m <= Precision /\ Whole(i) <= k + 2
<1> DEFINE K == Precision
           u == Whole(i)
<1>1. K \in Nat /\ K > 0 /\ k \in Nat /\ k * b <= a /\ i <= (k + 1) * K + k + 2
  BY ReserveAssumption DEF Near
<1>2. u \in Nat /\ u * K <= i
  BY WholeIs
<1> HIDE DEF K, u
<1>3. 4 * k + m <= K
  <2>1. (4 * k + m) * b <= K * b
    <3>1. (4 * k + m) * b = 4 * (k * b) + m * b /\ k * b \in Int /\ m * b \in Int /\ K * b \in Int
      BY <1>1
    <3>2. 4 * a + m * b <= K * b
      BY DEF K
    <3> QED BY <1>1, <3>1, <3>2
  <2>2. 4 * k + m \in Int
    BY <1>1
  <2> QED BY <1>1, <2>1, <2>2, TimesCancels
<1>4. u <= k + 2
  <2> SUFFICES ASSUME k + 3 <= u PROVE FALSE
    BY <1>1, <1>2
  <2>1. (k + 3) * K <= u * K
    BY <1>1, <1>2, TimesGrows
  <2>2. (k + 3) * K = (k + 1) * K + 2 * K /\ (k + 1) * K \in Int /\ u * K \in Int
    BY <1>1, <1>2
  <2>3. k + 2 < 2 * K
    BY <1>1, <1>3
  <2> QED BY <1>1, <1>2, <2>1, <2>2, <2>3
<1> QED BY <1>1, <1>3, <1>4 DEF K, u

(* A share is no more than a unit below the payment it is made for ...      *)
LEMMA SaleCovered ==
  ASSUME AmountsAreCarried, NEW t, RateOK(t), Rate(t) \in Nat \X (Nat \ {0}),
         NEW v \in Amounts, NEW out \in Cuts(SaleDoubles(t, v, OnPar), v, 0),
         NEW smart \in out.used, NEW share \in Share(smart, Rate(t))
  PROVE  share >= out.units - 1
<1> DEFINE r == Rate(t)[1]
           b == Rate(t)[2]
           a == v * r
           K == Precision
<1>1. PICK i \in SaleDoubles(t, v, OnPar) :
        /\ Whole(i) > 0 /\ out = [units |-> Whole(i), used |-> Part(v, i), kept |-> Part(0, i)]
  BY Zenon DEF Cuts
<1>2. /\ v \in Nat /\ 4 * a + 10 * b <= K * b
      /\ r \in Nat /\ b \in Nat /\ b > 0 /\ K \in Nat /\ K > 0 /\ i \in Nat
  <2>1. i \in Nat
    <3>1. SaleDoubles(t, v, OnPar) \subseteq Nat
      BY DoublesNat
    <3> QED BY <1>1, <3>1
  <2>2. r \in Nat /\ r > 0 /\ b \in Nat /\ b > 0 /\ K \in Nat /\ K > 0
    BY ReserveAssumption DEF RateOK
  <2>3. /\ v \in Nat /\ 8 * v <= K /\ 4 * (v * r) + 10 * b <= K * b
        /\ 4 * (v * b) + 8 * r <= K * r
    BY RateCarried
  <2> HIDE DEF r, b, K
  <2> QED BY <2>1, <2>2, <2>3
<1>3. PICK k : Near(i, k, a, b)
  BY <1>2, SaleNear
<1>4. a \in Nat
  <2> HIDE DEF r
  <2> QED BY <1>2
<1> HIDE DEF r, a, b, K
<1> DEFINE u == Whole(i)
<1>5. k \in Nat /\ 4 * k + 10 <= K /\ u <= k + 2
  <2>1. 4 * a + 10 * b <= Precision * b /\ 10 \in Nat /\ 10 >= 4
    BY <1>2 DEF K
  <2> QED BY <1>2, <1>3, <1>4, <2>1, NearWhole DEF K
<1>6. u \in Nat /\ u > 0 /\ u * K <= i /\ i < (u + 1) * K
  BY <1>1, <1>2, WholeIs DEF K
<1>7. i > 0
  <2>1. u * K > 0
    BY <1>2, <1>6
  <2> QED BY <1>2, <1>6, <2>1
<1>8. /\ smart \in Nat
      /\ smart * (i * K) >= v * (u * K * K - 2 * i)
  <2>1. smart \in Part(v, i)
    BY <1>1
  <2> HIDE DEF u
  <2> QED BY <1>2, <1>6, <1>7, <2>1, PartNear DEF K, u
<1>9. (i - k - 2) * b <= a * K
  BY <1>3 DEF Near, K
<1>10. share \in Int /\ (share + 1) * (b * K) > smart * r * (K - 1)
  BY <1>8, ShareAbove DEF b, r, K
<1> HIDE DEF u
<1>11. a = v * r
  BY DEF a
<1>12. share >= u - 1
  BY <1>2, <1>4, <1>5, <1>6, <1>8, <1>9, <1>10, <1>11, SaleLoss
<1>13. out.units = u
  BY <1>1 DEF u
<1> QED BY <1>12, <1>13

(* ... and two below one that is named.                                     *)
LEMMA PurchaseCovered ==
  ASSUME AmountsAreCarried, NEW t, RateOK(t), Rate(t) \in Nat \X (Nat \ {0}),
         NEW w \in Amounts, NEW out \in Cuts(BuyDoubles(t, w), w, 0),
         NEW paid \in out.used, NEW share \in Share(out.units, Rate(t))
  PROVE  share >= paid - 2
<1> DEFINE r == Rate(t)[1]
           b == Rate(t)[2]
           a == w * b
           K == Precision
<1>1. PICK i \in BuyDoubles(t, w) :
        /\ Whole(i) > 0 /\ out = [units |-> Whole(i), used |-> Part(w, i), kept |-> Part(0, i)]
  BY Zenon DEF Cuts
<1>2. /\ w \in Nat /\ 8 * w <= K /\ 4 * a + 8 * r <= K * r
      /\ r \in Nat /\ r > 0 /\ b \in Nat /\ b > 0 /\ K \in Nat /\ K > 0 /\ i \in Nat
  <2>1. i \in Nat
    <3>1. BuyDoubles(t, w) \subseteq Nat
      BY DoublesNat
    <3> QED BY <1>1, <3>1
  <2>2. r \in Nat /\ r > 0 /\ b \in Nat /\ b > 0 /\ K \in Nat /\ K > 0
    BY ReserveAssumption DEF RateOK
  <2>3. /\ w \in Nat /\ 8 * w <= K /\ 4 * (w * r) + 10 * b <= K * b
        /\ 4 * (w * b) + 8 * r <= K * r
    BY RateCarried
  <2> HIDE DEF r, b, K
  <2> QED BY <2>1, <2>2, <2>3
<1>3. PICK k : Near(i, k, a, r)
  BY <1>2, BuyNear
<1>4. a \in Nat
  <2> HIDE DEF b
  <2> QED BY <1>2
<1> HIDE DEF r, a, b, K
<1> DEFINE s == Whole(i)
<1>5. k \in Nat /\ 4 * k + 8 <= K /\ s <= k + 2
  <2>1. 4 * a + 8 * r <= Precision * r /\ 8 \in Nat /\ 8 >= 4
    BY <1>2 DEF K
  <2> QED BY <1>2, <1>3, <1>4, <2>1, NearWhole DEF K
<1>6. s \in Nat /\ s > 0 /\ s * K <= i
  BY <1>1, <1>2, WholeIs DEF K
<1>7. i > 0
  <2>1. s * K > 0
    BY <1>2, <1>6
  <2> QED BY <1>2, <1>6, <2>1
<1>8. /\ paid \in Nat
      /\ paid * (i * K) <= i * K + w * s * K * K + 2 * w * i
  <2>1. paid \in Part(w, i)
    BY <1>1
  <2> HIDE DEF s
  <2> QED BY <1>2, <1>6, <1>7, <2>1, PartNear DEF K, s
<1>9. k * r <= a /\ (i - k - 2) * r <= a * K /\ a * K <= (i + k + 2) * r
  BY <1>3 DEF Near, K
<1>10. share \in Int /\ (share + 1) * (b * K) > s * r * (K - 1)
  <2>1. share \in Share(s, Rate(t))
    BY <1>1
  <2> HIDE DEF s
  <2> QED BY <1>6, <2>1, ShareAbove DEF b, r, K
<1> HIDE DEF s
<1>11. k * r <= w * b /\ (i - k - 2) * r <= w * b * K /\ w * b * K <= (i + k + 2) * r
  BY <1>9 DEF a
<1> QED BY <1>2, <1>5, <1>6, <1>8, <1>10, <1>11, PurchaseLoss

-----------------------------------------------------------------------------
(* Fees are never negative.                                                 *)

ChargeRates == 0 .. 1000
ChargeOK(c) == c.rate \in ChargeRates /\ c.fixed \in Nat

LEMMA RateBounds ==
  ASSUME NEW r \in ChargeRates, r # 0
  PROVE  r \in Nat /\ r > 0 /\ r <= 1000
BY DEF ChargeRates

LEMMA PartsInt ==
  ASSUME NEW c, ChargeOK(c), c.rate # 0
  PROVE  Parts(c) \in Nat /\ Parts(c) >= 10
<1> DEFINE r == c.rate
           q == 10000 \div r
<1>1. r \in Nat /\ r > 0 /\ r <= 1000
  BY RateBounds DEF ChargeOK
<1> HIDE DEF r
<1>2. q \in Int /\ 10000 % r \in 0 .. r - 1 /\ 10000 = r * q + (10000 % r)
  <2> DEFINE n == 10000
  <2>1. n \in Int
    OBVIOUS
  <2> HIDE DEF n
  <2>2. n \div r \in Int /\ n % r \in 0 .. r - 1 /\ n = r * (n \div r) + (n % r)
    BY <1>1, <2>1
  <2> QED BY <2>2 DEF n
<1>3. Parts(c) = q
  BY DEF Parts, r
<1> HIDE DEF q
<1>4. r * q >= 9001
  BY <1>1, <1>2
<1>5. q >= 10
  <2> SUFFICES ASSUME q <= 9 PROVE FALSE
    BY <1>2
  <2>1. r * (9 - q) >= 0 /\ r * (9 - q) = 9 * r - r * q
    BY <1>1, <1>2
  <2>2. r * q \in Int
    BY <1>1, <1>2
  <2> QED BY <1>1, <1>4, <2>1, <2>2
<1> QED BY <1>2, <1>3, <1>5

LEMMA AtLeastOneNat ==
  ASSUME NEW c, ChargeOK(c), NEW x \in Int, IsExempted(c) => x = 0
  PROVE  AtLeastOne(c, x) \in Nat
BY DEF AtLeastOne

LEMMA FeeNat ==
  ASSUME NEW c, ChargeOK(c), NEW v \in Nat
  PROVE  Fee(c, v) \in Nat
<1> DEFINE p == Parts(c)
           share == IF c.rate = 0 THEN 0 ELSE (v + p - 1) \div p
<1>1. share \in Int /\ c.fixed \in Nat
  <2>1. CASE c.rate = 0
    BY <2>1 DEF ChargeOK
  <2>2. CASE c.rate # 0
    <3>1. p \in Nat /\ p > 0
      BY <2>2, PartsInt
    <3> HIDE DEF p
    <3>2. v + p - 1 \in Int
      BY <3>1
    <3>3. (v + p - 1) \div p \in Int
      BY <3>1, <3>2
    <3> QED BY <2>2, <3>3 DEF ChargeOK
  <2> QED BY <2>1, <2>2
<1>2. Fee(c, v) = AtLeastOne(c, c.fixed + share)
  BY Zenon DEF Fee
<1>3. IsExempted(c) => c.fixed + share = 0
  BY DEF IsExempted
<1> HIDE DEF share
<1> QED BY <1>1, <1>2, <1>3, AtLeastOneNat

LEMMA RequiredFeeNat ==
  ASSUME NEW c, ChargeOK(c), NEW v \in Nat, NEW fee \in RequiredFee(c, v)
  PROVE  fee \in Nat
<1> DEFINE p == Parts(c)
           n == 10 * (v + c.fixed) * p + 9 * (p - 1)
           d == 10 * (p - 1)
<1>1. PICK share \in IF c.rate = 0 THEN {0} ELSE {m - v : m \in Cut(n, d)} :
        fee = AtLeastOne(c, c.fixed + share)
  BY Zenon DEF RequiredFee
<1>2. share \in Int /\ c.fixed \in Nat
  <2>1. CASE c.rate = 0
    BY <1>1, <2>1 DEF ChargeOK
  <2>2. CASE c.rate # 0
    <3>1. p \in Nat /\ p >= 10 /\ c.fixed \in Nat
      BY <2>2, PartsInt DEF ChargeOK
    <3>2. n \in Nat /\ d \in Nat /\ d > 0
      <4> HIDE DEF p
      <4> QED BY <3>1
    <3> HIDE DEF n, d
    <3>3. PICK m \in Cut(n, d) : share = m - v
      BY <1>1, <2>2
    <3>4. m \in Nat
      BY <3>2, <3>3, CutNat
    <3> QED BY <3>1, <3>3, <3>4
  <2> QED BY <2>1, <2>2
<1>3. IsExempted(c) => c.fixed + share = 0
  BY <1>1 DEF IsExempted
<1> QED BY <1>1, <1>2, <1>3, AtLeastOneNat

-----------------------------------------------------------------------------
(* Where the inline actions leave the balances.                             *)

At(a, b, v) == IF a = b THEN v ELSE 0

LEMMA BalanceNat ==
  ASSUME NEW L, LedgerOK(L)
  PROVE  \A a \in Accounts : L[a].bal \in Nat
BY DEF LedgerOK, Ledger, Row

LEMMA MovedBalances ==
  ASSUME NEW signers, NEW t, NEW L, LedgerOK(L), NEW from \in Accounts,
         NEW to \in Accounts, NEW v \in Nat,
         NEW M \in Moved(signers, t, L, from, to, v)
  PROVE  /\ from # to /\ LedgerOK(M)
         /\ \A a \in Accounts : M[a].bal = L[a].bal - At(a, from, v) + At(a, to, v)
<1>1. /\ from # to /\ LedgerOK(M) /\ Delta(L, M, from, - v, 0) /\ Delta(L, M, to, v, 0)
      /\ SameBut(L, M, {from, to})
  BY MovedRows
<1>2. ASSUME NEW a \in Accounts
      PROVE  M[a].bal = L[a].bal - At(a, from, v) + At(a, to, v)
  <2>1. L[a].bal \in Nat
    BY BalanceNat
  <2>2. CASE a = from
    BY <1>1, <2>1, <2>2 DEF Delta, At
  <2>3. CASE a = to
    BY <1>1, <2>1, <2>3 DEF Delta, At
  <2>4. CASE a # from /\ a # to
    BY <1>1, <2>1, <2>4 DEF SameBut, At
  <2> QED BY <2>2, <2>3, <2>4
<1> QED BY <1>1, <1>2

LEMMA TakenBalances ==
  ASSUME NEW L, LedgerOK(L), NEW a \in Accounts, NEW v \in Nat,
         NEW keep \in BOOLEAN, L[a].bal >= v, NEW M, M = SubBalance(L, a, v, keep)
  PROVE  LedgerOK(M) /\ \A b \in Accounts : M[b].bal = L[b].bal - At(b, a, v)
<1>1. LedgerOK(M) /\ Delta(L, M, a, - v, 0) /\ SameBut(L, M, {a})
  BY SubBalanceRow
<1>2. ASSUME NEW b \in Accounts
      PROVE  M[b].bal = L[b].bal - At(b, a, v)
  <2>1. L[b].bal \in Nat
    BY BalanceNat
  <2> QED BY <1>1, <2>1 DEF Delta, SameBut, At
<1> QED BY <1>1, <1>2

LEMMA GivenBalances ==
  ASSUME NEW L, LedgerOK(L), NEW a \in Accounts, NEW v \in Nat
  PROVE  LET M == AddBalance(L, a, v)
         IN  LedgerOK(M) /\ \A b \in Accounts : M[b].bal = L[b].bal + At(b, a, v)
<1> DEFINE M == AddBalance(L, a, v)
<1>1. LedgerOK(M) /\ Delta(L, M, a, v, 0) /\ SameBut(L, M, {a})
  BY AddBalanceRow
<1> HIDE DEF M
<1>2. ASSUME NEW b \in Accounts
      PROVE  M[b].bal = L[b].bal + At(b, a, v)
  <2>1. L[b].bal \in Nat
    BY BalanceNat
  <2> QED BY <1>1, <2>1 DEF Delta, SameBut, At
<1> QED BY <1>1, <1>2 DEF M

LEMMA Parties ==
  /\ Bancor \in Accounts /\ Reserve \in Accounts /\ Bancor # Reserve
  /\ Core \in Tokens /\ Smarts \subseteq Derivatives
  /\ \A t \in Smarts : t \in Tokens /\ t # Core /\ Issuer[t] \in Accounts /\ Issuer[t] # Bancor
  /\ IsFiniteSet(Smarts)
<1>1. Smarts \subseteq Tokens
  BY BancorAssumption, ReserveAssumption
<1>2. IsFiniteSet(Smarts)
  BY <1>1, Domains, FS_Subset
<1> QED BY <1>1, <1>2, BancorAssumption, ReserveAssumption, Domains

LEMMA PassedOnBalances ==
  ASSUME NEW L, LedgerOK(L), config.owner \in Accounts, NEW fee \in Nat,
         NEW M \in PassedOn(L, fee)
  PROVE  /\ fee > 0 => config.owner # Bancor
         /\ LedgerOK(M)
         /\ \A a \in Accounts :
              M[a].bal = L[a].bal - At(a, Bancor, fee) + At(a, config.owner, fee)
<1> DEFINE owner == config.owner
<1>1. CASE fee > 0
  <2>1. M \in Moved({Bancor}, Core, L, Bancor, owner, fee)
    BY <1>1 DEF PassedOn
  <2>2. Bancor \in Accounts /\ owner \in Accounts
    BY Parties
  <2> HIDE DEF owner
  <2>3. /\ Bancor # owner /\ LedgerOK(M)
        /\ \A a \in Accounts : M[a].bal = L[a].bal - At(a, Bancor, fee) + At(a, owner, fee)
    BY <2>1, <2>2, MovedBalances
  <2> QED BY <2>3 DEF owner
<1>2. CASE ~ (fee > 0)
  <2>1. M = L /\ fee = 0
    BY <1>2 DEF PassedOn
  <2>2. \A a \in Accounts : L[a].bal \in Nat
    BY BalanceNat
  <2> QED BY <2>1, <2>2 DEF At
<1> QED BY <1>1, <1>2

LEMMA CollectedBalances ==
  ASSUME Sound, NEW to \in Accounts, NEW t \in Tokens, NEW from \in Accounts,
         NEW v \in Nat, NEW M \in Collected(to, t, from, v)
  PROVE  /\ from # to /\ LedgerOK(M) /\ allowance[from][to][t] >= v
         /\ \A a \in Accounts : M[a].bal = row[t][a].bal - At(a, from, v) + At(a, to, v)
<1>1. M \in Moved({to}, t, row[t], from, to, v) /\ allowance[from][to][t] >= v
  BY DEF Collected
<1> QED BY <1>1, TableOK, MovedBalances

LEMMA IssuedBalances ==
  ASSUME Sound, NEW t \in Tokens, NEW to \in Accounts, NEW v \in Int,
         NEW M \in Issued(t, to, v)
  PROVE  /\ v > 0 /\ v <= stat[t].max - Supply(t) /\ stat[t].exists /\ LedgerOK(M)
         /\ \A a \in Accounts : M[a].bal = row[t][a].bal + At(a, to, v)
<1> DEFINE issuer == Issuer[t]
           P == AddBalance(row[t], issuer, v)
<1>1. /\ v > 0 /\ v <= stat[t].max - Supply(t) /\ stat[t].exists
      /\ M \in Moved({issuer}, t, P, issuer, to, v)
  BY DEF Issued
<1>2. issuer \in Accounts /\ v \in Nat
  BY <1>1, Domains
<1>3. LedgerOK(P) /\ \A a \in Accounts : P[a].bal = row[t][a].bal + At(a, issuer, v)
  BY <1>2, TableOK, GivenBalances
<1> HIDE DEF P, issuer
<1>4. LedgerOK(M) /\ \A a \in Accounts : M[a].bal = P[a].bal - At(a, issuer, v) + At(a, to, v)
  <2>1. M \in Moved({issuer}, t, P, issuer, to, v) /\ LedgerOK(P)
    BY <1>1, <1>3
  <2> QED BY <1>2, <2>1, MovedBalances
<1>5. ASSUME NEW a \in Accounts
      PROVE  M[a].bal = row[t][a].bal + At(a, to, v)
  <2>1. row[t][a].bal \in Nat /\ At(a, issuer, v) \in Int /\ At(a, to, v) \in Int
    BY TableOK, BalanceNat DEF At
  <2> QED BY <1>3, <1>4, <2>1
<1> QED BY <1>1, <1>4, <1>5

LEMMA RetiredBalances ==
  ASSUME NEW t, NEW L, LedgerOK(L), NEW v \in Nat, NEW M \in Retired(t, L, v)
  PROVE  LedgerOK(M) /\ \A a \in Accounts : M[a].bal = L[a].bal - At(a, Bancor, v)
<1>1. PICK keep \in StackFlag : M = SubBalance(L, Bancor, v, keep) /\ L[Bancor].bal >= v
  BY DEF Retired, CanSubBalance
<1>2. keep \in BOOLEAN /\ Bancor \in Accounts
  BY Domains, Parties
<1> QED BY <1>1, <1>2, TakenBalances

(* Where the account that signs for the issuer is the issuer.               *)
LEMMA BurntBalances ==
  ASSUME NEW t \in Tokens, NEW L, LedgerOK(L), NEW v \in Nat, NEW M \in Burnt(t, L, v)
  PROVE  /\ LedgerOK(M)
         /\ Basename[Issuer[t]] = Issuer[t] =>
              \A a \in Accounts : M[a].bal = L[a].bal - At(a, Reserve, v)
<1> DEFINE issuer == Basename[Issuer[t]]
           i == Issuer[t]
<1>1. i \in Accounts /\ issuer \in Accounts /\ Reserve \in Accounts
  BY ConstantsAssumption, ReserveAssumption
<1>2. PICK keep \in StackFlag, N \in Moved({Reserve}, t, L, Reserve, issuer, v) :
        M = SubBalance(N, i, v, keep) /\ CanSubBalance(t, N, i, v)
  BY DEF Burnt
<1>3. keep \in BOOLEAN /\ N[i].bal >= v
  BY <1>2, Domains DEF CanSubBalance
<1> HIDE DEF issuer, i
<1>4. /\ LedgerOK(N)
      /\ \A a \in Accounts : N[a].bal = L[a].bal - At(a, Reserve, v) + At(a, issuer, v)
  BY <1>1, MovedBalances
<1>5. LedgerOK(M) /\ \A a \in Accounts : M[a].bal = N[a].bal - At(a, i, v)
  BY <1>1, <1>2, <1>3, <1>4, TakenBalances
<1>6. ASSUME issuer = i, NEW a \in Accounts
      PROVE  M[a].bal = L[a].bal - At(a, Reserve, v)
  <2>1. L[a].bal \in Nat /\ At(a, Reserve, v) \in Int /\ At(a, i, v) \in Int
    BY BalanceNat DEF At
  <2> QED BY <1>4, <1>5, <1>6, <2>1
<1> QED BY <1>5, <1>6 DEF issuer, i

-----------------------------------------------------------------------------
(* The invariant: the tables have their types, and a connector without a    *)
(* record has no balance.                                                   *)

Charge == [exists : BOOLEAN, rate : ChargeRates, fixed : Nat]
Config == [exists : BOOLEAN, rate : ChargeRates, fixed : Nat, owner : Accounts]
Connector == [exists : BOOLEAN, balance : Int, factor : Nat]

Booked ==
  /\ Sound
  /\ config \in Config /\ charges \in [Smarts -> Charge]
  /\ connectors \in [Smarts -> Connector]
  /\ \A t \in Smarts : ~ connectors[t].exists => connectors[t].balance = 0
  /\ reserves \in ReserveTables
  /\ \A t \in Smarts : Reserved(t) => RateOK(t)

(* What a conversion does to the balances: the sender pays x system tokens  *)
(* (or is paid), gxc.bancor gets y, gxc.reserve pays z, and the owner gets  *)
(* the fee; the sender gets the smart tokens the supply grows by.           *)
Exchanged(sender, t, x, y, z, fee, smart) ==
  /\ \A a \in Accounts :
       row'[Core][a].bal = row[Core][a].bal - At(a, sender, x) + At(a, Bancor, y)
                             - At(a, Reserve, z) + At(a, config.owner, fee)
  /\ fee > 0 => config.owner # Bancor
  /\ Supply(t)' = Supply(t) + smart /\ smart # 0

Given(sender, t, smart) ==
  \A a \in Accounts : row'[t][a].bal = row[t][a].bal + At(a, sender, smart)

Spent(sender, u) == allowance[sender][Bancor][u] - allowance'[sender][Bancor][u]

-----------------------------------------------------------------------------
(* The three ways to pay.                                                   *)

Allowances == [Accounts -> [Accounts -> [Tokens -> Nat]]]

LEMMA TradeSound ==
  ASSUME Sound, NEW t \in Smarts, NEW B, LedgerOK(B), NEW L, LedgerOK(L),
         row' = [row EXCEPT ![Core] = B, ![t] = L], StatOK', Capped',
         allowance' \in Allowances, UNCHANGED <<req, deferred, now>>
  PROVE  Sound' /\ row'[Core] = B /\ row'[t] = L
<1>1. t \in Tokens /\ Core \in Tokens /\ t # Core
  BY Parties
<1>2. /\ row'[t] = L /\ row'[Core] = B
      /\ \A u \in Tokens \ {t, Core} : row'[u] = row[u]
      /\ row' = [u \in Tokens |-> row'[u]]
  BY <1>1 DEF Sound, TablesOK
<1>3. \A u \in Tokens : LedgerOK(row'[u])
  BY <1>1, <1>2 DEF Sound, TablesOK
<1>4. TablesOK(row')
  BY <1>2, <1>3 DEF TablesOK, LedgerOK
<1> QED BY <1>2, <1>4 DEF Sound, Allowances

LEMMA SupplyMoves ==
  ASSUME Sound, NEW t \in Smarts, stat[t].exists, NEW y \in Int, y <= stat[t].max,
         stat' = [stat EXCEPT ![t].supply = y]
  PROVE  StatOK' /\ Capped' /\ Supply(t)' = y
<1>1. t \in Tokens /\ stat[t] \in Stat /\ stat \in [Tokens -> Stat]
  BY Parties DEF Sound, StatOK
<1>2. /\ stat'[t] = [stat[t] EXCEPT !.supply = y]
      /\ \A u \in Tokens \ {t} : stat'[u] = stat[u]
      /\ stat' = [u \in Tokens |-> stat'[u]]
  BY <1>1
<1>3. stat'[t] \in Stat /\ stat'[t].exists /\ stat'[t].supply = y /\ stat'[t].max = stat[t].max
  BY <1>1, <1>2 DEF Stat
<1>4. StatOK'
  BY <1>2, <1>3 DEF Sound, StatOK
<1>5. Capped'
  BY <1>2, <1>3 DEF Sound, Capped
<1> QED BY <1>3, <1>4, <1>5 DEF Supply

LEMMA SpendSpent ==
  ASSUME Sound, NEW from \in Accounts, NEW t \in Tokens, NEW v \in Nat,
         allowance[from][Bancor][t] >= v, allowance' = Spend(from, Bancor, t, v)
  PROVE  allowance' \in Allowances /\ Spent(from, t) = v
<1>1. /\ allowance \in Allowances /\ Bancor \in Accounts
      /\ allowance[from][Bancor][t] \in Nat
  BY Parties DEF Sound, Allowances
<1>2. /\ allowance' \in Allowances
      /\ allowance'[from][Bancor][t] = allowance[from][Bancor][t] - v
  BY <1>1 DEF Spend, Allowances
<1> QED BY <1>1, <1>2 DEF Spent

LEMMA PayForSmartPays ==
  ASSUME Booked, NEW t \in Smarts, NEW sender \in Accounts, NEW core \in Nat,
         NEW fee \in Nat, NEW smart \in Int,
         PayForSmart(sender, t, core, fee, smart), UNCHANGED <<req, deferred, now>>
  PROVE  /\ Sound' /\ smart > 0 /\ sender # Bancor /\ reserves' = reserves
         /\ Exchanged(sender, t, core + fee, core, 0, fee, smart)
         /\ Given(sender, t, smart)
         /\ Spent(sender, Core) = core + fee /\ core + fee > 0
<1> DEFINE owner == config.owner
           x == core + fee
<1>1. /\ Sound /\ owner \in Accounts /\ x \in Nat /\ t \in Tokens /\ Core \in Tokens
      /\ t # Core /\ Bancor \in Accounts /\ Reserve \in Accounts
  BY Parties DEF Booked, Config
<1>2. /\ x > 0 /\ reserves' = reserves
      /\ allowance' = Spend(sender, Bancor, Core, x)
      /\ stat' = [stat EXCEPT ![t].supply = Supply(t) + smart]
  BY DEF PayForSmart, Supply
<1>3. PICK A \in Collected(Bancor, Core, sender, x) :
        \E B \in PassedOn(A, fee), L \in Issued(t, sender, smart) :
          row' = [row EXCEPT ![Core] = B, ![t] = L]
  BY DEF PayForSmart
<1>3a. PICK B \in PassedOn(A, fee), L \in Issued(t, sender, smart) :
         row' = [row EXCEPT ![Core] = B, ![t] = L]
  BY <1>3
<1>4. /\ sender # Bancor /\ LedgerOK(A) /\ allowance[sender][Bancor][Core] >= x
      /\ \A a \in Accounts :
           A[a].bal = row[Core][a].bal - At(a, sender, x) + At(a, Bancor, x)
  <2> HIDE DEF x
  <2> QED BY <1>1, CollectedBalances
<1>5. /\ fee > 0 => owner # Bancor
      /\ LedgerOK(B)
      /\ \A a \in Accounts : B[a].bal = A[a].bal - At(a, Bancor, fee) + At(a, owner, fee)
  BY <1>1, <1>4, PassedOnBalances
<1>6. /\ smart > 0 /\ smart <= stat[t].max - Supply(t) /\ stat[t].exists /\ LedgerOK(L)
      /\ \A a \in Accounts : L[a].bal = row[t][a].bal + At(a, sender, smart)
  BY <1>1, IssuedBalances
<1> HIDE DEF x, owner
<1>7. StatOK' /\ Capped' /\ Supply(t)' = Supply(t) + smart
  <2> DEFINE y == Supply(t) + smart
  <2>1. Supply(t) \in Int /\ stat[t].max \in Int
    BY <1>1 DEF Supply, Sound, StatOK, Stat
  <2>2. y \in Int /\ y <= stat[t].max /\ stat' = [stat EXCEPT ![t].supply = y]
    BY <1>2, <1>6, <2>1
  <2> HIDE DEF y
  <2>3. StatOK' /\ Capped' /\ Supply(t)' = y
    BY <1>1, <1>6, <2>2, SupplyMoves
  <2> QED BY <2>3 DEF y
<1>8. allowance' \in Allowances /\ Spent(sender, Core) = x
  BY <1>1, <1>2, <1>4, SpendSpent
<1>9. Sound' /\ row'[Core] = B /\ row'[t] = L
  BY <1>1, <1>3a, <1>5, <1>6, <1>7, <1>8, TradeSound
<1>10. ASSUME NEW a \in Accounts
       PROVE  row'[Core][a].bal = row[Core][a].bal - At(a, sender, x) + At(a, Bancor, core)
                                    - At(a, Reserve, 0) + At(a, owner, fee)
  <2>1. row[Core][a].bal \in Int
    BY <1>1, TableOK, BalanceNat
  <2>2. /\ At(a, sender, x) \in Int /\ At(a, owner, fee) \in Int /\ At(a, Reserve, 0) = 0
        /\ At(a, Bancor, x) - At(a, Bancor, fee) = At(a, Bancor, core)
        /\ At(a, Bancor, x) \in Int /\ At(a, Bancor, fee) \in Int /\ At(a, Bancor, core) \in Int
    BY <1>1 DEF At, x
  <2> QED BY <1>4, <1>5, <1>9, <2>1, <2>2
<1>11. Given(sender, t, smart)
  BY <1>6, <1>9 DEF Given
<1>12. Exchanged(sender, t, x, core, 0, fee, smart)
  BY <1>5, <1>6, <1>7, <1>10 DEF Exchanged, owner
<1> QED BY <1>2, <1>4, <1>6, <1>8, <1>9, <1>11, <1>12 DEF x

LEMMA GetPaidBalances ==
  ASSUME NEW A, LedgerOK(A), config.owner \in Accounts, NEW sender \in Accounts,
         NEW core \in Nat, NEW fee \in Nat, core - fee > 0,
         NEW B \in GetPaid(A, sender, core, fee)
  PROVE  /\ fee > 0 => config.owner # Bancor
         /\ sender # Bancor /\ LedgerOK(B)
         /\ \A a \in Accounts :
              B[a].bal = A[a].bal + At(a, sender, core - fee) - At(a, Bancor, core)
                           + At(a, config.owner, fee)
<1> DEFINE owner == config.owner
           x == core - fee
<1>1. x \in Nat /\ Bancor \in Accounts /\ owner \in Accounts
  BY Parties
<1>2. PICK P \in Moved({Bancor}, Core, A, Bancor, sender, x) : B \in PassedOn(P, fee)
  BY DEF GetPaid
<1>3. /\ sender # Bancor /\ LedgerOK(P)
      /\ \A a \in Accounts : P[a].bal = A[a].bal - At(a, Bancor, x) + At(a, sender, x)
  <2> HIDE DEF x
  <2> QED BY <1>1, <1>2, MovedBalances
<1>4. /\ fee > 0 => owner # Bancor
      /\ LedgerOK(B)
      /\ \A a \in Accounts : B[a].bal = P[a].bal - At(a, Bancor, fee) + At(a, owner, fee)
  BY <1>1, <1>2, <1>3, PassedOnBalances
<1> HIDE DEF owner
<1>5. ASSUME NEW a \in Accounts
      PROVE  B[a].bal = A[a].bal + At(a, sender, x) - At(a, Bancor, core) + At(a, owner, fee)
  <2>1. /\ A[a].bal \in Int /\ At(a, sender, x) \in Int /\ At(a, owner, fee) \in Int
        /\ At(a, Bancor, x) + At(a, Bancor, fee) = At(a, Bancor, core)
        /\ At(a, Bancor, x) \in Int /\ At(a, Bancor, fee) \in Int
        /\ At(a, Bancor, core) \in Int
    BY BalanceNat DEF At
  <2> HIDE DEF x
  <2> QED BY <1>3, <1>4, <2>1
<1> QED BY <1>3, <1>4, <1>5 DEF owner

(* Smart tokens given back leave the supply.                                *)
LEMMA SupplyShrinks ==
  ASSUME Sound, NEW t \in Smarts, stat[t].exists, NEW smart \in Nat,
         stat' = [stat EXCEPT ![t].supply = @ - smart]
  PROVE  StatOK' /\ Capped' /\ Supply(t)' = Supply(t) + (- smart)
<1> DEFINE y == Supply(t) - smart
<1>1. /\ Supply(t) \in Int /\ stat[t].max \in Int /\ stat[t].supply <= stat[t].max
      /\ y = Supply(t) + (- smart)
  BY Parties DEF Supply, Sound, StatOK, Stat, Capped
<1>2. y \in Int /\ y <= stat[t].max /\ stat' = [stat EXCEPT ![t].supply = y]
  BY <1>1 DEF Supply
<1> HIDE DEF y
<1>3. StatOK' /\ Capped' /\ Supply(t)' = y
  BY <1>2, SupplyMoves
<1> QED BY <1>1, <1>3

LEMMA PayFromCurvePays ==
  ASSUME Booked, NEW t \in Smarts, stat[t].exists, NEW sender \in Accounts,
         NEW core \in Nat, NEW fee \in Nat, NEW smart \in Nat,
         PayFromCurve(sender, t, core, fee, smart), UNCHANGED <<req, deferred, now>>
  PROVE  /\ Sound' /\ smart > 0 /\ sender # Bancor /\ reserves' = reserves
         /\ Exchanged(sender, t, - (core - fee), - core, 0, fee, - smart)
         /\ Given(sender, t, - smart)
         /\ Spent(sender, t) = smart
<1> DEFINE owner == config.owner
<1>1. /\ Sound /\ owner \in Accounts /\ t \in Tokens /\ Core \in Tokens
      /\ t # Core /\ Bancor \in Accounts /\ Reserve \in Accounts
  BY Parties DEF Booked, Config
<1>2. /\ smart > 0 /\ core - fee > 0 /\ reserves' = reserves
      /\ allowance' = Spend(sender, Bancor, t, smart)
      /\ stat' = [stat EXCEPT ![t].supply = @ - smart]
  BY DEF PayFromCurve
<1>3. PICK M \in Collected(Bancor, t, sender, smart) :
        \E L \in Retired(t, M, smart) : \E B \in GetPaid(row[Core], sender, core, fee) :
          row' = [row EXCEPT ![Core] = B, ![t] = L]
  BY DEF PayFromCurve
<1>4. PICK L \in Retired(t, M, smart), B \in GetPaid(row[Core], sender, core, fee) :
        row' = [row EXCEPT ![Core] = B, ![t] = L]
  BY <1>3
<1>5. /\ LedgerOK(M) /\ allowance[sender][Bancor][t] >= smart
      /\ \A a \in Accounts :
           M[a].bal = row[t][a].bal - At(a, sender, smart) + At(a, Bancor, smart)
  BY <1>1, CollectedBalances
<1>6. LedgerOK(L) /\ \A a \in Accounts : L[a].bal = M[a].bal - At(a, Bancor, smart)
  BY <1>5, RetiredBalances
<1>7. /\ fee > 0 => owner # Bancor
      /\ sender # Bancor /\ LedgerOK(B)
      /\ \A a \in Accounts :
           B[a].bal = row[Core][a].bal + At(a, sender, core - fee) - At(a, Bancor, core)
                        + At(a, owner, fee)
  BY <1>1, <1>2, TableOK, GetPaidBalances
<1> HIDE DEF owner
<1>8. StatOK' /\ Capped' /\ Supply(t)' = Supply(t) + (- smart)
  BY <1>1, <1>2, SupplyShrinks
<1>9. allowance' \in Allowances /\ Spent(sender, t) = smart
  BY <1>1, <1>2, <1>5, SpendSpent
<1>10. Sound' /\ row'[Core] = B /\ row'[t] = L
  BY <1>1, <1>4, <1>6, <1>7, <1>8, <1>9, TradeSound
<1>11. ASSUME NEW a \in Accounts
       PROVE  /\ row'[t][a].bal = row[t][a].bal + At(a, sender, - smart)
              /\ row'[Core][a].bal =
                   row[Core][a].bal - At(a, sender, - (core - fee)) + At(a, Bancor, - core)
                     - At(a, Reserve, 0) + At(a, owner, fee)
  <2>1. row[t][a].bal \in Int /\ row[Core][a].bal \in Int
    BY <1>1, TableOK, BalanceNat
  <2>2. /\ At(a, sender, smart) \in Int /\ At(a, Bancor, smart) \in Int
        /\ At(a, sender, - smart) = - At(a, sender, smart)
        /\ At(a, sender, core - fee) \in Int /\ At(a, Bancor, core) \in Int
        /\ At(a, sender, - (core - fee)) = - At(a, sender, core - fee)
        /\ At(a, Bancor, - core) = - At(a, Bancor, core)
        /\ At(a, owner, fee) \in Int /\ At(a, Reserve, 0) = 0
    BY DEF At
  <2>3. row'[t][a].bal = row[t][a].bal - At(a, sender, smart)
    BY <1>5, <1>6, <1>10, <2>1, <2>2
  <2>4. row'[Core][a].bal = row[Core][a].bal + At(a, sender, core - fee)
                              - At(a, Bancor, core) + At(a, owner, fee)
    BY <1>7, <1>10
  <2> QED BY <2>1, <2>2, <2>3, <2>4
<1>12. Given(sender, t, - smart)
  BY <1>11 DEF Given
<1>13. - smart # 0
  BY <1>2
<1>14. Exchanged(sender, t, - (core - fee), - core, 0, fee, - smart)
  BY <1>7, <1>8, <1>11, <1>13 DEF Exchanged, owner
<1> QED BY <1>2, <1>7, <1>9, <1>10, <1>12, <1>14

ReservesOK == reserves \in ReserveTables /\ \A t \in Smarts : Reserved(t) => RateOK(t)

LEMMA LessReservedKeeps ==
  ASSUME ReservesOK, NEW t \in Smarts, Reserved(t), NEW v \in Int, NEW c \in Int,
         LessReserved(t, v, c)
  PROVE  ReservesOK'
<1>1. /\ t \in Derivatives /\ Smarts \subseteq Derivatives /\ RateOK(t)
      /\ reserves \in [Derivatives -> Reserve0]
  BY Parties DEF ReservesOK, ReserveTables
<1>2. /\ \A u \in Derivatives \ {t} : reserves'[u] = reserves[u]
      /\ reserves'[t] = [reserves[t] EXCEPT !.derivative = @ - v, !.underlying = @ - c]
      /\ reserves' = [u \in Derivatives |-> reserves'[u]]
  BY <1>1 DEF LessReserved
<1>3. reserves'[t] \in Reserve0 /\ reserves'[t].rate = reserves[t].rate
  <2> DEFINE r == reserves[t]
  <2>1. r \in Reserve0
    BY <1>1
  <2> DEFINE d == r.derivative - v
             c1 == r.underlying - c
  <2>2. d \in Int /\ c1 \in Int
    BY <2>1 DEF Reserve0
  <2>3. reserves'[t] = [r EXCEPT !.derivative = d, !.underlying = c1]
    BY <1>2
  <2> HIDE DEF r, d, c1
  <2>4. reserves'[t] = [derivative |-> d, underlying |-> c1, rate |-> r.rate]
    BY <2>1, <2>3 DEF Reserve0
  <2>5. r.rate \in Nat \X (Nat \ {0})
    BY <2>1 DEF Reserve0
  <2>6. reserves'[t] \in Reserve0 /\ reserves'[t].rate = r.rate
    BY <2>2, <2>4, <2>5 DEF Reserve0
  <2> QED BY <2>6 DEF r
<1>4. reserves' \in ReserveTables
  BY <1>1, <1>2, <1>3 DEF ReserveTables
<1>5. \A u \in Smarts : Reserved(u)' => RateOK(u)'
  BY <1>1, <1>2, <1>3 DEF ReservesOK, Reserved, RateOK, Rate
<1> QED BY <1>4, <1>5 DEF ReservesOK

LEMMA PayFromReservePays ==
  ASSUME Booked, NEW t \in Smarts, stat[t].exists, Reserved(t), NEW sender \in Accounts,
         NEW core \in Nat, NEW fee \in Nat, NEW smart \in Nat,
         PayFromReserve(sender, t, core, fee, smart), UNCHANGED <<req, deferred, now>>
  PROVE  /\ Sound' /\ ReservesOK' /\ smart > 0 /\ sender # Bancor
         /\ \E share \in Share(smart, Rate(t)) :
              /\ Exchanged(sender, t, - (core - fee), share - core, share, fee, - smart)
              /\ LessReserved(t, smart, share)
         /\ Basename[Issuer[t]] = Issuer[t] => Given(sender, t, - smart)
         /\ Spent(sender, t) = smart
<1> DEFINE owner == config.owner
<1>1. /\ Sound /\ owner \in Accounts /\ t \in Tokens /\ Core \in Tokens
      /\ t # Core /\ Bancor \in Accounts /\ Reserve \in Accounts /\ Bancor # Reserve
      /\ t \in Derivatives /\ ReservesOK /\ RateOK(t)
  BY Parties DEF Booked, Config, ReservesOK
<1>2. /\ smart > 0 /\ core - fee > 0 /\ BurnClaimed(t, smart)
      /\ allowance' = [Spend(sender, Bancor, t, smart) EXCEPT ![Bancor][Reserve][t] = 0]
  BY DEF PayFromReserve
<1>3. PICK M \in Collected(Bancor, t, sender, smart), share \in Share(smart, Rate(t)) :
        /\ share > 0 /\ LessReserved(t, smart, share)
        /\ \E N \in Moved({Reserve}, t, M, Bancor, Reserve, smart) :
           \E L \in Burnt(t, N, smart) :
           \E A \in Moved({Reserve}, Core, row[Core], Reserve, Bancor, share) :
           \E B \in GetPaid(A, sender, core, fee) :
             row' = [row EXCEPT ![Core] = B, ![t] = L]
  BY DEF PayFromReserve
<1>4. PICK N \in Moved({Reserve}, t, M, Bancor, Reserve, smart) :
        \E L \in Burnt(t, N, smart) :
        \E A \in Moved({Reserve}, Core, row[Core], Reserve, Bancor, share) :
        \E B \in GetPaid(A, sender, core, fee) :
          row' = [row EXCEPT ![Core] = B, ![t] = L]
  BY <1>3
<1>5. PICK L \in Burnt(t, N, smart),
           A \in Moved({Reserve}, Core, row[Core], Reserve, Bancor, share) :
        \E B \in GetPaid(A, sender, core, fee) :
          row' = [row EXCEPT ![Core] = B, ![t] = L]
  BY <1>4
<1>6. PICK B \in GetPaid(A, sender, core, fee) :
        row' = [row EXCEPT ![Core] = B, ![t] = L]
  BY <1>5
<1>7. share \in Nat
  <2>1. reserves[t] \in Reserve0
    BY <1>1 DEF ReservesOK, ReserveTables
  <2>2. Rate(t) \in Nat \X (Nat \ {0})
    BY <2>1 DEF Reserve0, Rate
  <2>3. share \in Int
    BY <2>2, ShareBelow
  <2> QED BY <1>3, <2>3
<1>8. /\ LedgerOK(M) /\ allowance[sender][Bancor][t] >= smart
      /\ \A a \in Accounts :
           M[a].bal = row[t][a].bal - At(a, sender, smart) + At(a, Bancor, smart)
  BY <1>1, CollectedBalances
<1>9. /\ LedgerOK(N)
      /\ \A a \in Accounts : N[a].bal = M[a].bal - At(a, Bancor, smart) + At(a, Reserve, smart)
  <2>1. /\ N \in Moved({Reserve}, t, M, Bancor, Reserve, smart) /\ LedgerOK(M)
        /\ Bancor \in Accounts /\ Reserve \in Accounts
    BY <1>1, <1>4, <1>8
  <2> DEFINE signers == {Reserve}
             from == Bancor
             to == Reserve
  <2>2. N \in Moved(signers, t, M, from, to, smart) /\ from \in Accounts /\ to \in Accounts
    BY <2>1
  <2> HIDE DEF signers, from, to
  <2>3. /\ LedgerOK(N)
        /\ \A a \in Accounts : N[a].bal = M[a].bal - At(a, from, smart) + At(a, to, smart)
    BY <2>1, <2>2, MovedBalances
  <2> QED BY <2>3 DEF from, to
<1>10. /\ LedgerOK(L)
       /\ Basename[Issuer[t]] = Issuer[t] =>
            \A a \in Accounts : L[a].bal = N[a].bal - At(a, Reserve, smart)
  BY <1>1, <1>9, BurntBalances
<1>11. /\ LedgerOK(A)
       /\ \A a \in Accounts :
            A[a].bal = row[Core][a].bal - At(a, Reserve, share) + At(a, Bancor, share)
  <2>1. /\ A \in Moved({Reserve}, Core, row[Core], Reserve, Bancor, share)
        /\ Bancor \in Accounts /\ Reserve \in Accounts
    BY <1>1, <1>5
  <2>2. LedgerOK(row[Core])
    BY <1>1, TableOK
  <2> DEFINE signers == {Reserve}
             from == Reserve
             to == Bancor
             R == row[Core]
  <2>3. /\ A \in Moved(signers, Core, R, from, to, share)
        /\ from \in Accounts /\ to \in Accounts /\ LedgerOK(R)
    BY <2>1, <2>2
  <2> HIDE DEF signers, from, to, R
  <2>4. /\ LedgerOK(A)
        /\ \A a \in Accounts : A[a].bal = R[a].bal - At(a, from, share) + At(a, to, share)
    BY <1>7, <2>3, MovedBalances
  <2> QED BY <2>4 DEF from, to, R
<1>12. /\ fee > 0 => owner # Bancor
       /\ sender # Bancor /\ LedgerOK(B)
       /\ \A a \in Accounts :
            B[a].bal = A[a].bal + At(a, sender, core - fee) - At(a, Bancor, core)
                         + At(a, owner, fee)
  BY <1>1, <1>2, <1>11, GetPaidBalances
<1> HIDE DEF owner
<1>13. /\ StatOK' /\ Capped' /\ stat[t].supply - stat'[t].supply = smart
  BY <1>1, <1>2, ClaimStat
<1>14. Supply(t)' = Supply(t) + (- smart)
  <2>1. stat[t].supply \in Int /\ stat'[t].supply \in Int
    BY <1>1, <1>13 DEF Sound, StatOK, Stat
  <2> QED BY <1>13, <2>1 DEF Supply
<1>15. allowance' \in Allowances /\ Spent(sender, t) = smart
  <2>1. allowance \in Allowances /\ allowance[sender][Bancor][t] \in Nat
    BY <1>1 DEF Sound, Allowances
  <2> DEFINE S == Spend(sender, Bancor, t, smart)
  <2>2. S \in Allowances /\ S[sender][Bancor][t] = allowance[sender][Bancor][t] - smart
    BY <1>1, <1>8, <2>1 DEF Spend, Allowances
  <2> HIDE DEF S
  <2>3. allowance' = [S EXCEPT ![Bancor][Reserve][t] = 0]
    BY <1>2 DEF S
  <2>4. allowance' \in Allowances /\ allowance'[sender][Bancor][t] = S[sender][Bancor][t]
    BY <1>1, <1>12, <2>2, <2>3 DEF Allowances
  <2> QED BY <2>1, <2>2, <2>4 DEF Spent
<1>16. Sound' /\ row'[Core] = B /\ row'[t] = L
  BY <1>1, <1>6, <1>10, <1>12, <1>13, <1>15, TradeSound
<1>17. ASSUME NEW a \in Accounts
       PROVE  row'[Core][a].bal =
                row[Core][a].bal - At(a, sender, - (core - fee)) + At(a, Bancor, share - core)
                  - At(a, Reserve, share) + At(a, owner, fee)
  <2>1. row[Core][a].bal \in Int
    BY <1>1, TableOK, BalanceNat
  <2>2. /\ At(a, sender, core - fee) \in Int /\ At(a, Bancor, core) \in Int
        /\ At(a, sender, - (core - fee)) = - At(a, sender, core - fee)
        /\ At(a, Bancor, share) \in Int /\ At(a, Reserve, share) \in Int
        /\ At(a, Bancor, share - core) = At(a, Bancor, share) - At(a, Bancor, core)
        /\ At(a, owner, fee) \in Int
    BY <1>7 DEF At
  <2>3. row'[Core][a].bal =
          row[Core][a].bal - At(a, Reserve, share) + At(a, Bancor, share)
            + At(a, sender, core - fee) - At(a, Bancor, core) + At(a, owner, fee)
    BY <1>11, <1>12, <1>16
  <2> QED BY <2>1, <2>2, <2>3
<1>18. ASSUME Basename[Issuer[t]] = Issuer[t], NEW a \in Accounts
       PROVE  row'[t][a].bal = row[t][a].bal + At(a, sender, - smart)
  <2>1. row[t][a].bal \in Int
    BY <1>1, TableOK, BalanceNat
  <2>2. /\ At(a, sender, smart) \in Int /\ At(a, Bancor, smart) \in Int
        /\ At(a, Reserve, smart) \in Int
        /\ At(a, sender, - smart) = - At(a, sender, smart)
    BY DEF At
  <2>3. /\ row'[t][a].bal = N[a].bal - At(a, Reserve, smart)
        /\ N[a].bal = M[a].bal - At(a, Bancor, smart) + At(a, Reserve, smart)
        /\ M[a].bal = row[t][a].bal - At(a, sender, smart) + At(a, Bancor, smart)
    BY <1>8, <1>9, <1>10, <1>16, <1>18
  <2> QED BY <2>1, <2>2, <2>3
<1>19. - smart # 0
  BY <1>2
<1>20. Exchanged(sender, t, - (core - fee), share - core, share, fee, - smart)
  BY <1>12, <1>14, <1>17, <1>19 DEF Exchanged, owner
<1>21. ReservesOK'
  BY <1>1, <1>3, <1>7, LessReservedKeeps
<1> QED BY <1>2, <1>3, <1>12, <1>15, <1>16, <1>18, <1>20, <1>21 DEF Given

-----------------------------------------------------------------------------
(* What the rows of a token hold after its inline actions.                  *)

LEMMA HeldIsInt == ASSUME Sound, NEW t \in Tokens PROVE Held(row[t]) \in Int
BY TableOK, HeldInt DEF LedgerOK

LEMMA CollectedHeld ==
  ASSUME Sound, NEW to \in Accounts, NEW t \in Tokens, NEW from \in Accounts,
         NEW v \in Nat, NEW M \in Collected(to, t, from, v)
  PROVE  LedgerOK(M) /\ Held(M) = Held(row[t])
<1>1. M \in Moved({to}, t, row[t], from, to, v)
  BY DEF Collected
<1> QED BY <1>1, TableOK, MovedHeld

LEMMA PassedOnHeld ==
  ASSUME NEW L, LedgerOK(L), config.owner \in Accounts, NEW fee \in Nat,
         NEW M \in PassedOn(L, fee)
  PROVE  LedgerOK(M) /\ Held(M) = Held(L)
<1> DEFINE owner == config.owner
<1>1. Bancor \in Accounts /\ owner \in Accounts
  BY Parties
<1>2. M = L \/ M \in Moved({Bancor}, Core, L, Bancor, owner, fee)
  BY DEF PassedOn
<1> HIDE DEF owner
<1> QED BY <1>1, <1>2, MovedHeld

LEMMA IssuedHeld ==
  ASSUME Sound, NEW t \in Tokens, NEW to \in Accounts, NEW v \in Int,
         NEW M \in Issued(t, to, v)
  PROVE  LedgerOK(M) /\ Held(M) = Held(row[t]) + v
<1> DEFINE issuer == Issuer[t]
           P == AddBalance(row[t], issuer, v)
<1>1. v > 0 /\ M \in Moved({issuer}, t, P, issuer, to, v)
  BY DEF Issued
<1>2. issuer \in Accounts /\ v \in Nat
  BY <1>1, Domains
<1>3. LedgerOK(P) /\ Held(P) = Held(row[t]) + v
  BY <1>2, TableOK, AddBalanceOK
<1> HIDE DEF P, issuer
<1>4. LedgerOK(M) /\ Held(M) = Held(P)
  BY <1>1, <1>2, <1>3, MovedHeld
<1> QED BY <1>3, <1>4

LEMMA RetiredHeld ==
  ASSUME NEW t, NEW L, LedgerOK(L), NEW v \in Nat, NEW M \in Retired(t, L, v)
  PROVE  LedgerOK(M) /\ Held(M) = Held(L) - v
<1>1. PICK keep \in StackFlag : M = SubBalance(L, Bancor, v, keep) /\ L[Bancor].bal >= v
  BY DEF Retired, CanSubBalance
<1>2. keep \in BOOLEAN /\ Bancor \in Accounts
  BY Domains, Parties
<1> QED BY <1>1, <1>2, SubBalanceOK

LEMMA GetPaidHeld ==
  ASSUME NEW A, LedgerOK(A), config.owner \in Accounts, NEW sender \in Accounts,
         NEW core \in Nat, NEW fee \in Nat, core - fee > 0,
         NEW B \in GetPaid(A, sender, core, fee)
  PROVE  LedgerOK(B) /\ Held(B) = Held(A)
<1> DEFINE x == core - fee
<1>1. x \in Nat /\ Bancor \in Accounts
  BY Parties
<1>2. PICK P \in Moved({Bancor}, Core, A, Bancor, sender, x) : B \in PassedOn(P, fee)
  BY DEF GetPaid
<1> HIDE DEF x
<1>3. LedgerOK(P) /\ Held(P) = Held(A)
  BY <1>1, <1>2, MovedHeld
<1> QED BY <1>2, <1>3, PassedOnHeld

(* Every payment moves the supply of the smart token by what its rows gain  *)
(* or lose, and no system tokens but between rows.                          *)
LEMMA SmartBalanced ==
  ASSUME Sound, NEW t \in Smarts, NEW L, NEW C, NEW d \in Int,
         LedgerOK(L), LedgerOK(C), Held(L) = Held(row[t]) + d,
         Held(C) = Held(row[Core]), row' = [row EXCEPT ![Core] = C, ![t] = L],
         Supply(t)' = Supply(t) + d,
         \A u \in Tokens \ {t} : stat'[u].supply = stat[u].supply
  PROVE  Balanced
<1>1. t \in Tokens \ {Core}
  BY Parties
<1> QED BY <1>1, BothBalanced DEF Supply

LEMMA PayForSmartBalances ==
  ASSUME Booked, NEW t \in Smarts, NEW sender \in Accounts, NEW core \in Nat,
         NEW fee \in Nat, NEW smart \in Int, PayForSmart(sender, t, core, fee, smart)
  PROVE  Balanced
<1> DEFINE x == core + fee
<1>1. /\ Sound /\ config.owner \in Accounts /\ x \in Nat /\ t \in Tokens /\ Core \in Tokens
      /\ Bancor \in Accounts
  BY Parties DEF Booked, Config
<1>2. PICK A \in Collected(Bancor, Core, sender, x) :
        \E B \in PassedOn(A, fee), L \in Issued(t, sender, smart) :
          row' = [row EXCEPT ![Core] = B, ![t] = L]
  BY DEF PayForSmart
<1> HIDE DEF x
<1>3. PICK B \in PassedOn(A, fee), L \in Issued(t, sender, smart) :
        row' = [row EXCEPT ![Core] = B, ![t] = L]
  BY <1>2
<1>4. LedgerOK(A) /\ Held(A) = Held(row[Core])
  BY <1>1, CollectedHeld
<1>5. LedgerOK(B) /\ Held(B) = Held(A)
  BY <1>1, <1>4, PassedOnHeld
<1>6. LedgerOK(L) /\ Held(L) = Held(row[t]) + smart
  BY <1>1, IssuedHeld
<1>7. stat \in [Tokens -> Stat] /\ stat' = [stat EXCEPT ![t].supply = @ + smart]
  BY <1>1 DEF PayForSmart, Sound, StatOK
<1>8. /\ Supply(t)' = Supply(t) + smart
      /\ \A u \in Tokens \ {t} : stat'[u].supply = stat[u].supply
  BY <1>1, <1>7 DEF Supply, Stat
<1> QED BY <1>1, <1>3, <1>4, <1>5, <1>6, <1>8, SmartBalanced

LEMMA PayFromCurveBalances ==
  ASSUME Booked, NEW t \in Smarts, NEW sender \in Accounts, NEW core \in Nat,
         NEW fee \in Nat, NEW smart \in Nat, PayFromCurve(sender, t, core, fee, smart)
  PROVE  Balanced
<1>1. /\ Sound /\ config.owner \in Accounts /\ t \in Tokens /\ Core \in Tokens
      /\ Bancor \in Accounts /\ core - fee > 0
  BY Parties DEF Booked, Config, PayFromCurve
<1>2. PICK M \in Collected(Bancor, t, sender, smart) :
        \E L \in Retired(t, M, smart) : \E B \in GetPaid(row[Core], sender, core, fee) :
          row' = [row EXCEPT ![Core] = B, ![t] = L]
  BY DEF PayFromCurve
<1>3. PICK L \in Retired(t, M, smart), B \in GetPaid(row[Core], sender, core, fee) :
        row' = [row EXCEPT ![Core] = B, ![t] = L]
  BY <1>2
<1>4. LedgerOK(M) /\ Held(M) = Held(row[t])
  BY <1>1, CollectedHeld
<1>5. LedgerOK(L) /\ Held(L) = Held(M) - smart
  BY <1>4, RetiredHeld
<1>6. LedgerOK(B) /\ Held(B) = Held(row[Core])
  BY <1>1, TableOK, GetPaidHeld
<1>7. /\ stat \in [Tokens -> Stat] /\ stat' = [stat EXCEPT ![t].supply = @ - smart]
      /\ Held(row[t]) \in Int
  BY <1>1, HeldIsInt DEF PayFromCurve, Sound, StatOK
<1> DEFINE d == - smart
<1>8. /\ Supply(t)' = Supply(t) + d /\ d \in Int
      /\ \A u \in Tokens \ {t} : stat'[u].supply = stat[u].supply
  BY <1>1, <1>7 DEF Supply, Stat
<1>9. Held(L) = Held(row[t]) + d
  BY <1>4, <1>5, <1>7
<1> HIDE DEF d
<1> QED BY <1>1, <1>3, <1>5, <1>6, <1>8, <1>9, SmartBalanced

LEMMA PayFromReserveBalances ==
  ASSUME Booked, NEW t \in Smarts, NEW sender \in Accounts, NEW core \in Nat,
         NEW fee \in Nat, NEW smart \in Nat, PayFromReserve(sender, t, core, fee, smart)
  PROVE  Balanced
<1>1. /\ Sound /\ config.owner \in Accounts /\ t \in Tokens /\ Core \in Tokens
      /\ Bancor \in Accounts /\ Reserve \in Accounts /\ core - fee > 0
  BY Parties DEF Booked, Config, PayFromReserve
<1>2. PICK M \in Collected(Bancor, t, sender, smart), share \in Share(smart, Rate(t)) :
        /\ share > 0
        /\ \E N \in Moved({Reserve}, t, M, Bancor, Reserve, smart) :
           \E L \in Burnt(t, N, smart) :
           \E A \in Moved({Reserve}, Core, row[Core], Reserve, Bancor, share) :
           \E B \in GetPaid(A, sender, core, fee) :
             row' = [row EXCEPT ![Core] = B, ![t] = L]
  BY DEF PayFromReserve
<1>3. PICK N \in Moved({Reserve}, t, M, Bancor, Reserve, smart) :
        \E L \in Burnt(t, N, smart) :
        \E A \in Moved({Reserve}, Core, row[Core], Reserve, Bancor, share) :
        \E B \in GetPaid(A, sender, core, fee) :
          row' = [row EXCEPT ![Core] = B, ![t] = L]
  BY <1>2
<1>4. PICK L \in Burnt(t, N, smart),
           A \in Moved({Reserve}, Core, row[Core], Reserve, Bancor, share) :
        \E B \in GetPaid(A, sender, core, fee) :
          row' = [row EXCEPT ![Core] = B, ![t] = L]
  BY <1>3
<1>5. PICK B \in GetPaid(A, sender, core, fee) : row' = [row EXCEPT ![Core] = B, ![t] = L]
  BY <1>4
<1>6. share \in Nat
  <2>1. t \in Derivatives
    BY Parties
  <2>2. Rate(t) \in Nat \X (Nat \ {0})
    BY <2>1 DEF Booked, ReserveTables, Reserve0, Rate
  <2>3. share \in Int
    BY <2>2, ShareBelow
  <2> QED BY <1>2, <2>3
<1>7. LedgerOK(M) /\ Held(M) = Held(row[t])
  BY <1>1, CollectedHeld
<1>8. LedgerOK(N) /\ Held(N) = Held(M)
  BY <1>1, <1>7, MovedHeld
<1>9. LedgerOK(L) /\ Held(L) = Held(N) - smart
  BY <1>1, <1>8, BurntHeld
<1>10. LedgerOK(A) /\ Held(A) = Held(row[Core])
  BY <1>1, <1>6, TableOK, MovedHeld
<1>11. LedgerOK(B) /\ Held(B) = Held(A)
  BY <1>1, <1>10, GetPaidHeld
<1>12. /\ stat \in [Tokens -> Stat] /\ Held(row[t]) \in Int
       /\ stat' = [stat EXCEPT ![t].supply = @ - smart, ![t].max = @ - smart]
  BY <1>1, HeldIsInt DEF PayFromReserve, BurnClaimed, Sound, StatOK
<1> DEFINE d == - smart
<1>13. /\ Supply(t)' = Supply(t) + d /\ d \in Int
       /\ \A u \in Tokens \ {t} : stat'[u].supply = stat[u].supply
  BY <1>1, <1>12 DEF Supply, Stat
<1>14. Held(L) = Held(row[t]) + d
  BY <1>7, <1>8, <1>9, <1>12
<1> HIDE DEF d
<1> QED BY <1>1, <1>5, <1>9, <1>10, <1>11, <1>13, <1>14, SmartBalanced

-----------------------------------------------------------------------------
(* The book.                                                                *)

ConnectorTables == [Smarts -> Connector]

BalanceOf(cs) == [t \in Smarts |-> cs[t].balance]
Booking(cs) == SumFunctionOnSet(BalanceOf(cs), Smarts)

ConnectorsOK(cs) ==
  cs \in ConnectorTables /\ \A t \in Smarts : ~ cs[t].exists => cs[t].balance = 0

LEMMA SurplusInTables ==
  /\ Surplus = row[Core][Bancor].bal - Booking(connectors)
  /\ Surplus' = row'[Core][Bancor].bal - Booking(connectors')
BY Zenon DEF Surplus, Booking, BalanceOf

LEMMA BookingInt ==
  ASSUME NEW cs \in ConnectorTables
  PROVE  Booking(cs) \in Int
<1>1. \A t \in Smarts : BalanceOf(cs)[t] \in Int
  BY DEF ConnectorTables, Connector, BalanceOf
<1> QED BY <1>1, Parties, SumInt DEF Booking

LEMMA BookingUpdate ==
  ASSUME NEW cs \in ConnectorTables, NEW cp \in ConnectorTables, NEW t \in Smarts,
         \A u \in Smarts \ {t} : cp[u] = cs[u]
  PROVE  Booking(cp) = Booking(cs) - cs[t].balance + cp[t].balance
<1>1. /\ \A u \in Smarts : BalanceOf(cs)[u] \in Int
      /\ BalanceOf(cp)[t] \in Int
      /\ \A u \in Smarts \ {t} : BalanceOf(cp)[u] = BalanceOf(cs)[u]
      /\ BalanceOf(cs)[t] = cs[t].balance /\ BalanceOf(cp)[t] = cp[t].balance
  BY DEF ConnectorTables, Connector, BalanceOf
<1>2. SumFunctionOnSet(BalanceOf(cp), Smarts) =
        SumFunctionOnSet(BalanceOf(cs), Smarts) - BalanceOf(cs)[t] + BalanceOf(cp)[t]
  BY <1>1, Parties, SumUpdate
<1> QED BY <1>1, <1>2 DEF Booking

(* A connector with a record is booked up or down.                          *)
LEMMA AdjustBooks ==
  ASSUME ConnectorsOK(connectors), NEW t \in Smarts, connectors[t].exists,
         NEW c \in Int, Adjust(t, c)
  PROVE  /\ ConnectorsOK(connectors')
         /\ Booking(connectors') = Booking(connectors) + c
<1>1. /\ connectors \in [Smarts -> Connector] /\ connectors[t] \in Connector
      /\ connectors[t].balance \in Int
  BY DEF ConnectorsOK, ConnectorTables, Connector
<1> DEFINE b == connectors[t].balance + c
<1>2. /\ b \in Int
      /\ connectors' = [connectors EXCEPT ![t].balance = b]
  BY <1>1 DEF Adjust
<1> HIDE DEF b
<1>3. /\ connectors'[t] = [connectors[t] EXCEPT !.balance = b]
      /\ \A u \in Smarts \ {t} : connectors'[u] = connectors[u]
      /\ connectors' = [u \in Smarts |-> connectors'[u]]
  BY <1>1, <1>2
<1>4. /\ connectors'[t] \in Connector /\ connectors'[t].balance = b
      /\ connectors'[t].exists
  BY <1>1, <1>2, <1>3 DEF Connector
<1>5. connectors' \in ConnectorTables
  BY <1>1, <1>3, <1>4 DEF ConnectorTables
<1>6. ConnectorsOK(connectors')
  BY <1>3, <1>4, <1>5 DEF ConnectorsOK
<1>7. Booking(connectors') = Booking(connectors) - connectors[t].balance + b
  <2>1. Booking(connectors') = Booking(connectors) - connectors[t].balance
                                 + connectors'[t].balance
    BY <1>3, <1>5, BookingUpdate DEF ConnectorsOK
  <2> QED BY <1>4, <2>1
<1>8. Booking(connectors) \in Int
  BY BookingInt DEF ConnectorsOK
<1> QED BY <1>1, <1>6, <1>7, <1>8 DEF b

(* What an exchange leaves over the book.                                   *)
LEMMA ExchangeSurplus ==
  ASSUME Booked, NEW t, NEW sender \in Accounts, sender # Bancor,
         NEW x \in Int, NEW y \in Int, NEW z \in Int, NEW fee \in Nat, NEW smart,
         Exchanged(sender, t, x, y, z, fee, smart), Booking(connectors') \in Int
  PROVE  /\ Surplus' = Surplus + (y - (Booking(connectors') - Booking(connectors)))
         /\ Surplus \in Int /\ Booking(connectors) \in Int
<1>1. /\ row[Core][Bancor].bal \in Int /\ Booking(connectors) \in Int
  BY Parties, TableOK, BalanceNat, BookingInt DEF Booked, ConnectorTables
<1>2. row'[Core][Bancor].bal = row[Core][Bancor].bal + y
  <2>1. row'[Core][Bancor].bal =
          row[Core][Bancor].bal - At(Bancor, sender, x) + At(Bancor, Bancor, y)
            - At(Bancor, Reserve, z) + At(Bancor, config.owner, fee)
    BY Parties DEF Exchanged
  <2>2. /\ At(Bancor, sender, x) = 0 /\ At(Bancor, Bancor, y) = y
        /\ At(Bancor, Reserve, z) = 0
    BY Parties DEF At
  <2>3. At(Bancor, config.owner, fee) = 0
    BY DEF At, Exchanged
  <2> QED BY <1>1, <2>1, <2>2, <2>3
<1> QED BY <1>1, <1>2, SurplusInTables

-----------------------------------------------------------------------------
(* The properties, as facts about one step.                                 *)

SurplusKept ==
  ~ trade'.backed \/ trade'.scale = OnPar =>
    Surplus' >= Surplus - (IF ~ trade'.backed THEN 0
                           ELSE IF trade'.exact THEN 2 ELSE 1)

TradePaid(t) ==
  Converted(t) =>
    LET sender == trade'.by
    IN  /\ Got(t, sender) = Supply(t)' - Supply(t) /\ Got(t, sender) # 0
        /\ \A a \in Accounts \ {sender} : Got(t, a) = 0
        /\ \A a \in Accounts \ {sender, Bancor, Reserve} :
             /\ Got(Core, a) >= 0
             /\ Got(Core, a) > 0 => a = config.owner
        /\ \E paid \in {t, Core} :
             LET back == Spent(sender, paid) + Got(paid, sender)
             IN  /\ Spent(sender, paid) > 0 /\ back >= 0
                 /\ back > 0 => sender = config.owner
                 /\ ~ trade'.exact => Spent(sender, paid) <= trade'.given

LEMMA ExchangePaid ==
  ASSUME Booked, NEW t \in Smarts, NEW sender \in Accounts, sender # Bancor,
         NEW x \in Int, NEW y \in Int, NEW z \in Int, NEW fee \in Nat, NEW smart \in Int,
         Exchanged(sender, t, x, y, z, fee, smart), Given(sender, t, smart),
         trade'.by = sender,
         NEW paid \in {t, Core},
         \/ paid = Core /\ Spent(sender, paid) = x /\ z = 0
         \/ paid = t /\ Spent(sender, paid) = - smart,
         Spent(sender, paid) > 0,
         ~ trade'.exact => Spent(sender, paid) <= trade'.given
  PROVE  TradePaid(t)
<1> DEFINE owner == config.owner
<1>1. /\ \A a \in Accounts : row[t][a].bal \in Int /\ row[Core][a].bal \in Int
      /\ Supply(t) \in Int /\ t # Core
  BY Parties, TableOK, BalanceNat DEF Booked, Sound, StatOK, Stat, Supply
<1>2. ASSUME NEW a \in Accounts
      PROVE  Got(t, a) = At(a, sender, smart)
  BY <1>1, <1>2 DEF Got, Given, At
<1>3. ASSUME NEW a \in Accounts
      PROVE  Got(Core, a) = At(a, Bancor, y) - At(a, sender, x) - At(a, Reserve, z)
                              + At(a, owner, fee)
  <2>1. /\ At(a, Bancor, y) \in Int /\ At(a, sender, x) \in Int
        /\ At(a, Reserve, z) \in Int /\ At(a, owner, fee) \in Int
    BY DEF At
  <2>2. row'[Core][a].bal = row[Core][a].bal - At(a, sender, x) + At(a, Bancor, y)
                              - At(a, Reserve, z) + At(a, owner, fee)
    BY DEF Exchanged
  <2> HIDE DEF owner
  <2> QED BY <1>1, <2>1, <2>2 DEF Got
<1>4. Got(t, sender) = Supply(t)' - Supply(t) /\ Got(t, sender) # 0
  <2>1. Got(t, sender) = smart
    BY <1>2 DEF At
  <2>2. Supply(t)' = Supply(t) + smart /\ smart # 0
    BY DEF Exchanged
  <2> QED BY <1>1, <2>1, <2>2
<1>5. \A a \in Accounts \ {sender} : Got(t, a) = 0
  BY <1>2 DEF At
<1>6. ASSUME NEW a \in Accounts \ {sender, Bancor, Reserve}
      PROVE  Got(Core, a) >= 0 /\ (Got(Core, a) > 0 => a = owner)
  <2>1. Got(Core, a) = At(a, owner, fee)
    <3>1. At(a, Bancor, y) = 0 /\ At(a, sender, x) = 0 /\ At(a, Reserve, z) = 0
      BY <1>6 DEF At
    <3>2. At(a, owner, fee) \in Int
      BY DEF At
    <3> QED BY <1>3, <3>1, <3>2
  <2> QED BY <2>1 DEF At
<1>7. /\ Spent(sender, paid) + Got(paid, sender) >= 0
      /\ Spent(sender, paid) + Got(paid, sender) > 0 => sender = owner
  <2>1. CASE paid = Core /\ Spent(sender, paid) = x /\ z = 0
    <3>1. /\ At(sender, Bancor, y) = 0 /\ At(sender, sender, x) = x
          /\ At(sender, Reserve, z) = 0 /\ At(sender, owner, fee) \in Int
      BY <2>1 DEF At
    <3>2. Spent(sender, paid) + Got(paid, sender) = At(sender, owner, fee)
      BY <1>3, <2>1, <3>1
    <3> QED BY <3>2 DEF At
  <2>2. CASE paid = t /\ Spent(sender, paid) = - smart
    BY <1>2, <2>2 DEF At
  <2> QED BY <2>1, <2>2
<1> HIDE DEF owner
<1>8. \E p \in {t, Core} :
        /\ Spent(sender, p) > 0 /\ Spent(sender, p) + Got(p, sender) >= 0
        /\ Spent(sender, p) + Got(p, sender) > 0 => sender = owner
        /\ ~ trade'.exact => Spent(sender, p) <= trade'.given
  BY <1>7
<1> QED BY Zenon, <1>4, <1>5, <1>6, <1>8 DEF TradePaid, owner

-----------------------------------------------------------------------------
(* gxc.reserve keeps what it holds, or pays the share of what it burns.     *)

Honoured ==
  \/ Upheld /\ reserves' = reserves
  \/ \E t \in Smarts, v \in Nat : \E c \in Share(v, Rate(t)) :
       /\ Reserved(t) /\ LessReserved(t, v, c)
       /\ stat[t].exists /\ BurnClaimed(t, v)
       /\ row'[Core][Reserve].bal = row[Core][Reserve].bal - c

(* What an exchange takes from gxc.reserve, where it is not a party to it.  *)
LEMMA ExchangeReserve ==
  ASSUME Booked, NEW t, NEW sender \in Accounts, sender # Reserve, config.owner # Reserve,
         NEW x \in Int, NEW y \in Int, NEW z \in Int, NEW fee \in Nat, NEW smart,
         Exchanged(sender, t, x, y, z, fee, smart)
  PROVE  row'[Core][Reserve].bal = row[Core][Reserve].bal - z
<1>1. row[Core][Reserve].bal \in Int
  BY Parties, TableOK, BalanceNat DEF Booked
<1>2. row'[Core][Reserve].bal =
        row[Core][Reserve].bal - At(Reserve, sender, x) + At(Reserve, Bancor, y)
          - At(Reserve, Reserve, z) + At(Reserve, config.owner, fee)
  BY Parties DEF Exchanged
<1>3. /\ At(Reserve, sender, x) = 0 /\ At(Reserve, Bancor, y) = 0
      /\ At(Reserve, Reserve, z) = z /\ At(Reserve, config.owner, fee) = 0
  BY Parties DEF At
<1> QED BY <1>1, <1>2, <1>3

LEMMA SupplyUpheld ==
  ASSUME Sound, NEW t \in Smarts, NEW y, stat' = [stat EXCEPT ![t].supply = y],
         row'[Core][Reserve].bal = row[Core][Reserve].bal
  PROVE  Upheld
<1>1. row[Core][Reserve].bal \in Int
  BY Parties, TableOK, BalanceNat
<1>2. \A u \in Derivatives : stat[u].max \in Int /\ stat'[u].max = stat[u].max
  BY FiniteDerivatives DEF Sound, StatOK, Stat
<1> QED BY <1>1, <1>2 DEF Upheld

(* What the amounts of a conversion are computed from.                      *)
LEMMA Ready ==
  ASSUME Booked, NEW t \in Smarts
  PROVE  /\ ChargeOK(ChargeOf(t))
         /\ Reserved(t) => RateOK(t)
         /\ Rate(t) \in Nat \X (Nat \ {0})
<1>1. ChargeOK(ChargeOf(t))
  BY DEF Booked, Charge, Config, ChargeOf, ChargeOK
<1>2. Rate(t) \in Nat \X (Nat \ {0})
  BY Parties DEF Booked, ReserveTables, Reserve0, Rate
<1> QED BY <1>1, <1>2 DEF Booked

-----------------------------------------------------------------------------
(* A conversion, once its amounts are known.                                *)

TradeSettled ==
  /\ Booked' /\ Balanced
  /\ AmountsAreCarried => SurplusKept
  /\ IssuersAreAccounts => \A t \in Smarts : TradePaid(t)
  /\ config.owner # Reserve /\ trade'.by # Reserve => Honoured

LEMMA ConvertsKeeps ==
  ASSUME Booked, NEW t, NEW sender, NEW exact, NEW backed, NEW given, NEW scale,
         Converts(sender, t, exact, backed, given, scale),
         Sound', ReservesOK', ConnectorsOK(connectors')
  PROVE  /\ Booked' /\ UNCHANGED <<req, deferred, now>>
         /\ trade'.by = sender /\ trade'.exact = exact
         /\ trade'.backed = backed /\ trade'.given = given /\ trade'.scale = scale
         /\ \A u \in Smarts : u # t => TradePaid(u)
<1>1. /\ trade' = [by |-> sender, smart |-> t, exact |-> exact, backed |-> backed,
                   given |-> given, scale |-> scale]
      /\ config' = config /\ charges' = charges
      /\ req' = req /\ deferred' = deferred /\ now' = now
  BY DEF Converts, chainVars
<1>2. \A u \in Smarts : u # t => ~ Converted(u)
  BY <1>1 DEF Converted
<1>3. \A u \in Smarts : u # t => TradePaid(u)
  BY <1>2, Zenon DEF TradePaid
<1> QED BY <1>1, <1>3 DEF Booked, ReservesOK, ConnectorsOK, ConnectorTables

LEMMA BuySettles ==
  ASSUME Booked, NEW t \in Smarts, connectors[t].exists, NEW sender \in Accounts,
         NEW core \in Nat, NEW fee \in Nat, NEW smart \in Int,
         NEW exact \in BOOLEAN, NEW backed \in BOOLEAN, NEW given, NEW scale,
         Converts(sender, t, exact, backed, given, scale), Adjust(t, core),
         PayForSmart(sender, t, core, fee, smart),
         ~ exact => core + fee <= given
  PROVE  TradeSettled
<1>1. UNCHANGED <<req, deferred, now>>
  BY DEF Converts, chainVars
<1>2. /\ Sound' /\ smart > 0 /\ sender # Bancor /\ reserves' = reserves
      /\ Exchanged(sender, t, core + fee, core, 0, fee, smart)
      /\ Given(sender, t, smart)
      /\ Spent(sender, Core) = core + fee /\ core + fee > 0
  BY <1>1, PayForSmartPays
<1>3. ConnectorsOK(connectors') /\ Booking(connectors') = Booking(connectors) + core
  BY AdjustBooks DEF Booked, ConnectorsOK, ConnectorTables
<1>4. ReservesOK'
  BY <1>2 DEF Booked, ReservesOK, Reserved, RateOK, Rate
<1>5. /\ Booked' /\ trade'.by = sender /\ trade'.exact = exact /\ trade'.given = given
      /\ trade'.backed = backed
      /\ \A u \in Smarts : u # t => TradePaid(u)
  BY <1>2, <1>3, <1>4, ConvertsKeeps
<1> DEFINE x == core + fee
<1>6. SurplusKept
  <2>1. /\ x \in Int /\ 0 \in Int /\ Exchanged(sender, t, x, core, 0, fee, smart)
        /\ Booking(connectors') \in Int
    BY <1>2, <1>3, BookingInt DEF ConnectorsOK
  <2> HIDE DEF x
  <2>2. /\ Surplus' = Surplus + (core - (Booking(connectors') - Booking(connectors)))
        /\ Surplus \in Int /\ Booking(connectors) \in Int
    BY <1>2, <2>1, ExchangeSurplus
  <2> QED BY <1>3, <1>5, <2>2 DEF SurplusKept
<1>7. TradePaid(t)
  <2>1. /\ x \in Int /\ 0 \in Int /\ Exchanged(sender, t, x, core, 0, fee, smart)
        /\ Core \in {t, Core} /\ Spent(sender, Core) = x /\ Spent(sender, Core) > 0
        /\ ~ trade'.exact => Spent(sender, Core) <= trade'.given
    BY <1>2, <1>5
  <2> HIDE DEF x
  <2> QED BY <1>2, <1>5, <2>1, ExchangePaid
<1>8. ASSUME config.owner # Reserve, trade'.by # Reserve
      PROVE  Honoured
  <2>1. x \in Int /\ 0 \in Int /\ Exchanged(sender, t, x, core, 0, fee, smart)
    BY <1>2
  <2> HIDE DEF x
  <2>2. row'[Core][Reserve].bal = row[Core][Reserve].bal - 0
    BY <1>5, <1>8, <2>1, ExchangeReserve
  <2>3. row[Core][Reserve].bal \in Int
    BY Parties, TableOK, BalanceNat DEF Booked
  <2> DEFINE y == stat[t].supply + smart
  <2>4. stat' = [stat EXCEPT ![t].supply = y]
    BY DEF PayForSmart
  <2> HIDE DEF y
  <2>5. row'[Core][Reserve].bal = row[Core][Reserve].bal /\ Sound
    BY <2>2, <2>3 DEF Booked
  <2>6. Upheld
    BY <2>4, <2>5, SupplyUpheld
  <2> QED BY <1>2, <2>6 DEF Honoured
<1>9. Balanced
  BY PayForSmartBalances
<1> QED BY <1>5, <1>6, <1>7, <1>8, <1>9 DEF TradeSettled

LEMMA SellSettles ==
  ASSUME Booked, NEW t \in Smarts, connectors[t].exists, stat[t].exists,
         NEW sender \in Accounts,
         NEW core \in Nat, NEW fee \in Nat, NEW smart \in Nat,
         NEW exact \in BOOLEAN, NEW backed \in BOOLEAN, NEW given, NEW scale,
         Converts(sender, t, exact, backed, given, scale), Adjust(t, - core),
         PayFromCurve(sender, t, core, fee, smart),
         ~ exact => smart <= given
  PROVE  TradeSettled
<1>1. UNCHANGED <<req, deferred, now>>
  BY DEF Converts, chainVars
<1> DEFINE x == - (core - fee)
           y == - core
           s == - smart
<1>2. /\ Sound' /\ smart > 0 /\ sender # Bancor /\ reserves' = reserves
      /\ Exchanged(sender, t, x, y, 0, fee, s)
      /\ Given(sender, t, s) /\ Spent(sender, t) = smart
  BY <1>1, PayFromCurvePays
<1>3. x \in Int /\ y \in Int /\ s \in Int /\ - s = smart /\ y - y = 0
  OBVIOUS
<1>4. Adjust(t, y)
  OBVIOUS
<1> HIDE DEF x, y, s
<1>5. ConnectorsOK(connectors') /\ Booking(connectors') = Booking(connectors) + y
  BY <1>3, <1>4, AdjustBooks DEF Booked, ConnectorsOK, ConnectorTables
<1>6. ReservesOK'
  BY <1>2 DEF Booked, ReservesOK, Reserved, RateOK, Rate
<1>7. /\ Booked' /\ trade'.by = sender /\ trade'.exact = exact /\ trade'.given = given
      /\ trade'.backed = backed
      /\ \A u \in Smarts : u # t => TradePaid(u)
  BY <1>2, <1>5, <1>6, ConvertsKeeps
<1>8. SurplusKept
  <2>1. Booking(connectors') \in Int /\ 0 \in Int
    BY <1>5, BookingInt DEF ConnectorsOK
  <2>2. /\ Surplus' = Surplus + (y - (Booking(connectors') - Booking(connectors)))
        /\ Surplus \in Int /\ Booking(connectors) \in Int
    BY <1>2, <1>3, <2>1, ExchangeSurplus
  <2> QED BY <1>3, <1>5, <1>7, <2>2 DEF SurplusKept
<1>9. TradePaid(t)
  <2>1. /\ t \in {t, Core} /\ Spent(sender, t) = - s /\ Spent(sender, t) > 0
        /\ ~ trade'.exact => Spent(sender, t) <= trade'.given
    BY <1>2, <1>3, <1>7
  <2> QED BY <1>2, <1>3, <1>7, <2>1, ExchangePaid
<1>10. ASSUME config.owner # Reserve, trade'.by # Reserve
       PROVE  Honoured
  <2>1. row'[Core][Reserve].bal = row[Core][Reserve].bal - 0
    BY <1>2, <1>3, <1>7, <1>10, ExchangeReserve
  <2>2. row[Core][Reserve].bal \in Int
    BY Parties, TableOK, BalanceNat DEF Booked
  <2> DEFINE z == stat[t].supply - smart
  <2>3. stat' = [stat EXCEPT ![t].supply = z]
    BY DEF PayFromCurve
  <2> HIDE DEF z
  <2>4. row'[Core][Reserve].bal = row[Core][Reserve].bal /\ Sound
    BY <2>1, <2>2 DEF Booked
  <2>5. Upheld
    BY <2>3, <2>4, SupplyUpheld
  <2> QED BY <1>2, <2>5 DEF Honoured
<1>11. Balanced
  BY PayFromCurveBalances
<1> QED BY <1>7, <1>8, <1>9, <1>10, <1>11 DEF TradeSettled

(* At the rate of a reserve, what was promised may be more than the share.  *)
LEMMA ClaimSettles ==
  ASSUME Booked, NEW t \in Smarts, stat[t].exists, Reserved(t), NEW sender \in Accounts,
         NEW core \in Nat, NEW fee \in Nat, NEW smart \in Nat,
         NEW exact \in BOOLEAN, NEW given, NEW scale,
         Converts(sender, t, exact, TRUE, given, scale), UNCHANGED connectors,
         PayFromReserve(sender, t, core, fee, smart),
         ~ exact => smart <= given,
         AmountsAreCarried /\ scale = OnPar =>
           \A share \in Share(smart, Rate(t)) :
             share >= core - (IF exact THEN 2 ELSE 1)
  PROVE  TradeSettled
<1>1. UNCHANGED <<req, deferred, now>>
  BY DEF Converts, chainVars
<1> DEFINE x == - (core - fee)
           s == - smart
<1>2. /\ Sound' /\ ReservesOK' /\ smart > 0 /\ sender # Bancor
      /\ \E share \in Share(smart, Rate(t)) :
           Exchanged(sender, t, x, share - core, share, fee, s) /\ LessReserved(t, smart, share)
      /\ Basename[Issuer[t]] = Issuer[t] => Given(sender, t, s)
      /\ Spent(sender, t) = smart
  BY <1>1, PayFromReservePays
<1>3. PICK share \in Share(smart, Rate(t)) :
        Exchanged(sender, t, x, share - core, share, fee, s) /\ LessReserved(t, smart, share)
  BY <1>2
<1> DEFINE y == share - core
           l == IF exact THEN 2 ELSE 1
<1>4. /\ x \in Int /\ y \in Int /\ s \in Int /\ - s = smart /\ share \in Int
      /\ l \in Nat
      /\ AmountsAreCarried /\ scale = OnPar => y >= - l
  <2>1. share \in Int
    BY <1>3, Ready, ShareBelow
  <2>2. AmountsAreCarried /\ scale = OnPar => share >= core - l
    BY <1>3
  <2> QED BY <2>1, <2>2
<1>5. Exchanged(sender, t, x, y, share, fee, s)
  BY <1>3
<1> HIDE DEF x, y, s
<1>6. ConnectorsOK(connectors') /\ Booking(connectors') = Booking(connectors) + 0
  <2>1. ConnectorsOK(connectors) /\ connectors' = connectors
    BY DEF Booked, ConnectorsOK, ConnectorTables
  <2> QED BY <2>1, BookingInt DEF ConnectorsOK
<1>7. /\ Booked' /\ trade'.by = sender /\ trade'.exact = exact /\ trade'.given = given
      /\ trade'.backed = TRUE /\ trade'.scale = scale
      /\ \A u \in Smarts : u # t => TradePaid(u)
  BY <1>2, <1>6, ConvertsKeeps
<1>8. ASSUME AmountsAreCarried, trade'.scale = OnPar
      PROVE  Surplus' >= Surplus - (IF trade'.exact THEN 2 ELSE 1)
  <2>1. Booking(connectors') \in Int
    BY <1>6, BookingInt DEF ConnectorsOK
  <2>2. /\ Surplus' = Surplus + (y - (Booking(connectors') - Booking(connectors)))
        /\ Surplus \in Int /\ Booking(connectors) \in Int
    BY <1>2, <1>4, <1>5, <2>1, ExchangeSurplus
  <2> DEFINE b == Booking(connectors)
             c == Booking(connectors')
  <2>3. Surplus' = Surplus + y
    <3>1. y \in Int /\ b \in Int /\ c = b + 0 /\ Surplus \in Int
      BY <1>4, <1>6, <2>2
    <3>2. Surplus' = Surplus + (y - (c - b))
      BY <2>2
    <3> HIDE DEF b, c
    <3> QED BY <3>1, <3>2
  <2>4. Surplus' >= Surplus - l
    <3> HIDE DEF l
    <3> QED BY <1>4, <1>7, <1>8, <2>2, <2>3
  <2>5. l = IF trade'.exact THEN 2 ELSE 1
    BY <1>7
  <2> HIDE DEF l
  <2> QED BY <2>4, <2>5
<1>9. ASSUME Basename[Issuer[t]] = Issuer[t]
      PROVE  TradePaid(t)
  <2>1. /\ t \in {t, Core} /\ Spent(sender, t) = - s /\ Spent(sender, t) > 0
        /\ ~ trade'.exact => Spent(sender, t) <= trade'.given
    BY <1>2, <1>4, <1>7
  <2> QED BY <1>2, <1>4, <1>5, <1>7, <1>9, <2>1, ExchangePaid
<1>10. IssuersAreAccounts => TradePaid(t)
  BY <1>9, Parties DEF IssuersAreAccounts
<1>11. ASSUME config.owner # Reserve, trade'.by # Reserve
       PROVE  Honoured
  <2>1. row'[Core][Reserve].bal = row[Core][Reserve].bal - share
    BY <1>4, <1>5, <1>7, <1>11, ExchangeReserve
  <2>2. BurnClaimed(t, smart)
    BY DEF PayFromReserve
  <2> QED BY <1>3, <2>1, <2>2 DEF Honoured
<1>12. Balanced
  BY PayFromReserveBalances
<1>13. AmountsAreCarried => SurplusKept
  BY <1>7, <1>8 DEF SurplusKept
<1> QED BY <1>7, <1>10, <1>11, <1>12, <1>13 DEF TradeSettled

-----------------------------------------------------------------------------
(* The four kinds of conversion, once the doubles are known, and what they  *)
(* come to.                                                                 *)

BuyForWith(sender, t, v, fee, q, cut, core) ==
  \/ /\ Converts(sender, t, FALSE, FALSE, v, OnPar)
     /\ AtCurve(t, core, cut.units)
     /\ Adjust(t, core)
     /\ \E f \in FeeKept(cut, fee, core, q) : PayForSmart(sender, t, core, f, cut.units)
  \/ /\ Converts(sender, t, FALSE, TRUE, v, OnPar)
     /\ AtReserve(t, core, cut.units)
     /\ \E out \in Cuts(BuyDoubles(t, q), q, fee) : \E paid \in out.used :
          /\ Adjust(t, paid)
          /\ \E f \in FeeKept(out, fee, paid, q) : PayForSmart(sender, t, paid, f, out.units)

BuyExactlyWith(sender, t, v, core) ==
  \/ /\ Converts(sender, t, TRUE, FALSE, v, OnPar)
     /\ AtCurve(t, core, v)
     /\ Adjust(t, core)
     /\ \E fee \in RequiredFee(ChargeOf(t), core) : PayForSmart(sender, t, core, fee, v)
  \/ /\ Converts(sender, t, TRUE, TRUE, v, OnPar)
     /\ AtReserve(t, core, v)
     /\ \E paid \in Cut(v * Rate(t)[1], Rate(t)[2]) :
          /\ Adjust(t, paid)
          /\ \E fee \in RequiredFee(ChargeOf(t), paid) : PayForSmart(sender, t, paid, fee, v)

SellForWith(sender, t, v, scale) ==
  \/ /\ Converts(sender, t, FALSE, FALSE, v, scale)
     /\ \E cut \in Cuts(PriceDoubles(t, v), v, 0) : \E smart \in cut.used :
          /\ AtCurve(t, cut.units, v)
          /\ Adjust(t, - cut.units)
          /\ PayFromCurve(sender, t, cut.units, Fee(ChargeOf(t), cut.units), smart)
  \/ /\ Converts(sender, t, FALSE, TRUE, v, scale)
     /\ \E core \in {Whole(i) : i \in PriceDoubles(t, v)} : AtReserve(t, core, v)
     /\ UNCHANGED connectors
     /\ \E out \in Cuts(SaleDoubles(t, v, scale), v, 0) : \E smart \in out.used :
          PayFromReserve(sender, t, out.units, Fee(ChargeOf(t), out.units), smart)

SellExactlyWith(sender, t, w, fee, cut, core) ==
  \/ /\ Converts(sender, t, TRUE, FALSE, w, OnPar)
     /\ AtCurve(t, core, cut.units)
     /\ Adjust(t, - core)
     /\ PayFromCurve(sender, t, core, fee, cut.units)
  \/ /\ Converts(sender, t, TRUE, TRUE, w, OnPar)
     /\ AtReserve(t, core, cut.units)
     /\ UNCHANGED connectors
     /\ \E out \in Cuts(BuyDoubles(t, w), w, 0) : \E paid \in out.used :
          PayFromReserve(sender, t, paid, fee, out.units)

LEMMA BuyForIs ==
  ASSUME NEW signers, NEW sender, NEW t, NEW v, BuyFor(signers, sender, t, v)
  PROVE  LET fee == Fee(ChargeOf(t), v)
             q == v - fee
         IN  /\ MayConvert(signers, sender, t) /\ q > 0
             /\ \E cut \in Cuts(CurveDoubles(t, q), q, fee) : \E core \in cut.used :
                  BuyForWith(sender, t, v, fee, q, cut, core)
BY Zenon DEF BuyFor, BuyForWith, CurveDoubles, BuyDoubles

LEMMA BuyExactlyIs ==
  ASSUME NEW signers, NEW sender, NEW t, NEW v, BuyExactly(signers, sender, t, v)
  PROVE  /\ MayConvert(signers, sender, t)
         /\ \E core \in {Whole(i) : i \in PriceDoubles(t, v)} :
              BuyExactlyWith(sender, t, v, core)
BY Zenon DEF BuyExactly, BuyExactlyWith, PriceDoubles

LEMMA SellForIs ==
  ASSUME NEW signers, NEW sender, NEW t, NEW v, NEW scale,
         SellFor(signers, sender, t, v, scale)
  PROVE  MayConvert(signers, sender, t) /\ SellForWith(sender, t, v, scale)
BY Zenon DEF SellFor, SellForWith, PriceDoubles, SaleDoubles

LEMMA SellExactlyIs ==
  ASSUME NEW signers, NEW sender, NEW t, NEW w, SellExactly(signers, sender, t, w)
  PROVE  /\ MayConvert(signers, sender, t)
         /\ \E fee \in RequiredFee(ChargeOf(t), w) :
            \E cut \in Cuts(CurveDoubles(t, w + fee), w + fee, 0) : \E core \in cut.used :
              SellExactlyWith(sender, t, w, fee, cut, core)
BY Zenon DEF SellExactly, SellExactlyWith, CurveDoubles, BuyDoubles

LEMMA BuyForSettles ==
  ASSUME Booked, NEW s, NEW sender \in Accounts, NEW t \in Smarts, NEW v \in Nat,
         BuyFor(s, sender, t, v)
  PROVE  TradeSettled
<1> DEFINE fee == Fee(ChargeOf(t), v)
           q == v - fee
<1>1. /\ MayConvert(s, sender, t) /\ q > 0
      /\ \E cut \in Cuts(CurveDoubles(t, q), q, fee) : \E core \in cut.used :
           BuyForWith(sender, t, v, fee, q, cut, core)
  BY BuyForIs
<1>2. connectors[t].exists /\ fee \in Nat /\ q \in Nat /\ v = q + fee
  <2>1. fee \in Nat
    BY Ready, FeeNat
  <2> HIDE DEF fee
  <2> QED BY <1>1, <2>1 DEF MayConvert
<1> HIDE DEF fee, q
<1>3a. PICK cut \in Cuts(CurveDoubles(t, q), q, fee) :
         \E core \in cut.used : BuyForWith(sender, t, v, fee, q, cut, core)
  BY <1>1
<1>3. PICK core \in cut.used : BuyForWith(sender, t, v, fee, q, cut, core)
  BY <1>3a
<1>4. ASSUME NEW backed \in BOOLEAN, NEW D, D \subseteq Nat, NEW out \in Cuts(D, q, fee),
             NEW paid \in out.used, NEW f \in FeeKept(out, fee, paid, q),
             Converts(sender, t, FALSE, backed, v, OnPar), Adjust(t, paid),
             PayForSmart(sender, t, paid, f, out.units)
      PROVE  TradeSettled
  <2>1. out.units \in Int /\ paid \in Nat /\ paid <= q
    <3>1. out.units \in Nat /\ \A m \in out.used : m \in Nat /\ m <= q
      BY <1>2, <1>4, CutIs
    <3> QED BY <1>4, <3>1
  <2>2. f \in Nat /\ f <= fee
    BY <1>2, <1>4, KeptIs
  <2>3. paid + f <= v
    BY <1>2, <2>1, <2>2
  <2> QED BY <1>2, <1>4, <2>1, <2>2, <2>3, BuySettles
<1>5. CASE /\ Converts(sender, t, FALSE, FALSE, v, OnPar)
           /\ Adjust(t, core)
           /\ \E f \in FeeKept(cut, fee, core, q) : PayForSmart(sender, t, core, f, cut.units)
  <2>1. CurveDoubles(t, q) \subseteq Nat
    BY DoublesNat
  <2> QED BY <1>3, <1>3a, <1>4, <1>5, <2>1
<1>6. CASE /\ Converts(sender, t, FALSE, TRUE, v, OnPar)
           /\ \E out \in Cuts(BuyDoubles(t, q), q, fee) : \E paid \in out.used :
                /\ Adjust(t, paid)
                /\ \E f \in FeeKept(out, fee, paid, q) :
                     PayForSmart(sender, t, paid, f, out.units)
  <2>1. BuyDoubles(t, q) \subseteq Nat
    BY DoublesNat
  <2> QED BY <1>4, <1>6, <2>1
<1> QED BY <1>3, <1>5, <1>6 DEF BuyForWith

LEMMA BuyExactlySettles ==
  ASSUME Booked, NEW s, NEW sender \in Accounts, NEW t \in Smarts, NEW v \in Nat,
         BuyExactly(s, sender, t, v)
  PROVE  TradeSettled
<1>1. /\ MayConvert(s, sender, t)
      /\ \E core \in {Whole(i) : i \in PriceDoubles(t, v)} : BuyExactlyWith(sender, t, v, core)
  BY BuyExactlyIs
<1>2. connectors[t].exists /\ ChargeOK(ChargeOf(t)) /\ (Reserved(t) => RateOK(t))
  BY <1>1, Ready DEF MayConvert
<1>3. ASSUME NEW core \in Nat, NEW backed \in BOOLEAN,
             Converts(sender, t, TRUE, backed, v, OnPar), Adjust(t, core),
             \E fee \in RequiredFee(ChargeOf(t), core) : PayForSmart(sender, t, core, fee, v)
      PROVE  TradeSettled
  <2>1. PICK fee \in RequiredFee(ChargeOf(t), core) : PayForSmart(sender, t, core, fee, v)
    BY <1>3
  <2>2. fee \in Nat /\ v \in Int
    BY <1>2, RequiredFeeNat
  <2> QED BY <1>2, <1>3, <2>1, <2>2, BuySettles
<1>4. PICK core \in {Whole(i) : i \in PriceDoubles(t, v)} : BuyExactlyWith(sender, t, v, core)
  BY <1>1
<1>5. core \in Nat
  BY <1>4, DoublesNat, WholeIs
<1>6. ASSUME AtReserve(t, core, v), NEW paid \in Cut(v * Rate(t)[1], Rate(t)[2])
      PROVE  paid \in Nat
  <2>1. RateOK(t)
    BY <1>2, <1>6 DEF AtReserve
  <2> DEFINE n == v * Rate(t)[1]
             d == Rate(t)[2]
  <2>2. n \in Nat /\ d \in Nat /\ d > 0
    BY <2>1 DEF RateOK
  <2> HIDE DEF n, d
  <2> QED BY <1>6, <2>2, CutNat DEF n, d
<1>7. CASE /\ Converts(sender, t, TRUE, FALSE, v, OnPar)
           /\ Adjust(t, core)
           /\ \E fee \in RequiredFee(ChargeOf(t), core) : PayForSmart(sender, t, core, fee, v)
  BY <1>3, <1>5, <1>7
<1>8. CASE /\ Converts(sender, t, TRUE, TRUE, v, OnPar)
           /\ AtReserve(t, core, v)
           /\ \E paid \in Cut(v * Rate(t)[1], Rate(t)[2]) :
                /\ Adjust(t, paid)
                /\ \E fee \in RequiredFee(ChargeOf(t), paid) :
                     PayForSmart(sender, t, paid, fee, v)
  BY <1>3, <1>6, <1>8
<1> QED BY <1>4, <1>7, <1>8 DEF BuyExactlyWith

LEMMA SellForSettles ==
  ASSUME Booked, NEW s, NEW sender \in Accounts, NEW t \in Smarts, NEW v \in Amounts,
         NEW scale, SellFor(s, sender, t, v, scale)
  PROVE  TradeSettled
<1>1. MayConvert(s, sender, t) /\ SellForWith(sender, t, v, scale)
  BY SellForIs
<1>2. /\ connectors[t].exists /\ stat[t].exists /\ ChargeOK(ChargeOf(t)) /\ v \in Nat
      /\ (Reserved(t) => RateOK(t)) /\ Rate(t) \in Nat \X (Nat \ {0}) /\ 0 \in Nat
  BY <1>1, Ready, Domains DEF MayConvert
<1>3. CASE /\ Converts(sender, t, FALSE, FALSE, v, scale)
           /\ \E cut \in Cuts(PriceDoubles(t, v), v, 0) : \E smart \in cut.used :
                /\ Adjust(t, - cut.units)
                /\ PayFromCurve(sender, t, cut.units, Fee(ChargeOf(t), cut.units), smart)
  <2>0. PICK cut \in Cuts(PriceDoubles(t, v), v, 0) : \E smart \in cut.used :
          /\ Adjust(t, - cut.units)
          /\ PayFromCurve(sender, t, cut.units, Fee(ChargeOf(t), cut.units), smart)
    BY <1>3
  <2>1. PICK smart \in cut.used :
          /\ Adjust(t, - cut.units)
          /\ PayFromCurve(sender, t, cut.units, Fee(ChargeOf(t), cut.units), smart)
    BY <2>0
  <2>2. PriceDoubles(t, v) \subseteq Nat
    BY DoublesNat
  <2>3. cut.units \in Nat /\ smart \in Nat /\ smart <= v
    BY <1>2, <2>0, <2>1, <2>2, CutIs
  <2>4. Fee(ChargeOf(t), cut.units) \in Nat
    BY <1>2, <2>3, FeeNat
  <2> QED BY <1>2, <1>3, <2>1, <2>3, <2>4, SellSettles
<1>4. CASE /\ Converts(sender, t, FALSE, TRUE, v, scale)
           /\ \E core \in {Whole(i) : i \in PriceDoubles(t, v)} : AtReserve(t, core, v)
           /\ UNCHANGED connectors
           /\ \E out \in Cuts(SaleDoubles(t, v, scale), v, 0) : \E smart \in out.used :
                PayFromReserve(sender, t, out.units, Fee(ChargeOf(t), out.units), smart)
  <2>0. PICK out \in Cuts(SaleDoubles(t, v, scale), v, 0) : \E smart \in out.used :
          PayFromReserve(sender, t, out.units, Fee(ChargeOf(t), out.units), smart)
    BY <1>4
  <2>1. PICK smart \in out.used :
          PayFromReserve(sender, t, out.units, Fee(ChargeOf(t), out.units), smart)
    BY <2>0
  <2>2. Reserved(t) /\ RateOK(t)
    BY <1>2, <1>4 DEF AtReserve
  <2>3. SaleDoubles(t, v, scale) \subseteq Nat
    BY DoublesNat
  <2>4. out.units \in Nat /\ smart \in Nat /\ smart <= v
    BY <1>2, <2>0, <2>1, <2>3, CutIs
  <2>5. Fee(ChargeOf(t), out.units) \in Nat
    BY <1>2, <2>4, FeeNat
  <2>6. ASSUME AmountsAreCarried, scale = OnPar, NEW share \in Share(smart, Rate(t))
        PROVE  share >= out.units - 1
    BY <1>2, <2>1, <2>2, <2>6, SaleCovered
  <2> QED BY <1>2, <1>4, <2>1, <2>2, <2>4, <2>5, <2>6, ClaimSettles
<1> QED BY <1>1, <1>3, <1>4 DEF SellForWith

LEMMA SellExactlySettles ==
  ASSUME Booked, NEW s, NEW sender \in Accounts, NEW t \in Smarts, NEW w \in Amounts,
         SellExactly(s, sender, t, w)
  PROVE  TradeSettled
<1>1. /\ MayConvert(s, sender, t)
      /\ \E fee \in RequiredFee(ChargeOf(t), w) :
         \E cut \in Cuts(CurveDoubles(t, w + fee), w + fee, 0) : \E core \in cut.used :
           SellExactlyWith(sender, t, w, fee, cut, core)
  BY SellExactlyIs
<1>2. /\ connectors[t].exists /\ stat[t].exists /\ ChargeOK(ChargeOf(t)) /\ w \in Nat
      /\ (Reserved(t) => RateOK(t)) /\ Rate(t) \in Nat \X (Nat \ {0}) /\ 0 \in Nat
  BY <1>1, Ready, Domains DEF MayConvert
<1>3. PICK fee \in RequiredFee(ChargeOf(t), w) :
        \E cut \in Cuts(CurveDoubles(t, w + fee), w + fee, 0) : \E core \in cut.used :
          SellExactlyWith(sender, t, w, fee, cut, core)
  BY <1>1
<1> DEFINE q == w + fee
<1>4. fee \in Nat /\ q \in Nat
  <2>1. fee \in Nat
    BY <1>2, RequiredFeeNat
  <2> QED BY <1>2, <2>1
<1> HIDE DEF q
<1>5a. PICK cut \in Cuts(CurveDoubles(t, q), q, 0) :
         \E core \in cut.used : SellExactlyWith(sender, t, w, fee, cut, core)
  BY <1>3 DEF q
<1>5. PICK core \in cut.used : SellExactlyWith(sender, t, w, fee, cut, core)
  BY <1>5a
<1>6. cut.units \in Nat /\ core \in Nat
  <2>1. CurveDoubles(t, q) \subseteq Nat
    BY DoublesNat
  <2> QED BY <1>2, <1>4, <1>5, <1>5a, <2>1, CutIs
<1>7. CASE /\ Converts(sender, t, TRUE, FALSE, w, OnPar)
           /\ Adjust(t, - core)
           /\ PayFromCurve(sender, t, core, fee, cut.units)
  BY <1>2, <1>4, <1>6, <1>7, SellSettles
<1>8. CASE /\ Converts(sender, t, TRUE, TRUE, w, OnPar)
           /\ AtReserve(t, core, cut.units)
           /\ UNCHANGED connectors
           /\ \E out \in Cuts(BuyDoubles(t, w), w, 0) : \E paid \in out.used :
                PayFromReserve(sender, t, paid, fee, out.units)
  <2>0. PICK out \in Cuts(BuyDoubles(t, w), w, 0) : \E paid \in out.used :
          PayFromReserve(sender, t, paid, fee, out.units)
    BY <1>8
  <2>1. PICK paid \in out.used : PayFromReserve(sender, t, paid, fee, out.units)
    BY <2>0
  <2>2. Reserved(t) /\ RateOK(t)
    BY <1>2, <1>8 DEF AtReserve
  <2>3. out.units \in Nat /\ paid \in Nat
    <3>1. BuyDoubles(t, w) \subseteq Nat
      BY DoublesNat
    <3> QED BY <1>2, <2>0, <2>1, <3>1, CutIs
  <2>4. ASSUME AmountsAreCarried, NEW share \in Share(out.units, Rate(t))
        PROVE  share >= paid - 2
    BY <1>2, <2>1, <2>2, <2>4, PurchaseCovered
  <2> QED BY <1>2, <1>4, <1>8, <2>1, <2>2, <2>3, <2>4, ClaimSettles
<1> QED BY <1>5, <1>7, <1>8 DEF SellExactlyWith

-----------------------------------------------------------------------------
(* What is not a conversion moves no more than it books.                    *)

LEMMA NoTradePays == ASSUME trade' = NoTrade PROVE \A t \in Smarts : TradePaid(t)
<1>1. \A t \in Smarts : ~ Converted(t)
  BY DEF Converted
<1> QED BY <1>1, Zenon DEF TradePaid

LEMMA SameSurplus ==
  ASSUME Booked, trade' = NoTrade, row'[Core] = row[Core], connectors' = connectors
  PROVE  SurplusKept
<1>1. Surplus' = Surplus
  BY SurplusInTables
<1>2. Surplus \in Int
  <2>1. row[Core][Bancor].bal \in Int /\ Booking(connectors) \in Int
    BY Parties, TableOK, BalanceNat, BookingInt DEF Booked, ConnectorTables
  <2> QED BY <2>1, SurplusInTables
<1>3. trade'.backed = FALSE
  BY DEF NoTrade
<1> QED BY <1>1, <1>2, <1>3 DEF SurplusKept

LEMMA ConnectSettles ==
  ASSUME Booked, NEW t \in Smarts, NEW factor \in Factors, NEW v \in Balances,
         Connect(t, factor, v), trade' = NoTrade, UNCHANGED chainVars
  PROVE  TradeSettled
<1> DEFINE owner == config.owner
<1>1. /\ v \in Nat /\ factor \in Nat /\ owner \in Accounts /\ Core \in Tokens
      /\ Bancor \in Accounts /\ connectors \in ConnectorTables
      /\ ConnectorsOK(connectors) /\ Sound
  BY Parties, Domains, BancorAssumption DEF Booked, Config, ConnectorTables, ConnectorsOK
<1>2. /\ ~ connectors[t].exists
      /\ connectors' =
           [connectors EXCEPT ![t] = [exists |-> TRUE, balance |-> v, factor |-> factor]]
      /\ allowance' = Spend(owner, Bancor, Core, v)
      /\ stat' = stat /\ reserves' = reserves /\ config' = config /\ charges' = charges
      /\ req' = req /\ deferred' = deferred /\ now' = now
  BY DEF Connect, chainVars
<1>3. PICK L \in Collected(Bancor, Core, owner, v) : row' = [row EXCEPT ![Core] = L]
  BY DEF Connect
<1> HIDE DEF owner
<1>4. /\ owner # Bancor /\ LedgerOK(L) /\ allowance[owner][Bancor][Core] >= v
      /\ L[Bancor].bal = row[Core][Bancor].bal + v
      /\ owner # Reserve => L[Reserve].bal = row[Core][Reserve].bal
  <2>1. /\ owner # Bancor /\ LedgerOK(L) /\ allowance[owner][Bancor][Core] >= v
        /\ L[Bancor].bal = row[Core][Bancor].bal - At(Bancor, owner, v) + At(Bancor, Bancor, v)
        /\ L[Reserve].bal = row[Core][Reserve].bal - At(Reserve, owner, v)
                              + At(Reserve, Bancor, v)
    BY <1>1, CollectedBalances, Parties
  <2>2. row[Core][Bancor].bal \in Int /\ row[Core][Reserve].bal \in Int
    BY <1>1, TableOK, BalanceNat, Parties
  <2> QED BY <2>1, <2>2, Parties DEF At
<1>5. Sound'
  <2>1. TablesOK(row')
    <3>1. row \in [Tokens -> Ledger] /\ \A u \in Tokens : LedgerOK(row[u])
      BY <1>1 DEF Sound, TablesOK
    <3>2. row' \in [Tokens -> Ledger] /\ \A u \in Tokens : LedgerOK(row'[u])
      BY <1>3, <1>4, <3>1 DEF LedgerOK
    <3> QED BY <3>2 DEF TablesOK
  <2>2. allowance' \in Allowances
    BY <1>1, <1>2, <1>4, SpendSpent
  <2> QED BY <1>1, <1>2, <2>1, <2>2 DEF Sound, StatOK, Capped, Allowances
<1>6. /\ connectors' \in ConnectorTables /\ connectors'[t].exists
      /\ connectors'[t].balance = v
      /\ \A u \in Smarts \ {t} : connectors'[u] = connectors[u]
  BY <1>1, <1>2 DEF ConnectorTables, Connector
<1>7. Booking(connectors') = Booking(connectors) + v
  <2>1. Booking(connectors') =
          Booking(connectors) - connectors[t].balance + connectors'[t].balance
    BY <1>1, <1>6, BookingUpdate
  <2>2. connectors[t].balance = 0 /\ Booking(connectors) \in Int
    BY <1>1, <1>2, BookingInt DEF ConnectorsOK
  <2> QED BY <1>1, <1>6, <2>1, <2>2
<1>8. Booked'
  BY <1>1, <1>2, <1>5, <1>6
  DEF Booked, ConnectorTables, ConnectorsOK, Reserved, RateOK, Rate
<1>9. SurplusKept
  <2>1. /\ row'[Core][Bancor].bal = row[Core][Bancor].bal + v
        /\ row[Core][Bancor].bal \in Int /\ Booking(connectors) \in Int
    BY <1>1, <1>3, <1>4, TableOK, BalanceNat, BookingInt DEF Sound, TablesOK
  <2>2. Surplus' = Surplus /\ Surplus \in Int
    BY <1>1, <1>7, <2>1, SurplusInTables
  <2>3. trade'.backed = FALSE
    BY DEF NoTrade
  <2> QED BY <2>2, <2>3 DEF SurplusKept
<1>10. ASSUME config.owner # Reserve
       PROVE  Honoured
  <2>1. row'[Core][Reserve].bal = row[Core][Reserve].bal
    BY <1>1, <1>3, <1>4, <1>10 DEF Sound, TablesOK, owner
  <2>2. /\ row[Core][Reserve].bal \in Int
        /\ \A u \in Derivatives : stat[u].max \in Int
    BY <1>1, TableOK, BalanceNat, Parties, FiniteDerivatives DEF Sound, StatOK, Stat
  <2> QED BY <1>2, <2>1, <2>2 DEF Honoured, Upheld
<1>11. Balanced
  <2>1. LedgerOK(L) /\ Held(L) = Held(row[Core])
    BY <1>1, CollectedHeld
  <2> QED BY <1>1, <1>2, <1>3, <2>1, LedgerStep
<1> QED BY <1>8, <1>9, <1>10, <1>11, NoTradePays DEF TradeSettled

(* The record of the contract, and the charges.                             *)
LEMMA RecordSettles ==
  ASSUME Booked, trade' = NoTrade, UNCHANGED chainVars,
         UNCHANGED <<stat, row, reserves, allowance, connectors>>,
         config' \in Config, charges' \in [Smarts -> Charge]
  PROVE  TradeSettled
<1>1. Sound'
  BY DEF Booked, Sound, StatOK, Capped, TablesOK, chainVars
<1>2. Booked'
  BY <1>1 DEF Booked, Reserved, RateOK, Rate
<1>3. Honoured
  BY ElsewhereUpheld DEF Booked, Honoured
<1>4. Balanced
  BY SameSupply
<1> QED BY <1>2, <1>3, <1>4, SameSurplus, NoTradePays DEF TradeSettled

(* What init, setowner and setcharge write, under names of their own.       *)
Started(c, owner) == [c EXCEPT !.exists = TRUE, !.owner = owner]
OwnedBy(c, owner) == [c EXCEPT !.owner = owner]
Charged(c, rate, fixed) == [c EXCEPT !.rate = rate, !.fixed = fixed]

LEMMA FirstConfig == NoConfig \in Config
<1>1. 0 \in ChargeRates /\ Bancor \in Accounts
  BY Parties DEF ChargeRates
<1> QED BY <1>1 DEF Config, NoConfig

LEMMA OwnerSet ==
  ASSUME NEW c \in Config, NEW owner \in Accounts
  PROVE  Started(c, owner) \in Config /\ OwnedBy(c, owner) \in Config
BY DEF Config, Started, OwnedBy

LEMMA ChargeSet ==
  ASSUME NEW c \in Config, NEW rate \in ChargeRates, NEW fixed \in Nat
  PROVE  Charged(c, rate, fixed) \in Config
BY DEF Config, Charged

LEMMA ContractOperationSettles ==
  ASSUME Booked, ContractOperation
  PROVE  TradeSettled
<1>1. trade' = NoTrade /\ UNCHANGED chainVars
  BY DEF ContractOperation
<1>2. /\ config \in Config /\ charges \in [Smarts -> Charge]
      /\ Owners \subseteq Accounts /\ Rates \subseteq ChargeRates
      /\ Fixed \subseteq Nat \cup {NoAmount} /\ Bancor \in Accounts
  BY BancorAssumption DEF Booked, ChargeRates
<1>2a. 0 \in ChargeRates
  BY DEF ChargeRates
<1>3. ASSUME NEW owner \in Owners, BancorInitialise(owner) \/ SetOwner(owner)
      PROVE  TradeSettled
  <2>1. /\ charges' = charges /\ owner \in Accounts
        /\ config' = Started(NoConfig, owner) \/ config' = OwnedBy(config, owner)
    BY <1>2, <1>3 DEF BancorInitialise, SetOwner, Started, OwnedBy
  <2>1b. config' \in Config
    BY <1>2, <2>1, FirstConfig, OwnerSet
  <2>2. UNCHANGED <<stat, row, reserves, allowance, connectors>>
    BY <1>3 DEF BancorInitialise, SetOwner
  <2> QED BY <1>1, <1>2, <2>1, <2>1b, <2>2, RecordSettles
<1>4. ASSUME NEW rate \in Rates, NEW fixed \in Fixed, SetDefaultCharge(rate, fixed)
      PROVE  TradeSettled
  <2> DEFINE f == IF fixed = NoAmount THEN config.fixed ELSE fixed
  <2>1a. f \in Nat /\ rate \in ChargeRates
    <3>1. config.fixed \in Nat
      BY <1>2, Zenon DEF Config
    <3> QED BY <1>2, <3>1
  <2>1b. config' = Charged(config, rate, f) /\ charges' = charges
    BY <1>4 DEF SetDefaultCharge, Charged
  <2>1. config' \in Config /\ charges' = charges
    <3> HIDE DEF f
    <3> QED BY <1>2, <2>1a, <2>1b, ChargeSet
  <2>2. UNCHANGED <<stat, row, reserves, allowance, connectors>>
    BY <1>4 DEF SetDefaultCharge
  <2> QED BY <1>1, <1>2, <2>1, <2>2, RecordSettles
<1>5. ASSUME NEW t \in Smarts, NEW rate \in Rates, NEW fixed \in Fixed,
             SetSmartCharge(t, rate, fixed)
      PROVE  TradeSettled
  <2>1. charges' \in [Smarts -> Charge] /\ config' = config
    BY <1>2, <1>5 DEF SetSmartCharge, Charge
  <2>2. UNCHANGED <<stat, row, reserves, allowance, connectors>>
    BY <1>5 DEF SetSmartCharge
  <2> QED BY <1>1, <1>2, <2>1, <2>2, RecordSettles
<1>6. ASSUME NEW t \in Smarts, RemoveSmartCharge(t)
      PROVE  TradeSettled
  <2>1. charges' \in [Smarts -> Charge] /\ config' = config
    BY <1>2, <1>2a, <1>6 DEF RemoveSmartCharge, Charge, NoCharge
  <2>2. UNCHANGED <<stat, row, reserves, allowance, connectors>>
    BY <1>6 DEF RemoveSmartCharge
  <2> QED BY <1>1, <1>2, <2>1, <2>2, RecordSettles
<1> QED BY <1>1, <1>3, <1>4, <1>5, <1>6, ConnectSettles DEF ContractOperation

(* The market never touches the system tokens.                              *)
LEMMA MarketStepSettles ==
  ASSUME Booked, NEW s \in Signers, MarketStep(s), trade' = NoTrade,
         UNCHANGED <<bancorTables, reserves, games>>
  PROVE  TradeSettled
<1>1. /\ Traders \subseteq Accounts /\ Owners \subseteq Accounts /\ Bancor \in Accounts
      /\ Core \in Tokens /\ \A t \in Smarts : t \in Tokens /\ t # Core
      /\ row \in [Tokens -> Ledger] /\ Sound
  BY Parties, BancorAssumption DEF Booked, Sound, TablesOK
<1>1a. stat \in [Tokens -> Stat] /\ \A u \in Derivatives : u \in Tokens
  BY FiniteDerivatives DEF Booked, Sound, StatOK
<1>2. ASSUME Sound', Balanced, row'[Core] = row[Core],
             \A u \in Derivatives : stat'[u].max <= stat[u].max
      PROVE  TradeSettled
  <2>1. config' = config /\ charges' = charges /\ connectors' = connectors
        /\ reserves' = reserves
    BY DEF bancorTables
  <2>2. Booked'
    BY <1>2, <2>1 DEF Booked, Reserved, RateOK, Rate
  <2>3. row[Core][Reserve].bal \in Int
    BY <1>1, TableOK, BalanceNat, Parties
  <2>4. Honoured
    BY <1>2, <2>1, <2>3 DEF Honoured, Upheld
  <2> QED BY <1>2, <2>1, <2>2, <2>4, SameSurplus, NoTradePays DEF TradeSettled
<1>3. ASSUME NEW t \in Smarts, NEW v \in Amounts, NEW a \in Traders,
             Issue(s, t, a, v) \/ Retire(s, t, a, v)
      PROVE  TradeSettled
  <2>1. Sound' /\ Balanced
    BY <1>1, <1>3, IssueOK, RetireOK
  <2>2. \E M : row' = [row EXCEPT ![t] = M]
    BY <1>3 DEF Issue, Retire
  <2>3. \E y : stat' = [stat EXCEPT ![t].supply = y]
    BY <1>3 DEF Issue, Retire
  <2>4. \A u \in Derivatives : stat'[u].max = stat[u].max /\ stat[u].max \in Int
    BY <1>1, <1>1a, <2>3 DEF Stat
  <2> QED BY <1>1, <1>2, <2>1, <2>2, <2>4
<1>4. ASSUME NEW t \in Smarts, NEW v \in Amounts, Burn(s, t, v)
      PROVE  TradeSettled
  <2>1. Sound' /\ Balanced
    BY <1>1, <1>4, BurnOK
  <2>2. \E M : row' = [row EXCEPT ![t] = M]
    BY <1>4 DEF Burn
  <2>3. BurnClaimed(t, v) /\ stat[t].exists /\ v \in Nat
    BY <1>4, Domains DEF Burn, BurnClaimed
  <2>4. \A u \in Derivatives : stat'[u].max <= stat[u].max
    <3>1. \A u \in Derivatives : stat[u].max \in Int
      BY <1>1a DEF Stat
    <3>2. /\ stat[t].max - stat'[t].max = v /\ StatOK'
          /\ \A u \in Derivatives \ {t} : stat'[u] = stat[u]
      BY <1>1, <2>3, ClaimStat, Parties
    <3>3. stat'[t].max \in Int
      BY <1>1, <3>2 DEF StatOK, Stat
    <3>4. t \in Derivatives
      BY Parties
    <3> QED BY <2>3, <3>1, <3>2, <3>3, <3>4
  <2> QED BY <1>1, <1>2, <2>1, <2>2, <2>4
<1>5. ASSUME NEW t \in Tokens, NEW v \in Limits, NEW a \in Accounts,
             Approve(s, t, a, Bancor, v)
      PROVE  TradeSettled
  <2>1. Sound' /\ Balanced /\ row' = row /\ stat' = stat
    BY <1>1, <1>5, ApproveOK DEF Approve
  <2>2. \A u \in Derivatives : stat'[u].max <= stat[u].max
    BY <1>1a, <2>1 DEF Stat
  <2> QED BY <1>2, <2>1, <2>2
<1> QED BY <1>1, <1>3, <1>4, <1>5 DEF MarketStep

-----------------------------------------------------------------------------
(* The specification.                                                       *)

LEMMA InitBooked == BancorInit => Booked
<1> SUFFICES ASSUME BancorInit PROVE Booked
  OBVIOUS
<1>1. PICK offer \in [Smarts -> Backings] :
       LET underlying == SumFunctionOnSet([t \in Smarts |-> offer[t].underlying], Smarts)
           wallet == [Wallets EXCEPT ![Reserve] = underlying]
           rest == MaxAmount - SumFunctionOnSet(wallet, Accounts)
       IN  /\ stat = [t \in Tokens |-> CASE t = Core -> CoreStat
                                       [] t \in Smarts -> Minting(offer[t])
                                       [] OTHER -> NoStat]
           /\ row = [t \in Tokens |-> [a \in Accounts |->
                       IF t # Core THEN NoRow
                       ELSE Holding(wallet[a] + IF a = Issuer[Core] THEN rest ELSE 0)]]
           /\ reserves = [t \in Derivatives |->
                            IF t \in Smarts THEN Backing(offer[t]) ELSE NoReserve]
  BY Zenon DEF BancorInit
<1> DEFINE under == [t \in Smarts |-> offer[t].underlying]
           underlying == SumFunctionOnSet(under, Smarts)
           wallet == [Wallets EXCEPT ![Reserve] = underlying]
           rest == MaxAmount - SumFunctionOnSet(wallet, Accounts)
<1>2. /\ \A t \in Smarts : offer[t] \in [derivative : 1 .. MaxAmount, underlying : Nat]
      /\ Wallets \in [Accounts -> Nat] /\ Reserve \in Accounts /\ Core \in Tokens
      /\ MaxAmount \in Nat /\ \A t \in Smarts : t # Core
  BY Parties, Domains, BancorAssumption
<1>3. underlying \in Nat
  <2>1. \A t \in Smarts : under[t] \in Nat
    BY <1>2
  <2> HIDE DEF under
  <2> QED BY <2>1, Parties, SumNat
<1>4. rest \in Nat
  <2> DEFINE W == SumFunctionOnSet(Wallets, Accounts)
             X == SumFunctionOnSet(wallet, Accounts)
  <2>1. underlying + W <= MaxAmount
    BY BancorAssumption
  <2>2. W \in Nat
    BY <1>2, FiniteAccounts, SumNat
  <2> HIDE DEF underlying
  <2>3. X = W - Wallets[Reserve] + wallet[Reserve]
    <3>1. /\ \A a \in Accounts : Wallets[a] \in Int
          /\ wallet[Reserve] \in Int
          /\ \A a \in Accounts \ {Reserve} : wallet[a] = Wallets[a]
      BY <1>2, <1>3
    <3> HIDE DEF wallet
    <3> QED BY <1>2, <3>1, FiniteAccounts, SumUpdate
  <2>4. wallet[Reserve] = underlying /\ Wallets[Reserve] \in Nat
    BY <1>2
  <2> HIDE DEF wallet, W, X
  <2>5. X \in Int /\ X <= MaxAmount
    BY <1>2, <1>3, <2>1, <2>2, <2>3, <2>4
  <2> QED BY <1>2, <2>5 DEF X
<1>5. \A a \in Accounts : wallet[a] \in Nat
  <2> HIDE DEF underlying
  <2> QED BY <1>2, <1>3
<1>6. /\ stat = [t \in Tokens |-> CASE t = Core -> CoreStat
                                    [] t \in Smarts -> Minting(offer[t])
                                    [] OTHER -> NoStat]
      /\ row = [t \in Tokens |-> [a \in Accounts |->
                  IF t # Core THEN NoRow
                  ELSE Holding(wallet[a] + IF a = Issuer[Core] THEN rest ELSE 0)]]
      /\ reserves = [t \in Derivatives |->
                       IF t \in Smarts THEN Backing(offer[t]) ELSE NoReserve]
  BY <1>1, Zenon
<1> HIDE DEF rest, wallet, underlying, under
<1>7. \A v \in Nat : Holding(v) \in Row /\ (~ Holding(v).open => Holding(v) = NoRow)
  BY DEF Holding, NoRow, Row
<1>8. \A t \in Tokens : LedgerOK(row[t])
  <2> SUFFICES ASSUME NEW t \in Tokens PROVE LedgerOK(row[t])
    OBVIOUS
  <2>1. NoRow \in Row
    BY DEF NoRow, Row
  <2>2. \A a \in Accounts : wallet[a] + (IF a = Issuer[Core] THEN rest ELSE 0) \in Nat
    BY <1>4, <1>5
  <2>3. row[t] = [a \in Accounts |->
                    IF t # Core THEN NoRow
                    ELSE Holding(wallet[a] + IF a = Issuer[Core] THEN rest ELSE 0)]
    BY <1>6
  <2>4. \A a \in Accounts : row[t][a] \in Row /\ (~ row[t][a].open => row[t][a] = NoRow)
    BY <1>7, <2>1, <2>2, <2>3
  <2>5. row[t] \in Ledger
    BY <2>3, <2>4 DEF Ledger
  <2> QED BY <2>4, <2>5 DEF LedgerOK
<1>9. TablesOK(row)
  BY <1>6, <1>8 DEF TablesOK, LedgerOK
<1>10. \A x \in [derivative : 1 .. MaxAmount, underlying : Nat] :
         /\ Minting(x) \in Stat /\ Minting(x).exists
         /\ Minting(x).supply <= Minting(x).max /\ Minting(x).max <= MaxAmount
  <2> SUFFICES ASSUME NEW x \in [derivative : 1 .. MaxAmount, underlying : Nat]
               PROVE  /\ Minting(x) \in Stat /\ Minting(x).exists
                      /\ Minting(x).supply <= Minting(x).max /\ Minting(x).max <= MaxAmount
    OBVIOUS
  <2> DEFINE z == 0 % TimeWidth
  <2>1. z \in Nat
    BY ConstantsAssumption
  <2>2. PICK o \in SUBSET (InitOptions \cup LiveOptions) :
          Minting(x) = [exists |-> TRUE, supply |-> 0, max |-> x.derivative,
                        opts |-> o, delay |-> z, min |-> 0]
    BY DEF Minting, Minted, Default, InitOptions, LiveOptions
  <2> HIDE DEF z
  <2> QED BY <1>2, <2>1, <2>2 DEF Stat
<1>11. StatOK /\ Capped
  <2>1. NoStat \in Stat /\ NoStat.supply <= NoStat.max /\ NoStat.max <= MaxAmount
    BY Domains DEF NoStat, Stat
  <2>2. \A t \in Tokens : stat[t] = CoreStat \/ stat[t] = NoStat
                          \/ \E x \in [derivative : 1 .. MaxAmount, underlying : Nat] :
                               stat[t] = Minting(x)
    BY <1>2, <1>6
  <2>3. stat = [t \in Tokens |-> stat[t]]
    BY <1>6
  <2> HIDE DEF NoStat
  <2> QED BY <1>10, <2>1, <2>2, <2>3, CoreStatOK DEF StatOK, Capped
<1>12. /\ req \in Requests /\ deferred \in [Accounts -> Nat \cup {None}]
       /\ allowance \in [Accounts -> [Accounts -> [Tokens -> Nat]]]
       /\ now \in 0 .. MaxTime
  BY Domains DEF BancorInit, Requests, NoReq, None
<1>13. Sound
  BY <1>9, <1>11, <1>12 DEF Sound
<1>14. /\ config \in Config /\ charges \in [Smarts -> Charge]
       /\ connectors \in [Smarts -> Connector]
       /\ \A t \in Smarts : connectors[t].balance = 0
  <2>1. 0 \in ChargeRates
    BY DEF ChargeRates
  <2> QED BY <2>1, FirstConfig
          DEF BancorInit, NoCharge, NoConnector, Charge, Connector
<1>15. \A x \in [derivative : 1 .. MaxAmount, underlying : Nat] :
         /\ Backing(x) \in Reserve0
         /\ Backing(x) # NoReserve => /\ Backing(x).rate[1] \in Nat /\ Backing(x).rate[1] > 0
                                      /\ Backing(x).rate[2] \in Nat /\ Backing(x).rate[2] > 0
                                      /\ Backing(x).rate = <<x.underlying, x.derivative>>
  BY DEF Backing, NoReserve, Reserve0
<1>16. reserves \in ReserveTables
  BY <1>2, <1>6, <1>15 DEF ReserveTables, NoReserve, Reserve0
<1>17. \A t \in Smarts : Reserved(t) => RateOK(t)
  BY <1>2, <1>6, <1>15, Parties DEF Reserved, RateOK, Rate
<1> QED BY <1>13, <1>14, <1>16, <1>17 DEF Booked

LEMMA StepSettles ==
  ASSUME Booked, BancorNext
  PROVE  TradeSettled
<1>1. CASE ContractOperation
  BY <1>1, ContractOperationSettles
<1>2. ASSUME NEW s \in Signers, MarketStep(s), trade' = NoTrade,
             UNCHANGED <<bancorTables, reserves, games>>
      PROVE  TradeSettled
  BY <1>2, MarketStepSettles
<1>3. ASSUME NEW s \in Signers, NEW a \in Traders, NEW t \in Smarts, NEW v \in Amounts,
             \/ BuyFor(s, a, t, v) \/ BuyExactly(s, a, t, v)
             \/ \E scale \in Scales : SellFor(s, a, t, v, scale)
             \/ SellExactly(s, a, t, v)
      PROVE  TradeSettled
  <2>1. a \in Accounts /\ v \in Nat
    BY BancorAssumption, Domains
  <2> QED BY <1>3, <2>1, BuyForSettles, BuyExactlySettles, SellForSettles,
             SellExactlySettles
<1> QED BY <1>1, <1>2, <1>3, Zenon DEF BancorNext

LEMMA StepKeepsBooked == Booked /\ [BancorNext]_bancorVars => Booked'
<1>1. ASSUME Booked, UNCHANGED bancorVars PROVE Booked'
  BY <1>1 DEF bancorVars, reserveVars, vars, Booked, Sound, StatOK, Capped, TablesOK,
              Reserved, RateOK, Rate
<1> QED BY <1>1, StepSettles DEF TradeSettled

(* Whatever the curve, the charge, the fee, the refund and the rounding,    *)
(* for any supply, balance, weight and rate that doubles carry: no step     *)
(* books more into the connectors than gxc.bancor is paid, but for the      *)
(* units that the share of a reserve may come out short, and for what a     *)
(* sale asks for in other digits than those of the connected token.         *)
THEOREM SurplusHolds ==
  ASSUME AmountsAreCarried
  PROVE  BancorSpec => SurplusIsKept
<1>1. Booked /\ [BancorNext]_bancorVars => Booked'
  BY StepKeepsBooked
<1>2. Booked /\ [BancorNext]_bancorVars
        => [~ trade'.backed \/ trade'.scale = OnPar =>
              Surplus' >= Surplus - (IF ~ trade'.backed THEN 0
                                     ELSE IF trade'.exact THEN 2 ELSE 1)]_bancorVars
  BY StepSettles DEF TradeSettled, SurplusKept
<1> QED BY InitBooked, <1>1, <1>2, PTL DEF BancorSpec, SurplusIsKept

(* A conversion changes the smart tokens of its sender alone and takes no   *)
(* system tokens but the sender's, gxc.bancor's and gxc.reserve's; the      *)
(* sender pays out of an allowance, and no more than it gave.               *)
THEOREM ConversionsArePaid ==
  ASSUME IssuersAreAccounts
  PROVE  BancorSpec => ConversionIsPaid
<1>1. Booked /\ [BancorNext]_bancorVars => Booked'
  BY StepKeepsBooked
<1>2. Booked /\ [BancorNext]_bancorVars
        => [\A t \in Smarts : Converted(t) =>
              LET sender == trade'.by
                  Left(u) == allowance[sender][Bancor][u] - allowance'[sender][Bancor][u]
              IN  /\ Got(t, sender) = Supply(t)' - Supply(t) /\ Got(t, sender) # 0
                  /\ \A a \in Accounts \ {sender} : Got(t, a) = 0
                  /\ \A a \in Accounts \ {sender, Bancor, Reserve} :
                       /\ Got(Core, a) >= 0
                       /\ Got(Core, a) > 0 => a = config.owner
                  /\ \E paid \in {t, Core} :
                       LET back == Left(paid) + Got(paid, sender)
                       IN  /\ Left(paid) > 0 /\ back >= 0
                           /\ back > 0 => sender = config.owner
                           /\ ~ trade'.exact => Left(paid) <= trade'.given]_bancorVars
  <2>1. Booked /\ BancorNext => \A t \in Smarts : TradePaid(t)
    BY StepSettles DEF TradeSettled
  <2> QED BY <2>1, Zenon DEF TradePaid, Spent
<1> QED BY InitBooked, <1>1, <1>2, PTL DEF BancorSpec, ConversionIsPaid

-----------------------------------------------------------------------------
(* gxc.reserve while gxc.bancor trades.  Like every contract account it     *)
(* signs nothing but its inline actions: it neither converts nor owns.      *)

ReserveIsApart == Reserve \notin Traders \cup Owners

Backs == Booked /\ ReserveBacked /\ FullyReserved /\ config.owner # Reserve

LEMMA BacksCovered == Backs => Covered
BY DEF Backs, Booked, Covered

LEMMA HonouredKeeps ==
  ASSUME Backs, Booked', Honoured
  PROVE  ReserveBacked' /\ FullyReserved'
<1>1. Covered /\ Sound'
  BY BacksCovered DEF Booked
<1>2. CASE Upheld /\ reserves' = reserves
  BY <1>1, <1>2, UpheldKeeps DEF Covered
<1>3. ASSUME NEW t \in Smarts, NEW v \in Nat, NEW c \in Share(v, Rate(t)),
             Reserved(t), LessReserved(t, v, c), stat[t].exists, BurnClaimed(t, v),
             row'[Core][Reserve].bal = row[Core][Reserve].bal - c
      PROVE  ReserveBacked' /\ FullyReserved'
  <2>1. t \in Derivatives /\ c \in Share(v, reserves[t].rate)
    BY <1>3, Parties DEF Rate
  <2>2. /\ stat[t].max - stat'[t].max = v
        /\ \A u \in Derivatives \ {t} : stat'[u] = stat[u]
    BY <1>1, <1>3, <2>1, ClaimStat DEF Covered
  <2>3. Covered'
    BY <1>1, <1>3, <2>1, <2>2, ReleaseKeeps
  <2> QED BY <2>3 DEF Covered
<1> QED BY <1>2, <1>3 DEF Honoured

(* Who owns the fees, and who converts.                                     *)
LEMMA PartiesApart ==
  ASSUME ReserveIsApart, Backs, BancorNext
  PROVE  config'.owner # Reserve /\ trade'.by # Reserve
<1>1. /\ Reserve \notin Traders /\ Reserve \notin Owners /\ Bancor # Reserve
      /\ config \in Config /\ config.owner # Reserve
  BY Parties DEF ReserveIsApart, Backs, Booked
<1>2. NoTrade.by # Reserve
  BY <1>1 DEF NoTrade
<1>3. ASSUME trade' = NoTrade, config'.owner = config.owner
      PROVE  config'.owner # Reserve /\ trade'.by # Reserve
  BY <1>1, <1>2, <1>3
<1>4. CASE ContractOperation
  <2>1. trade' = NoTrade
    BY <1>4 DEF ContractOperation
  <2>2. ASSUME NEW owner \in Owners, BancorInitialise(owner) \/ SetOwner(owner)
        PROVE  config'.owner # Reserve
    <3>1. CASE BancorInitialise(owner)
      <4>1. config' = [NoConfig EXCEPT !.exists = TRUE, !.owner = owner]
        BY <3>1 DEF BancorInitialise
      <4>2. config'.owner = owner
        BY <4>1 DEF NoConfig
      <4> QED BY <1>1, <4>2
    <3>2. CASE SetOwner(owner)
      <4>1. config' = [config EXCEPT !.owner = owner]
        BY <3>2 DEF SetOwner
      <4>2. config'.owner = owner
        BY <1>1, <4>1 DEF Config
      <4> QED BY <1>1, <4>2
    <3> QED BY <2>2, <3>1, <3>2
  <2>3. ASSUME NEW rate \in Rates, NEW fixed \in Fixed, SetDefaultCharge(rate, fixed)
        PROVE  config'.owner = config.owner
    BY <1>1, <2>3 DEF SetDefaultCharge, Config
  <2>4. ASSUME NEW t \in Smarts,
               \/ \E factor \in Factors, v \in Balances : Connect(t, factor, v)
               \/ \E rate \in Rates, fixed \in Fixed : SetSmartCharge(t, rate, fixed)
               \/ RemoveSmartCharge(t)
        PROVE  config' = config
    BY <2>4 DEF Connect, SetSmartCharge, RemoveSmartCharge
  <2> QED BY <1>1, <1>2, <1>4, <2>1, <2>2, <2>3, <2>4 DEF ContractOperation
<1>5. ASSUME trade' = NoTrade, UNCHANGED <<bancorTables, reserves, games>>
      PROVE  config'.owner # Reserve /\ trade'.by # Reserve
  BY <1>3, <1>5 DEF bancorTables
<1>6. ASSUME NEW s, NEW a \in Traders, NEW t \in Smarts, NEW v \in Amounts,
             \/ BuyFor(s, a, t, v) \/ BuyExactly(s, a, t, v)
             \/ \E scale \in Scales : SellFor(s, a, t, v, scale)
             \/ SellExactly(s, a, t, v)
      PROVE  config'.owner # Reserve /\ trade'.by # Reserve
  <2> DEFINE Some == \E exact, backed, given, scale :
                       Converts(a, t, exact, backed, given, scale)
  <2>1. Some
    <3>1. BuyFor(s, a, t, v) => Some
      BY Zenon, BuyForIs DEF BuyForWith
    <3>2. BuyExactly(s, a, t, v) => Some
      BY Zenon, BuyExactlyIs DEF BuyExactlyWith
    <3>3. \A scale : SellFor(s, a, t, v, scale) => Some
      BY Zenon, SellForIs DEF SellForWith
    <3>4. SellExactly(s, a, t, v) => Some
      BY Zenon, SellExactlyIs DEF SellExactlyWith
    <3> QED BY <1>6, <3>1, <3>2, <3>3, <3>4
  <2>2. config' = config /\ trade'.by = a
    BY <2>1 DEF Converts
  <2> QED BY <1>1, <2>2
<1> QED BY <1>4, <1>5, <1>6, Zenon DEF BancorNext

LEMMA StepKeepsBacks ==
  ASSUME ReserveIsApart, Backs, [BancorNext]_bancorVars
  PROVE  Backs'
<1>1. CASE BancorNext
  <2>1. Booked' /\ config'.owner # Reserve /\ Honoured
    BY <1>1, PartiesApart, StepSettles DEF Backs, TradeSettled
  <2> QED BY <2>1, HonouredKeeps DEF Backs
<1>2. CASE UNCHANGED bancorVars
  <2>1. Booked'
    BY StepKeepsBooked DEF Backs
  <2>2. config' = config /\ row' = row /\ stat' = stat /\ reserves' = reserves
    BY <1>2 DEF bancorVars, reserveVars, vars
  <2> QED BY <2>1, <2>2, UnderlyingInTables DEF Backs, ReserveBacked, FullyReserved, Reserved
<1> QED BY <1>1, <1>2

LEMMA InitBacks == BancorInit => Backs
<1> SUFFICES ASSUME BancorInit PROVE Backs
  OBVIOUS
<1>1. PICK offer \in [Smarts -> Backings] :
       LET underlying == SumFunctionOnSet([t \in Smarts |-> offer[t].underlying], Smarts)
           wallet == [Wallets EXCEPT ![Reserve] = underlying]
           rest == MaxAmount - SumFunctionOnSet(wallet, Accounts)
       IN  /\ stat = [t \in Tokens |-> CASE t = Core -> CoreStat
                                       [] t \in Smarts -> Minting(offer[t])
                                       [] OTHER -> NoStat]
           /\ row = [t \in Tokens |-> [a \in Accounts |->
                       IF t # Core THEN NoRow
                       ELSE Holding(wallet[a] + IF a = Issuer[Core] THEN rest ELSE 0)]]
           /\ reserves = [t \in Derivatives |->
                            IF t \in Smarts THEN Backing(offer[t]) ELSE NoReserve]
  BY Zenon DEF BancorInit
<1> DEFINE under == [t \in Smarts |-> offer[t].underlying]
           underlying == SumFunctionOnSet(under, Smarts)
           wallet == [Wallets EXCEPT ![Reserve] = underlying]
           rest == MaxAmount - SumFunctionOnSet(wallet, Accounts)
<1>2. /\ stat = [t \in Tokens |-> CASE t = Core -> CoreStat
                                    [] t \in Smarts -> Minting(offer[t])
                                    [] OTHER -> NoStat]
      /\ row = [t \in Tokens |-> [a \in Accounts |->
                  IF t # Core THEN NoRow
                  ELSE Holding(wallet[a] + IF a = Issuer[Core] THEN rest ELSE 0)]]
      /\ reserves = [t \in Derivatives |->
                       IF t \in Smarts THEN Backing(offer[t]) ELSE NoReserve]
  BY <1>1, Zenon
<1>3. /\ \A t \in Smarts : offer[t] \in [derivative : 1 .. MaxAmount, underlying : Nat]
      /\ Wallets \in [Accounts -> Nat] /\ Reserve # Issuer[Core]
      /\ MaxAmount \in Nat
  BY Parties, Domains, BancorAssumption, ReserveAssumption
<1>4. underlying \in Nat
  <2>1. \A t \in Smarts : under[t] \in Nat
    BY <1>3
  <2> HIDE DEF under
  <2> QED BY <2>1, Parties, SumNat
<1>5. wallet[Reserve] = underlying
  BY <1>3, Parties
<1>6. row[Core][Reserve].bal = underlying
  <2>1. \A v \in Nat : Holding(v).bal = v
    BY DEF Holding, NoRow
  <2> HIDE DEF underlying, wallet, rest
  <2>2. row[Core][Reserve] = Holding(underlying + 0)
    BY <1>2, <1>3, <1>5, Parties
  <2> QED BY <1>4, <2>1, <2>2
<1>7. \A t \in Smarts : /\ reserves[t] = Backing(offer[t])
                        /\ Backing(offer[t]).underlying = offer[t].underlying
  <2>1. \A t \in Smarts : reserves[t] = Backing(offer[t])
    BY <1>2, Parties
  <2> QED BY <2>1 DEF Backing, NoReserve
<1>8. UnderlyingIn(reserves) = underlying
  <2> DEFINE F == UnderlyingOf(reserves)
  <2>1. /\ \A t \in Smarts : F[t] = under[t] /\ F[t] \in Nat
        /\ \A t \in Derivatives \ Smarts : F[t] = 0
    BY <1>2, <1>3, <1>7, Parties DEF UnderlyingOf, NoReserve
  <2>2. Smarts \in SUBSET Derivatives /\ \A t \in Derivatives : F[t] \in Int
    BY <2>1, Parties
  <2> HIDE DEF F, under
  <2>3. SumFunctionOnSet(F, Derivatives) = SumFunctionOnSet(F, Smarts)
    BY <2>1, <2>2, FiniteDerivatives, SumWithin
  <2>4. SumFunctionOnSet(F, Smarts) = SumFunctionOnSet(under, Smarts)
    BY <2>1, Parties, SumCongruence
  <2> QED BY <2>3, <2>4 DEF UnderlyingIn, F
<1>9. ReserveBacked
  <2> HIDE DEF underlying
  <2> QED BY <1>4, <1>6, <1>8, UnderlyingInTables DEF ReserveBacked
<1>10. FullyReserved
  <2> SUFFICES ASSUME NEW t \in Derivatives, Reserved(t)
               PROVE  stat[t].max <= reserves[t].derivative /\ Covers(reserves[t])
    BY DEF FullyReserved
  <2>1. t \in Smarts
    BY <1>2 DEF Reserved
  <2> DEFINE n == offer[t].derivative
             u == offer[t].underlying
  <2>2. n \in Nat /\ u \in Nat
    BY <1>3, <2>1
  <2>3. reserves[t] = [derivative |-> n, underlying |-> u, rate |-> <<u, n>>]
    BY <1>7, <2>1 DEF Backing, Reserved
  <2>4. stat[t].max = n
    <3>1. stat[t] = Minting(offer[t])
      BY <1>2, <2>1, Parties
    <3>2. Minting(offer[t]).max = n
      BY DEF Minting, Minted
    <3> QED BY <3>1, <3>2
  <2> HIDE DEF n, u
  <2>5. (n * u - u * n) * Precision = 0 /\ u * n >= 0
    BY <2>2, ReserveAssumption
  <2> QED BY <2>2, <2>3, <2>4, <2>5 DEF Covers
<1>11. config.owner # Reserve
  BY Parties DEF BancorInit, NoConfig
<1> QED BY <1>9, <1>10, <1>11, InitBooked DEF Backs

(* Conversions at the rate of a reserve are claims made on behalf of the    *)
(* sender: however they and the refunds are rounded, and whatever is        *)
(* issued, retired and burned between them, what gxc.reserve holds covers   *)
(* what it owes for all derivative tokens.                                  *)
THEOREM StaysBacked ==
  ASSUME ReserveIsApart
  PROVE  BancorSpec => []ReserveBacked
<1>1. Backs /\ [BancorNext]_bancorVars => Backs'
  BY StepKeepsBacks
<1>2. Backs => ReserveBacked
  BY DEF Backs
<1> QED BY InitBacks, <1>1, <1>2, PTL DEF BancorSpec

(* The same for every single unit: trading, which issues and retires the    *)
(* token, never leaves more of it in the world than its reserve covers at   *)
(* the rate of its minting, but for the error of a double in what was       *)
(* claimed.                                                                 *)
THEOREM StaysFull ==
  ASSUME ReserveIsApart
  PROVE  BancorSpec => []FullyReserved
<1>1. Backs /\ [BancorNext]_bancorVars => Backs'
  BY StepKeepsBacks
<1>2. Backs => FullyReserved
  BY DEF Backs
<1> QED BY InitBacks, <1>1, <1>2, PTL DEF BancorSpec

-----------------------------------------------------------------------------
(* Conservation.                                                            *)

(* The wallets, what gxc.reserve holds and the rest, which is with the      *)
(* issuer, are all of the system token; of the others none exists yet.      *)
LEMMA InitAddsUp == BancorInit => Accounted
<1> SUFFICES ASSUME BancorInit, NEW t \in Tokens
             PROVE  stat[t].supply = Held(row[t])
  BY DEF Accounted
<1>1. PICK offer \in [Smarts -> Backings] :
       LET underlying == SumFunctionOnSet([u \in Smarts |-> offer[u].underlying], Smarts)
           wallet == [Wallets EXCEPT ![Reserve] = underlying]
           rest == MaxAmount - SumFunctionOnSet(wallet, Accounts)
       IN  /\ stat = [u \in Tokens |-> CASE u = Core -> CoreStat
                                       [] u \in Smarts -> Minting(offer[u])
                                       [] OTHER -> NoStat]
           /\ row = [u \in Tokens |-> [a \in Accounts |->
                       IF u # Core THEN NoRow
                       ELSE Holding(wallet[a] + IF a = Issuer[Core] THEN rest ELSE 0)]]
  BY Zenon DEF BancorInit
<1> DEFINE under == [u \in Smarts |-> offer[u].underlying]
           underlying == SumFunctionOnSet(under, Smarts)
           wallet == [Wallets EXCEPT ![Reserve] = underlying]
           total == SumFunctionOnSet(wallet, Accounts)
           rest == MaxAmount - total
           i == Issuer[Core]
<1>2. /\ \A u \in Smarts : offer[u] \in [derivative : 1 .. MaxAmount, underlying : Nat]
      /\ Wallets \in [Accounts -> Nat] /\ Reserve \in Accounts /\ Core \in Tokens
      /\ MaxAmount \in Nat /\ i \in Accounts /\ \A u \in Smarts : u # Core
  BY Parties, Domains, BancorAssumption
<1>3. underlying \in Nat
  <2>1. \A u \in Smarts : under[u] \in Nat
    BY <1>2
  <2> HIDE DEF under
  <2> QED BY <2>1, Parties, SumNat
<1> HIDE DEF underlying, under
<1>4. \A a \in Accounts : wallet[a] \in Nat
  BY <1>2, <1>3
<1>5. /\ stat = [u \in Tokens |-> CASE u = Core -> CoreStat
                                    [] u \in Smarts -> Minting(offer[u])
                                    [] OTHER -> NoStat]
      /\ row = [u \in Tokens |-> [a \in Accounts |->
                  IF u # Core THEN NoRow
                  ELSE Holding(wallet[a] + IF a = i THEN rest ELSE 0)]]
  BY <1>1, Zenon DEF underlying, under
<1> HIDE DEF wallet
<1>6. total \in Nat
  BY <1>4, FiniteAccounts, SumNat
<1> HIDE DEF total, i
<1>7. Held(row[t]) = SumFunctionOnSet(Worth(row[t]), Accounts)
  BY Zenon DEF Held, Worth
<1>8. CASE t = Core
  <2> DEFINE W == Worth(row[t])
             Has(a) == wallet[a] + (IF a = i THEN rest ELSE 0)
  <2>1. \A a \in Accounts : Has(a) \in Int
    BY <1>2, <1>4, <1>6
  <2>2. \A a \in Accounts : row[t][a] = Holding(Has(a))
    BY <1>5, <1>8
  <2> HIDE DEF Has
  <2>3. \A a \in Accounts : W[a] = Has(a)
    <3> TAKE a \in Accounts
    <3>1. W[a] = row[t][a].bal + row[t][a].dep
      BY Zenon DEF Worth
    <3>2. \A x \in Int : Holding(x).bal + Holding(x).dep = x
      <4> TAKE x \in Int
      <4>1. CASE x = 0
        BY <4>1 DEF Holding, NoRow
      <4>2. CASE x # 0
        <5>1. Holding(x) = [NoRow EXCEPT !.open = TRUE, !.bal = x]
          BY <4>2 DEF Holding
        <5>2. Holding(x).bal = x /\ Holding(x).dep = 0
          BY <5>1 DEF NoRow
        <5> QED BY <5>2
      <4> QED BY <4>1, <4>2
    <3>3. row[t][a].bal + row[t][a].dep = Has(a)
      BY <2>1, <2>2, <3>2
    <3> QED BY <3>1, <3>3
  <2>4. W[i] = wallet[i] + rest /\ \A a \in Accounts \ {i} : W[a] = wallet[a]
    BY <1>2, <1>4, <2>3 DEF Has
  <2>5. W[i] \in Int /\ wallet[i] \in Int /\ rest \in Int
    BY <1>2, <1>4, <1>6, <2>4
  <2> HIDE DEF W
  <2>6. SumFunctionOnSet(W, Accounts) = total - wallet[i] + W[i]
    BY <1>2, <1>4, <2>4, <2>5, FiniteAccounts, SumUpdate DEF total
  <2>7. SumFunctionOnSet(W, Accounts) = MaxAmount
    BY <1>2, <1>6, <2>4, <2>5, <2>6
  <2>8. stat[t].supply = MaxAmount
    <3>1. stat[Core] = CoreStat
      <4>1. Core \notin Smarts
        BY <1>2
      <4>2. stat[Core] = CASE Core = Core -> CoreStat
                           [] Core \in Smarts -> Minting(offer[Core])
                           [] OTHER -> NoStat
        BY <1>2, <1>5, Zenon
      <4> QED BY <4>1, <4>2
    <3>2. CoreStat.supply = MaxAmount
      BY DEF CoreStat, Minted
    <3> QED BY <1>8, <3>1, <3>2
  <2> QED BY <1>7, <2>7, <2>8 DEF W
<1>9. CASE t # Core
  <2>1. \A a \in Accounts : Worth(row[t])[a] = 0
    BY <1>5, <1>9 DEF Worth, NoRow
  <2>2. SumFunctionOnSet(Worth(row[t]), Accounts) = 0
    BY <2>1, FiniteAccounts, SumZero
  <2>3. stat[t] = NoStat \/ stat[t] = Minting(offer[t])
    BY <1>5, <1>9
  <2>4. NoStat.supply = 0 /\ Minting(offer[t]).supply = 0
    BY DEF NoStat, Minting, Minted
  <2> QED BY <1>7, <2>2, <2>3, <2>4
<1> QED BY <1>8, <1>9

LEMMA StepKeepsAccounted ==
  ASSUME Booked, Accounted, [BancorNext]_bancorVars
  PROVE  Booked' /\ Accounted'
<1>1. Booked'
  BY StepKeepsBooked
<1>2. Balanced
  <2>1. CASE BancorNext
    BY <2>1, StepSettles DEF TradeSettled
  <2>2. CASE UNCHANGED bancorVars
    BY <2>2, SameSupply DEF bancorVars, reserveVars, vars
  <2> QED BY <2>1, <2>2
<1> QED BY <1>1, <1>2, AccountedOK DEF Booked

(* Smart tokens that conversions issue, retire and burn, in one transaction *)
(* with the system tokens and the reserve that pay for them: the rows of    *)
(* every token still add up to its supply, within its maximum.              *)
THEOREM MarketConserves == BancorSpec => []Conservation
<1>1. BancorInit => Booked /\ Accounted
  BY InitBooked, InitAddsUp
<1>2. Booked /\ Accounted /\ [BancorNext]_bancorVars => (Booked /\ Accounted)'
  BY StepKeepsAccounted
<1>3. Booked /\ Accounted => Conservation
  BY DEF Booked, Sound, Capped, Accounted, Conservation
<1> QED BY <1>1, <1>2, <1>3, PTL DEF BancorSpec

=============================================================================
