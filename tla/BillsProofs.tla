------------------------------ MODULE BillsProofs ------------------------------
(***************************************************************************)
(* Proofs about Bills, for any number of bills, rows, passes and requests, *)
(* any calendar and any match window: a payment linked by hand stays, what *)
(* is derived is the grid of due dates, and overdue means that no payment  *)
(* was found because there was none to find.  First what they rest on, for *)
(* any calendar, anchor and cadence: the occurrences of a bill grow with   *)
(* their ordinal, and the generator finds the first one of a day.          *)
(***************************************************************************)
EXTENDS Bills, FiniteSetTheorems, TLAPS

-----------------------------------------------------------------------------
(* Numbers *)

\* Multiplication by a natural number preserves the order.
LEMMA TimesMono == ASSUME NEW c \in Nat, NEW a \in Int, NEW b \in Int, a <= b PROVE c * a <= c * b
<1>1. PICK d \in Nat : b = a + d
  <2>1. b - a \in Nat /\ b = a + (b - a)
    OBVIOUS
  <2> QED BY <2>1
<1>2. c * b = c * a + c * d
  BY <1>1
<1>3. c * d \in Nat /\ c * a \in Int
  OBVIOUS
<1> QED BY <1>2, <1>3

\* Division with remainder.
LEMMA DivMod ==
    ASSUME NEW a \in Int, NEW b \in Nat \ {0}
    PROVE  a \div b \in Int /\ a % b \in 0 .. b - 1 /\ a = b * (a \div b) + (a % b)
OBVIOUS

\* The quotient and the remainder are the only ones.
LEMMA DivModUnique ==
    ASSUME NEW b \in Nat \ {0}, NEW q \in Int, NEW r \in 0 .. b - 1
    PROVE  (b * q + r) \div b = q /\ (b * q + r) % b = r
<1>1. PICK a \in Int : a = b * q + r
  OBVIOUS
<1>2. PICK p \in Int, s \in 0 .. b - 1 : p = a \div b /\ s = a % b /\ a = b * p + s
  BY DivMod
<1>3. b * q + r = b * p + s
  BY <1>1, <1>2
<1>4. b * (q - p) = s - r
  BY <1>3
<1>5. CASE q - p >= 1
  <2>1. b * (q - p) >= b * 1
    BY <1>5, TimesMono
  <2> QED BY <2>1, <1>4
<1>6. CASE q - p <= -1
  <2>1. b * (q - p) <= b * (-1)
    BY <1>6, TimesMono
  <2> QED BY <2>1, <1>4
<1>7. CASE q = p
  BY <1>1, <1>2, <1>3, <1>7
<1> QED BY <1>5, <1>6, <1>7

\* The least and the greatest of a set of integers, where there is one.
LEMMA MinIs ==
    ASSUME NEW S \in SUBSET Int, NEW x \in S, \A y \in S : x <= y PROVE Min(S) = x
<1>1. \A y \in S : (\A z \in S : y <= z) => y = x
  OBVIOUS
<1> QED BY <1>1 DEF Min

LEMMA MaxIs ==
    ASSUME NEW S \in SUBSET Int, NEW x \in S, \A y \in S : x >= y PROVE Max(S) = x
<1>1. \A y \in S : (\A z \in S : y >= z) => y = x
  OBVIOUS
<1> QED BY <1>1 DEF Max

-----------------------------------------------------------------------------
(* Least elements *)

\* Every set of natural numbers has a least one: the intervals up to its members
\* are finite sets, and strict inclusion of finite sets is well-founded.
LEMMA Least ==
    ASSUME NEW T \in SUBSET Nat, T # {}
    PROVE  \E n \in T : \A m \in T : n <= m
<1> DEFINE Upto == {0 .. n : n \in T}
           R == StrictSubsetOrdering(Nat)
<1>1. \A n \in Nat : 0 .. n \in FiniteSubsetsOf(Nat)
  <2> SUFFICES ASSUME NEW n \in Nat PROVE IsFiniteSet(0 .. n) /\ 0 .. n \in SUBSET Nat
    BY DEF FiniteSubsetsOf
  <2> QED BY FS_Interval
<1>2. IsWellFoundedOn(R, FiniteSubsetsOf(Nat)) /\ Upto \subseteq FiniteSubsetsOf(Nat) /\ Upto # {}
  BY <1>1, FS_StrictSubsetOrderingWellFounded
<1>3. \E x \in Upto : \A y \in Upto : ~ (<<y, x>> \in R)
  <2> HIDE DEF Upto, R
  <2> QED BY <1>2, WFMin
<1>4. PICK n \in T : \A m \in T : ~ (<<0 .. m, 0 .. n>> \in R)
  BY <1>3
<1>5. ASSUME NEW m \in T, m < n PROVE FALSE
  <2>1. 0 .. m \subseteq 0 .. n /\ n \in 0 .. n /\ n \notin 0 .. m
    BY <1>5
  <2>2. <<0 .. m, 0 .. n>> \in R
    BY <2>1, <1>1 DEF StrictSubsetOrdering, FiniteSubsetsOf
  <2> QED BY <2>2, <1>4
<1>6. \A m \in T : n <= m
  BY <1>5
<1> QED BY <1>6

\* So has a set of integers with a lower bound.
LEMMA LeastOfInts ==
    ASSUME NEW S \in SUBSET Int, S # {}, NEW b \in Int, \A x \in S : b <= x
    PROVE  \E n \in S : \A m \in S : n <= m
<1> DEFINE T == {x - b : x \in S}
<1>1. T \in SUBSET Nat /\ T # {}
  <2>1. \A x \in S : x - b \in Nat
    OBVIOUS
  <2> QED BY <2>1
<1>2. PICK t \in T : \A m \in T : t <= m
  <2> HIDE DEF T
  <2> QED BY <1>1, Least
<1>3. PICK n \in S : t = n - b
  BY <1>2
<1>4. \A m \in S : n <= m
  <2> SUFFICES ASSUME NEW m \in S PROVE n <= m
    OBVIOUS
  <2>1. m - b \in T
    OBVIOUS
  <2>2. n - b <= m - b
    BY <2>1, <1>2, <1>3
  <2> HIDE DEF T
  <2> QED BY <2>2
<1> QED BY <1>4

\* And a set of integers with an upper bound has a greatest.
LEMMA GreatestOfInts ==
    ASSUME NEW S \in SUBSET Int, S # {}, NEW b \in Int, \A x \in S : x <= b
    PROVE  \E n \in S : \A m \in S : n >= m
<1> DEFINE T == {-x : x \in S}
<1>1. T \in SUBSET Int /\ T # {} /\ -b \in Int /\ \A x \in T : -b <= x
  <2>1. \A x \in S : -x \in Int /\ -b <= -x
    OBVIOUS
  <2>2. T \in SUBSET Int /\ \A x \in T : -b <= x
    BY <2>1
  <2>3. PICK x \in S : TRUE
    OBVIOUS
  <2>4. -x \in T
    BY <2>3
  <2>5. -b \in Int
    OBVIOUS
  <2> HIDE DEF T
  <2>6. T # {}
    BY <2>4
  <2> QED BY <2>2, <2>5, <2>6
<1>2. PICK t \in T : \A m \in T : t <= m
  <2> HIDE DEF T
  <2>1. PICK c \in Int : c = -b
    BY <1>1
  <2>2. T \in SUBSET Int /\ T # {} /\ \A x \in T : c <= x
    BY <1>1, <2>1
  <2>3. \E n \in T : \A k \in T : n <= k
    BY <2>2, LeastOfInts
  <2> QED BY <2>3
<1>3. PICK n \in S : t = -n
  BY <1>2
<1>4. \A m \in S : n >= m
  <2> SUFFICES ASSUME NEW m \in S PROVE n >= m
    OBVIOUS
  <2>1. -m \in T
    OBVIOUS
  <2>2. -n <= -m
    BY <2>1, <1>2, <1>3
  <2> HIDE DEF T
  <2> QED BY <2>2
<1> QED BY <1>4

-----------------------------------------------------------------------------
(* The calendar *)

\* The bounds of the months of a period.
LEMMA EndsFacts ==
    /\ Period \in Nat \ {0} /\ PeriodDays \in Nat \ {0} /\ PeriodDays >= Period
    /\ Ends[1] = 0
    /\ \A k \in 0 .. Period : Ends[k + 1] \in Nat
    /\ \A i, j \in 0 .. Period : i <= j => Ends[j + 1] - Ends[i + 1] >= j - i
<1>1. Ends \in Seq(Nat) /\ Len(Ends) \in Nat /\ Len(Ends) > 1 /\ Ends[1] = 0
  BY CalendarAssumption
<1>2. Period \in Nat \ {0}
  BY <1>1 DEF Period
<1>3. \A k \in 0 .. Period : k + 1 \in 1 .. Len(Ends) /\ Ends[k + 1] \in Nat
  BY <1>1 DEF Period
<1>4. \A i, j \in 0 .. Period : i <= j => Ends[j + 1] - Ends[i + 1] >= j - i
  <2> SUFFICES ASSUME NEW i \in 0 .. Period, NEW j \in 0 .. Period, i <= j
               PROVE  Ends[j + 1] - Ends[i + 1] >= j - i
    OBVIOUS
  <2>1. CASE i = j
    BY <1>3, <2>1
  <2>2. CASE i < j
    <3>1. Ends[j + 1] - Ends[i + 1] >= (j + 1) - (i + 1)
      BY <1>3, <2>2, CalendarAssumption
    <3> QED BY <3>1, <1>3
  <2> QED BY <2>1, <2>2
<1>5. PeriodDays \in Nat /\ PeriodDays >= Period
  <2>1. PeriodDays = Ends[Period + 1] /\ PeriodDays \in Nat
    BY <1>2, <1>3 DEF PeriodDays
  <2>2. Ends[Period + 1] - Ends[0 + 1] >= Period - 0
    BY <1>2, <1>4
  <2> QED BY <2>1, <2>2, <1>1, <1>2
<1> QED BY <1>1, <1>2, <1>3, <1>4, <1>5

LEMMA EndsGrow ==
    ASSUME NEW i \in 0 .. Period, NEW j \in 0 .. Period, i <= j
    PROVE  Ends[i + 1] \in Nat /\ Ends[j + 1] \in Nat /\ Ends[j + 1] - Ends[i + 1] >= j - i
BY EndsFacts

\* A month of a period: its first day, its length, and where the next one begins.
LEMMA MonthOfPeriod ==
    ASSUME NEW q \in Int, NEW r \in 0 .. Period - 1, NEW m, m = Period * q + r
    PROVE  /\ m \in Int
           /\ FirstOf(m) = q * PeriodDays + Ends[r + 1]
           /\ LenOf(m) = Ends[r + 2] - Ends[r + 1]
           /\ FirstOf(m + 1) = q * PeriodDays + Ends[r + 2]
<1>1. m \div Period = q /\ m % Period = r /\ m \in Int
  BY EndsFacts, DivModUnique
<1>2. FirstOf(m) = q * PeriodDays + Ends[r + 1] /\ LenOf(m) = Ends[r + 2] - Ends[r + 1]
  BY <1>1 DEF FirstOf, LenOf
<1>3. FirstOf(m + 1) = q * PeriodDays + Ends[r + 2]
  <2>1. CASE r < Period - 1
    <3>1. r + 1 \in 0 .. Period - 1 /\ m + 1 = Period * q + (r + 1)
      BY <2>1, EndsFacts
    <3>2. (m + 1) \div Period = q /\ (m + 1) % Period = r + 1
      BY <3>1, EndsFacts, DivModUnique
    <3>3. FirstOf(m + 1) = q * PeriodDays + Ends[(r + 1) + 1]
      BY <3>2 DEF FirstOf
    <3> QED BY <3>3
  <2>2. CASE r = Period - 1
    <3>1. 0 \in 0 .. Period - 1 /\ m + 1 = Period * (q + 1) + 0
      BY <2>2, EndsFacts
    <3>2. (m + 1) \div Period = q + 1 /\ (m + 1) % Period = 0
      BY <3>1, EndsFacts, DivModUnique
    <3>3. FirstOf(m + 1) = (q + 1) * PeriodDays + Ends[0 + 1]
      BY <3>2 DEF FirstOf
    <3>4. r + 2 = Period + 1
      BY <2>2, EndsFacts
    <3>5. Ends[r + 2] = PeriodDays
      BY <3>4 DEF PeriodDays
    <3>6. (q + 1) * PeriodDays = q * PeriodDays + PeriodDays
      BY EndsFacts
    <3> QED BY <3>3, <3>5, <3>6, EndsFacts
  <2> QED BY <2>1, <2>2, EndsFacts
<1> QED BY <1>1, <1>2, <1>3

\* Months follow one another, and each has a day or more.
LEMMA MonthsFollow ==
    ASSUME NEW m \in Int
    PROVE  /\ FirstOf(m) \in Int /\ LenOf(m) \in Nat \ {0}
           /\ FirstOf(m + 1) = FirstOf(m) + LenOf(m)
<1>1. PICK q \in Int, r \in 0 .. Period - 1 : m = Period * q + r
  BY EndsFacts, DivMod
<1>2. /\ r \in 0 .. Period /\ r + 1 \in 0 .. Period
  BY EndsFacts
<1>3. Ends[r + 1] \in Nat /\ Ends[r + 2] \in Nat /\ Ends[r + 2] - Ends[r + 1] >= 1
  <2>1. Ends[(r + 1) + 1] \in Nat /\ Ends[(r + 1) + 1] - Ends[r + 1] >= (r + 1) - r
    <3>1. r <= r + 1
      OBVIOUS
    <3> QED BY <3>1, <1>2, EndsGrow
  <2>2. (r + 1) + 1 = r + 2 /\ (r + 1) - r = 1
    OBVIOUS
  <2>3. Ends[r + 1] \in Nat
    BY <1>2, EndsFacts
  <2> QED BY <2>1, <2>2, <2>3
<1>4. /\ FirstOf(m) = q * PeriodDays + Ends[r + 1]
      /\ LenOf(m) = Ends[r + 2] - Ends[r + 1]
      /\ FirstOf(m + 1) = q * PeriodDays + Ends[r + 2]
  BY <1>1, MonthOfPeriod
<1>5. q * PeriodDays \in Int
  BY EndsFacts
<1> QED BY <1>3, <1>4, <1>5

\* Months further on begin later, by a day a month or more.
LEMMA MonthsGrow ==
    ASSUME NEW i \in Int, NEW j \in Int, i <= j PROVE FirstOf(j) - FirstOf(i) >= j - i
<1>1. PICK q \in Int, r \in 0 .. Period - 1 : i = Period * q + r
  BY EndsFacts, DivMod
<1>2. PICK p \in Int, s \in 0 .. Period - 1 : j = Period * p + s
  BY EndsFacts, DivMod
<1>3. FirstOf(i) = q * PeriodDays + Ends[r + 1] /\ FirstOf(j) = p * PeriodDays + Ends[s + 1]
  BY <1>1, <1>2, MonthOfPeriod
<1>4. r \in 0 .. Period /\ s \in 0 .. Period /\ 0 \in 0 .. Period /\ Period \in 0 .. Period
  BY EndsFacts
<1>5. Ends[r + 1] \in Nat /\ Ends[s + 1] \in Nat
  BY <1>4, EndsFacts
<1>6. CASE p = q
  <2>1. r <= s
    BY <1>1, <1>2, <1>6, EndsFacts
  <2>2. Ends[s + 1] - Ends[r + 1] >= s - r
    BY <1>4, <2>1, EndsFacts
  <2>3. q * PeriodDays \in Int /\ Period * q \in Int
    BY EndsFacts
  <2> QED BY <1>1, <1>2, <1>3, <1>5, <1>6, <2>2, <2>3
<1>7. CASE p > q
  <2>1. PICK k \in Nat : k = p - q - 1
    BY <1>7
  <2>2. Ends[s + 1] >= s
    <3>1. Ends[s + 1] - Ends[0 + 1] >= s - 0
      <4>1. 0 <= s
        OBVIOUS
      <4> QED BY <4>1, <1>4, EndsGrow
    <3> QED BY <3>1, <1>5, EndsFacts
  <2>3. PeriodDays - Ends[r + 1] >= Period - r
    BY <1>4, EndsFacts DEF PeriodDays
  <2>4. k * Period <= k * PeriodDays
    <3>1. Period \in Int /\ PeriodDays \in Int /\ Period <= PeriodDays
      BY EndsFacts
    <3> QED BY <3>1, TimesMono
  <2>5. p * PeriodDays = q * PeriodDays + k * PeriodDays + PeriodDays
    BY <2>1, EndsFacts
  <2>6. Period * p = Period * q + k * Period + Period
    BY <2>1, EndsFacts
  <2>7. /\ q * PeriodDays \in Int /\ k * PeriodDays \in Int /\ Period * q \in Int /\ k * Period \in Int
        /\ PeriodDays \in Int /\ Period \in Int
    BY EndsFacts
  <2> QED BY <1>1, <1>2, <1>3, <1>5, <2>2, <2>3, <2>4, <2>5, <2>6, <2>7
<1>8. CASE p < q
  <2>1. Period * (q - p) >= Period * 1
    BY <1>8, EndsFacts, TimesMono
  <2>2. Period * (q - p) = Period * q - Period * p
    BY EndsFacts
  <2>3. Period * q \in Int /\ Period * p \in Int /\ Period \in Int
    BY EndsFacts
  <2> QED BY <1>1, <1>2, <2>1, <2>2, <2>3
<1> QED BY <1>6, <1>7, <1>8

\* The month of a day begins on or before it, and the next one after it.
LEMMA MonthHoldsDay ==
    ASSUME NEW d \in Int
    PROVE  MonthOf(d) \in Int /\ FirstOf(MonthOf(d)) <= d /\ d < FirstOf(MonthOf(d) + 1)
<1>1. PICK q \in Int, x \in 0 .. PeriodDays - 1 :
          q = d \div PeriodDays /\ x = d % PeriodDays /\ d = PeriodDays * q + x
  BY EndsFacts, DivMod
<1> DEFINE S == {k \in 1 .. Period : Ends[k + 1] <= x}
           C == Cardinality(S)
<1>2. IsFiniteSet(1 .. Period) /\ Cardinality(1 .. Period) = Period
  <2>1. 1 \in Int /\ Period \in Int /\ 1 <= Period
    BY EndsFacts
  <2>2. Cardinality(1 .. Period) = Period - 1 + 1
    BY <2>1, FS_Interval
  <2> QED BY <2>1, <2>2, FS_Interval
<1>3. /\ IsFiniteSet(S) /\ C \in Nat /\ C <= Period
      /\ C = Period => S = 1 .. Period
  <2>1. S \subseteq 1 .. Period
    OBVIOUS
  <2> HIDE DEF S
  <2> QED BY <1>2, <2>1, FS_Subset, FS_CardinalityType
<1>4. C < Period
  <2>1. CASE C = Period
    <3>1. Period \in S
      BY <2>1, <1>3, EndsFacts
    <3>2. PeriodDays <= x
      BY <3>1 DEF PeriodDays
    <3> QED BY <3>2, EndsFacts
  <2>2. C # Period => C < Period
    <3> HIDE DEF C
    <3> QED BY <1>3, EndsFacts
  <2> QED BY <2>1, <2>2
<1>5. ASSUME NEW T \in SUBSET S PROVE IsFiniteSet(T) /\ Cardinality(T) <= C
  <2> HIDE DEF S
  <2> QED BY <1>3, <1>5, FS_Subset
<1>6. ASSUME NEW n \in Nat, 1 .. n \subseteq S PROVE n <= C
  <2>1. Cardinality(1 .. n) <= C
    BY <1>5, <1>6
  <2>2. n >= 1 => Cardinality(1 .. n) = n - 1 + 1
    BY FS_Interval
  <2>3. C \in Nat
    BY <1>3
  <2> HIDE DEF C
  <2> QED BY <2>1, <2>2, <2>3
<1>7. ASSUME NEW n \in Nat, S \subseteq 1 .. n PROVE C <= n
  <2>1. IsFiniteSet(1 .. n)
    BY FS_Interval
  <2>2. C <= Cardinality(1 .. n)
    <3> HIDE DEF S
    <3> QED BY <2>1, <1>7, FS_Subset
  <2>3. Cardinality(1 .. n) = n
    <3>1. CASE n >= 1
      <4>1. Cardinality(1 .. n) = n - 1 + 1
        BY <3>1, FS_Interval
      <4> QED BY <4>1
    <3>2. CASE n = 0
      <4>1. 1 .. n = {}
        BY <3>2
      <4> QED BY <4>1, <3>2, FS_EmptySet
    <3> QED BY <3>1, <3>2
  <2> QED BY <2>2, <2>3
<1>8. ASSUME NEW k \in S, NEW j \in 1 .. k PROVE j \in S
  <2>1. j \in 0 .. Period /\ k \in 0 .. Period /\ j <= k /\ j \in 1 .. Period
    BY EndsFacts
  <2>2. Ends[j + 1] \in Nat /\ Ends[k + 1] \in Nat /\ Ends[k + 1] - Ends[j + 1] >= k - j
    BY <2>1, EndsGrow
  <2>3. Ends[k + 1] <= x
    OBVIOUS
  <2>4. Ends[j + 1] <= x
    BY <2>1, <2>2, <2>3
  <2> QED BY <2>1, <2>4
<1>9. PICK c \in 0 .. Period - 1 : c = C
  <2> HIDE DEF C
  <2> QED BY <1>3, <1>4, EndsFacts
<1>10. Ends[c + 1] <= x
  <2>1. CASE c = 0
    BY <2>1, EndsFacts
  <2>2. CASE c >= 1 /\ c \notin S
    <3>1. S \subseteq 1 .. (c - 1)
      <4> SUFFICES ASSUME NEW k \in S PROVE k \in 1 .. (c - 1)
        OBVIOUS
      <4>1. ~(c \in 1 .. k)
        BY <1>8, <2>2
      <4> QED BY <4>1, <2>2, EndsFacts
    <3>2. c <= c - 1
      <4> HIDE DEF S
      <4> QED BY <3>1, <1>7, <1>9, <2>2
    <3> QED BY <3>2
  <2>3. CASE c \in S
    BY <2>3
  <2> QED BY <2>1, <2>2, <2>3
<1>11. x < Ends[c + 2]
  <2>1. c + 1 \in 0 .. Period /\ c + 1 \in 1 .. Period /\ c + 1 \in Nat
    BY EndsFacts
  <2>2. Ends[(c + 1) + 1] \in Nat /\ (c + 1) + 1 = c + 2
    <3>1. c + 1 <= c + 1 /\ (c + 1) + 1 = c + 2
      OBVIOUS
    <3> QED BY <2>1, <3>1, EndsGrow
  <2>3. CASE Ends[c + 2] <= x
    <3>1. Ends[(c + 1) + 1] <= x
      BY <2>2, <2>3
    <3>2. c + 1 \in S
      BY <2>1, <3>1
    <3>3. 1 .. (c + 1) \subseteq S
      BY <1>8, <3>2
    <3>4. c + 1 <= c
      BY <1>6, <1>9, <2>1, <3>3
    <3> QED BY <3>4
  <2> QED BY <2>2, <2>3
<1>12. MonthOf(d) = Period * q + c
  <2>1. MonthOf(d) = q * Period + C
    BY <1>1 DEF MonthOf
  <2> HIDE DEF C
  <2> QED BY <1>9, <2>1, EndsFacts
<1>13. /\ MonthOf(d) \in Int /\ FirstOf(MonthOf(d)) = q * PeriodDays + Ends[c + 1]
       /\ FirstOf(MonthOf(d) + 1) = q * PeriodDays + Ends[c + 2]
  BY <1>12, MonthOfPeriod
<1>14. /\ Ends[c + 1] \in Nat /\ Ends[c + 2] \in Nat
  <2>1. c \in 0 .. Period /\ c + 1 \in 0 .. Period /\ c <= c + 1 /\ (c + 1) + 1 = c + 2
    BY EndsFacts
  <2>2. Ends[(c + 1) + 1] \in Nat /\ Ends[c + 1] \in Nat
    BY <2>1, EndsGrow
  <2> QED BY <2>1, <2>2
<1>15. /\ PeriodDays * q = q * PeriodDays /\ q * PeriodDays \in Int
       /\ d = PeriodDays * q + x
  BY <1>1, EndsFacts
<1>16. FirstOf(MonthOf(d)) <= d /\ d < FirstOf(MonthOf(d) + 1)
  <2> HIDE DEF S, C
  <2>1. /\ q * PeriodDays + Ends[c + 1] <= d
        /\ d < q * PeriodDays + Ends[c + 2]
    BY <1>10, <1>11, <1>14, <1>15, EndsFacts
  <2> QED BY <1>13, <2>1
<1> QED BY <1>13, <1>16

\* It is the only such month.
LEMMA MonthOfDayIs ==
    ASSUME NEW d \in Int, NEW m \in Int, FirstOf(m) <= d, d < FirstOf(m + 1) PROVE MonthOf(d) = m
<1>1. PICK k \in Int : k = MonthOf(d)
  BY MonthHoldsDay
<1>2. /\ FirstOf(k) <= d /\ d < FirstOf(k + 1)
      /\ FirstOf(k) \in Int /\ FirstOf(k + 1) \in Int /\ FirstOf(m) \in Int /\ FirstOf(m + 1) \in Int
  BY <1>1, MonthHoldsDay, MonthsFollow
<1>3. CASE k < m
  <2>1. FirstOf(m) - FirstOf(k + 1) >= m - (k + 1)
    BY <1>3, MonthsGrow
  <2> QED BY <1>2, <1>3, <2>1
<1>4. CASE m < k
  <2>1. FirstOf(k) - FirstOf(m + 1) >= k - (m + 1)
    BY <1>4, MonthsGrow
  <2> QED BY <1>2, <1>4, <2>1
<1> QED BY <1>1, <1>3, <1>4

\* A day is a day of its month.
LEMMA DayInMonth == ASSUME NEW d \in Int PROVE DayIn(d) \in 0 .. LenOf(MonthOf(d)) - 1
<1>1. PICK k \in Int : k = MonthOf(d)
  BY MonthHoldsDay
<1>2. FirstOf(k) <= d /\ d < FirstOf(k + 1)
  BY <1>1, MonthHoldsDay
<1>3. FirstOf(k) \in Int /\ LenOf(k) \in Nat /\ FirstOf(k + 1) = FirstOf(k) + LenOf(k)
  BY MonthsFollow
<1>4. DayIn(d) = d - FirstOf(k)
  BY <1>1 DEF DayIn
<1> QED BY <1>1, <1>2, <1>3, <1>4

-----------------------------------------------------------------------------
(* The occurrences of a bill *)

LEMMA StepFacts ==
    ASSUME NEW c \in Cadences
    PROVE  /\ StepDays[c] \in Nat /\ StepMonths[c] \in Nat
           /\ ~(StepDays[c] > 0) => StepMonths[c] >= 1
BY CalendarAssumption

\* A step of months stays on the anchor's day, or on the last day of a short month.
LEMMA Clamped ==
    ASSUME NEW a \in Int, NEW n \in Int
    PROVE  LET m == MonthOf(a) + n IN
           /\ AddMonthsClamped(a, n) \in Int
           /\ MonthOf(AddMonthsClamped(a, n)) = m
           /\ FirstOf(m) <= AddMonthsClamped(a, n) /\ AddMonthsClamped(a, n) < FirstOf(m + 1)
           /\ DayIn(AddMonthsClamped(a, n)) =
                  IF DayIn(a) >= LenOf(m) THEN LenOf(m) - 1 ELSE DayIn(a)
<1>1. PICK m \in Int : m = MonthOf(a) + n
  BY MonthHoldsDay
<1>2. PICK k \in Nat : k = DayIn(a)
  <2>1. LenOf(MonthOf(a)) \in Nat
    BY MonthHoldsDay, MonthsFollow
  <2> QED BY <2>1, DayInMonth
<1>3. PICK f \in Int, len \in Nat \ {0} : f = FirstOf(m) /\ len = LenOf(m) /\ FirstOf(m + 1) = f + len
  BY MonthsFollow
<1>4. PICK k2 \in 0 .. len - 1 : k2 = IF k >= len THEN len - 1 ELSE k
  OBVIOUS
<1>5. AddMonthsClamped(a, n) = f + k2
  BY <1>1, <1>2, <1>3, <1>4 DEF AddMonthsClamped
<1>6. FirstOf(m) <= f + k2 /\ f + k2 < FirstOf(m + 1) /\ f + k2 \in Int
  BY <1>3
<1>7. MonthOf(f + k2) = m
  BY <1>6, MonthOfDayIs
<1>8. DayIn(f + k2) = k2
  BY <1>3, <1>7 DEF DayIn
<1> QED BY <1>1, <1>2, <1>3, <1>4, <1>5, <1>6, <1>7, <1>8

\* An occurrence of a cadence of months is in its month.
LEMMA OccurrenceInMonth ==
    ASSUME NEW a \in Int, NEW c \in Cadences, NEW n \in Int, ~(StepDays[c] > 0)
    PROVE  LET m == MonthOf(a) + n * StepMonths[c] IN
           /\ m \in Int /\ OccurrenceAt(a, c, n) = AddMonthsClamped(a, n * StepMonths[c])
           /\ OccurrenceAt(a, c, n) \in Int
           /\ MonthOf(OccurrenceAt(a, c, n)) = m
           /\ FirstOf(m) <= OccurrenceAt(a, c, n) /\ OccurrenceAt(a, c, n) < FirstOf(m + 1)
<1>1. PICK k \in Int : k = n * StepMonths[c]
  BY StepFacts
<1>2. OccurrenceAt(a, c, n) = AddMonthsClamped(a, k)
  BY <1>1 DEF OccurrenceAt
<1>3. PICK m \in Int : m = MonthOf(a) + k
  BY MonthHoldsDay
<1>4. /\ AddMonthsClamped(a, k) \in Int /\ MonthOf(AddMonthsClamped(a, k)) = m
      /\ FirstOf(m) <= AddMonthsClamped(a, k) /\ AddMonthsClamped(a, k) < FirstOf(m + 1)
  BY <1>3, Clamped
<1> QED BY <1>1, <1>2, <1>3, <1>4

\* An occurrence is a day, and later ones are later, by a day a step or more.
LEMMA OccurrencesGrow ==
    ASSUME NEW a \in Int, NEW c \in Cadences, NEW i \in Int, NEW j \in Int, i <= j
    PROVE  /\ OccurrenceAt(a, c, i) \in Int /\ OccurrenceAt(a, c, j) \in Int
           /\ OccurrenceAt(a, c, j) - OccurrenceAt(a, c, i) >= j - i
<1>1. CASE StepDays[c] > 0
  <2>1. PICK s \in Nat : s = StepDays[c] /\ s >= 1
    BY <1>1, StepFacts
  <2>2. OccurrenceAt(a, c, i) = a + i * s /\ OccurrenceAt(a, c, j) = a + j * s
    BY <1>1, <2>1 DEF OccurrenceAt
  <2>3. (j - i) * 1 <= (j - i) * s
    BY <2>1, TimesMono
  <2>4. (j - i) * s = j * s - i * s /\ j * s \in Int /\ i * s \in Int
    OBVIOUS
  <2> QED BY <2>2, <2>3, <2>4
<1>2. CASE ~(StepDays[c] > 0)
  <2>1. PICK s \in Nat : s = StepMonths[c] /\ s >= 1
    BY <1>2, StepFacts
  <2>2. PICK k \in Int, l \in Int : k = MonthOf(a) + i * s /\ l = MonthOf(a) + j * s
    BY <2>1, MonthHoldsDay
  <2>3. /\ OccurrenceAt(a, c, i) \in Int /\ OccurrenceAt(a, c, j) \in Int
        /\ OccurrenceAt(a, c, i) < FirstOf(k + 1) /\ FirstOf(l) <= OccurrenceAt(a, c, j)
    BY <1>2, <2>1, <2>2, OccurrenceInMonth
  <2>4. l - k >= j - i
    <3>1. (j - i) * 1 <= (j - i) * s
      BY <2>1, TimesMono
    <3>2. (j - i) * s = j * s - i * s /\ j * s \in Int /\ i * s \in Int
      OBVIOUS
    <3>3. MonthOf(a) \in Int
      BY MonthHoldsDay
    <3> QED BY <2>2, <3>1, <3>2, <3>3
  <2>5. CASE i < j
    <3>1. FirstOf(l) - FirstOf(k + 1) >= l - (k + 1)
      BY <2>4, <2>5, MonthsGrow
    <3>2. FirstOf(l) \in Int /\ FirstOf(k + 1) \in Int
      BY MonthsFollow
    <3> QED BY <2>3, <2>4, <3>1, <3>2
  <2>6. CASE i = j
    BY <2>3, <2>6
  <2> QED BY <2>3, <2>5, <2>6
<1> QED BY <1>1, <1>2

\* Go's division, rounded up.
LEMMA CeilDivIs ==
    ASSUME NEW x \in Int, NEW s \in Nat \ {0}
    PROVE  CeilDiv(x, s) \in Int /\ s * CeilDiv(x, s) >= x /\ s * (CeilDiv(x, s) - 1) < x
<1>1. CASE x >= 0
  <2>1. PICK q \in Int, r \in 0 .. s - 1 : q = x \div s /\ x = s * q + r
    BY DivMod
  <2>2. Quot(x, s) = q
    BY <1>1, <2>1 DEF Quot
  <2>3. CeilDiv(x, s) = q + (IF r > 0 THEN 1 ELSE 0)
    BY <2>1, <2>2 DEF CeilDiv
  <2>4. s * (q + 1) = s * q + s /\ s * (q - 1) = s * q - s /\ s * q \in Int
    OBVIOUS
  <2>5. CASE r > 0
    <3>1. CeilDiv(x, s) = q + 1 /\ CeilDiv(x, s) - 1 = q
      BY <2>3, <2>5
    <3> QED BY <3>1, <2>1, <2>4, <2>5
  <2>6. CASE r = 0
    <3>1. CeilDiv(x, s) = q
      BY <2>3, <2>6
    <3> QED BY <3>1, <2>1, <2>4, <2>6
  <2> QED BY <2>5, <2>6
<1>2. CASE x < 0
  <2>0. PICK y \in Int : y = -x
    OBVIOUS
  <2>1. PICK q \in Int, r \in 0 .. s - 1 : q = (-x) \div s /\ -x = s * q + r
    <3>1. PICK q \in Int, r \in 0 .. s - 1 : q = y \div s /\ y = s * q + r
      BY DivMod
    <3> QED BY <2>0, <3>1
  <2>2. Quot(x, s) = -q
    BY <1>2, <2>1 DEF Quot
  <2>3. s * (-q) = -(s * q) /\ s * (-q - 1) = -(s * q) - s /\ s * q \in Int
    OBVIOUS
  <2>4. x - s * Quot(x, s) = -r
    BY <2>1, <2>2, <2>3
  <2>5. CeilDiv(x, s) = -q
    BY <2>2, <2>4 DEF CeilDiv
  <2> QED BY <2>1, <2>3, <2>5
<1> QED BY <1>1, <1>2

\* Go's division, rounded towards zero, is off by less than one.
LEMMA QuotIs ==
    ASSUME NEW x \in Int, NEW s \in Nat \ {0}
    PROVE  Quot(x, s) \in Int /\ s * (Quot(x, s) - 1) < x /\ x < s * (Quot(x, s) + 1)
<1>1. CASE x >= 0
  <2>1. PICK q \in Int, r \in 0 .. s - 1 : q = x \div s /\ x = s * q + r
    BY DivMod
  <2>2. Quot(x, s) = q
    BY <1>1, <2>1 DEF Quot
  <2>3. s * (q + 1) = s * q + s /\ s * (q - 1) = s * q - s /\ s * q \in Int
    OBVIOUS
  <2> QED BY <2>1, <2>2, <2>3
<1>2. CASE x < 0
  <2>0. PICK y \in Int : y = -x
    OBVIOUS
  <2>1. PICK q \in Int, r \in 0 .. s - 1 : q = (-x) \div s /\ -x = s * q + r
    <3>1. PICK q \in Int, r \in 0 .. s - 1 : q = y \div s /\ y = s * q + r
      BY DivMod
    <3> QED BY <2>0, <3>1
  <2>2. Quot(x, s) = -q
    BY <1>2, <2>1 DEF Quot
  <2>3. s * (-q + 1) = -(s * q) + s /\ s * (-q - 1) = -(s * q) - s /\ s * q \in Int
    OBVIOUS
  <2> QED BY <2>1, <2>2, <2>3
<1> QED BY <1>1, <1>2

\* Two steps down and three up are enough: the ordinal of the first occurrence on
\* or after a day.
LEMMA DueOrdinalIs ==
    ASSUME NEW a \in Int, NEW c \in Cadences, NEW day \in Int
    PROVE  /\ DueOrdinal(a, c, day) \in Int
           /\ OccurrenceAt(a, c, DueOrdinal(a, c, day)) >= day
           /\ OccurrenceAt(a, c, DueOrdinal(a, c, day) - 1) < day
<1>1. CASE StepDays[c] > 0
  <2>1. PICK s \in Nat \ {0} : s = StepDays[c]
    BY <1>1, StepFacts
  <2>2. PICK n \in Int : n = CeilDiv(day - a, s) /\ s * n >= day - a /\ s * (n - 1) < day - a
    <3>1. PICK x \in Int : x = day - a
      OBVIOUS
    <3> QED BY <3>1, CeilDivIs
  <2>3. DueOrdinal(a, c, day) = n
    BY <1>1, <2>1, <2>2 DEF DueOrdinal
  <2>4. OccurrenceAt(a, c, n) = a + n * s /\ OccurrenceAt(a, c, n - 1) = a + (n - 1) * s
    BY <1>1, <2>1 DEF OccurrenceAt
  <2>5. n * s = s * n /\ (n - 1) * s = s * (n - 1) /\ n * s \in Int /\ (n - 1) * s \in Int
    OBVIOUS
  <2> QED BY <2>2, <2>3, <2>4, <2>5
<1>2. CASE ~(StepDays[c] > 0)
  <2>1. PICK s \in Nat \ {0} : s = StepMonths[c]
    BY <1>2, StepFacts
  <2>2. PICK M \in Int, D \in Int : M = MonthOf(a) /\ D = MonthOf(day)
    BY MonthHoldsDay
  <2>3. PICK e \in Int : e = Quot(D - M, s) /\ s * (e - 1) < D - M /\ D - M < s * (e + 1)
    <3>1. PICK x \in Int : x = D - M
      OBVIOUS
    <3> QED BY <3>1, QuotIs
  <2> DEFINE Occ(n) == OccurrenceAt(a, c, n)
             Before == {n \in e - 2 .. e : Occ(n) < day}
             down == Max(Before)
             After == {n \in down .. down + 3 : Occ(n) >= day}
  <2>4. FirstOf(D) <= day /\ day < FirstOf(D + 1) /\ FirstOf(D) \in Int /\ FirstOf(D + 1) \in Int
    BY <2>2, MonthHoldsDay, MonthsFollow
  <2>5. \A n \in Int : Occ(n) \in Int
    <3> SUFFICES ASSUME NEW n \in Int PROVE Occ(n) \in Int
      OBVIOUS
    <3>1. n <= n
      OBVIOUS
    <3> QED BY <3>1, OccurrencesGrow
  <2>6. Occ(e - 1) < day
    <3>1. PICK m \in Int : m = M + (e - 1) * s
      OBVIOUS
    <3>2. Occ(e - 1) < FirstOf(m + 1)
      <4>1. PICK n \in Int : n = e - 1
        OBVIOUS
      <4>2. OccurrenceAt(a, c, n) < FirstOf(m + 1) /\ FirstOf(m) <= OccurrenceAt(a, c, n)
        BY <1>2, <2>1, <2>2, <3>1, <4>1, OccurrenceInMonth
      <4> QED BY <4>1, <4>2
    <3>3. m + 1 <= D
      <4>1. (e - 1) * s = s * (e - 1) /\ s * (e - 1) \in Int
        OBVIOUS
      <4> QED BY <2>3, <3>1, <4>1
    <3>4. FirstOf(D) - FirstOf(m + 1) >= D - (m + 1) /\ FirstOf(m + 1) \in Int
      BY <3>3, MonthsGrow, MonthsFollow
    <3>5. Occ(e - 1) \in Int
      BY <2>5
    <3> HIDE DEF Occ
    <3> QED BY <2>4, <3>2, <3>3, <3>4, <3>5
  <2>7. Occ(e + 1) >= day
    <3>1. PICK m \in Int : m = M + (e + 1) * s
      OBVIOUS
    <3>2. FirstOf(m) <= Occ(e + 1)
      <4>1. PICK n \in Int : n = e + 1
        OBVIOUS
      <4>2. OccurrenceAt(a, c, n) < FirstOf(m + 1) /\ FirstOf(m) <= OccurrenceAt(a, c, n)
        BY <1>2, <2>1, <2>2, <3>1, <4>1, OccurrenceInMonth
      <4> QED BY <4>1, <4>2
    <3>3. D + 1 <= m
      <4>1. (e + 1) * s = s * (e + 1) /\ s * (e + 1) \in Int
        OBVIOUS
      <4> QED BY <2>3, <3>1, <4>1
    <3>4. FirstOf(m) - FirstOf(D + 1) >= m - (D + 1) /\ FirstOf(m) \in Int
      BY <3>3, MonthsGrow, MonthsFollow
    <3>5. Occ(e + 1) \in Int
      BY <2>5
    <3> HIDE DEF Occ
    <3> QED BY <2>4, <3>2, <3>3, <3>4, <3>5
  <2>8. DueOrdinal(a, c, day) = Min(After)
    BY <1>2, <2>1, <2>2, <2>3 DEF DueOrdinal
  <2>9. PICK n \in Int : down = n - 1 /\ Occ(n) >= day /\ Occ(n - 1) < day
    <3> HIDE DEF Occ
    <3>1. CASE Occ(e) < day
      <4>1. e \in Before /\ Before \in SUBSET Int /\ \A y \in Before : e >= y
        BY <3>1
      <4>2. down = e
        <5> HIDE DEF Before
        <5> QED BY <4>1, MaxIs
      <4>3. e + 1 \in Int /\ (e + 1) - 1 = e
        OBVIOUS
      <4> HIDE DEF Before, down
      <4> QED BY <2>7, <3>1, <4>2, <4>3
    <3>2. CASE ~(Occ(e) < day)
      <4>1. e - 1 \in Before /\ Before \in SUBSET Int /\ \A y \in Before : e - 1 >= y
        BY <2>6, <3>2
      <4>2. down = e - 1
        <5> HIDE DEF Before
        <5> QED BY <4>1, MaxIs
      <4>3. Occ(e) >= day
        BY <2>5, <3>2
      <4> HIDE DEF Before, down
      <4> QED BY <2>6, <4>2, <4>3
    <3> QED BY <3>1, <3>2
  <2>10. Min(After) = n
    <3> HIDE DEF Occ, down
    <3>1. n \in After
      BY <2>9
    <3>2. After \in SUBSET Int /\ \A y \in After : n <= y
      <4> SUFFICES ASSUME NEW y \in After PROVE y \in Int /\ n <= y
        OBVIOUS
      <4>1. y \in Int /\ y >= n - 1 /\ Occ(y) >= day
        BY <2>9
      <4>2. y # n - 1
        BY <2>5, <2>9, <4>1
      <4> HIDE DEF After
      <4> QED BY <4>1, <4>2
    <3> HIDE DEF After
    <3> QED BY <3>1, <3>2, MinIs
  <2> HIDE DEF After
  <2> QED BY <2>8, <2>9, <2>10
<1> QED BY <1>1, <1>2

\* next_due and the previous cycle of a day.
LEMMA NextAndPrev ==
    ASSUME NEW a \in Int, NEW c \in Cadences, NEW day \in Int
    PROVE  \E n \in Int :
             /\ n = DueOrdinal(a, c, day)
             /\ NextDue(a, c, day) = OccurrenceAt(a, c, n) /\ PrevDue(a, c, day) = OccurrenceAt(a, c, n - 1)
             /\ NextDue(a, c, day) \in Int /\ NextDue(a, c, day) >= day
             /\ PrevDue(a, c, day) \in Int /\ PrevDue(a, c, day) < day
<1>1. PICK n \in Int : n = DueOrdinal(a, c, day)
  BY DueOrdinalIs
<1>2. OccurrenceAt(a, c, n) >= day /\ OccurrenceAt(a, c, n - 1) < day
  BY <1>1, DueOrdinalIs
<1>3. OccurrenceAt(a, c, n) \in Int /\ OccurrenceAt(a, c, n - 1) \in Int
  <2>1. n - 1 <= n /\ n - 1 \in Int
    OBVIOUS
  <2> QED BY <2>1, OccurrencesGrow
<1> QED BY <1>1, <1>2, <1>3 DEF NextDue, PrevDue

\* An occurrence on or after a day comes with or after next_due, one before it
\* with or before the previous cycle.
LEMMA OccurrenceSide ==
    ASSUME NEW a \in Int, NEW c \in Cadences, NEW day \in Int, NEW k \in Int
    PROVE  /\ OccurrenceAt(a, c, k) >= day => k >= DueOrdinal(a, c, day)
                                              /\ OccurrenceAt(a, c, k) >= NextDue(a, c, day)
           /\ OccurrenceAt(a, c, k) < day => OccurrenceAt(a, c, k) <= PrevDue(a, c, day)
<1>1. PICK n \in Int :
             /\ n = DueOrdinal(a, c, day)
             /\ NextDue(a, c, day) = OccurrenceAt(a, c, n) /\ PrevDue(a, c, day) = OccurrenceAt(a, c, n - 1)
             /\ NextDue(a, c, day) \in Int /\ NextDue(a, c, day) >= day
             /\ PrevDue(a, c, day) \in Int /\ PrevDue(a, c, day) < day
  BY NextAndPrev
<1>2. CASE k >= n
  <2>1. OccurrenceAt(a, c, k) \in Int /\ OccurrenceAt(a, c, k) - OccurrenceAt(a, c, n) >= k - n
    BY <1>2, OccurrencesGrow
  <2> QED BY <1>1, <1>2, <2>1
<1>3. CASE k <= n - 1
  <2>1. OccurrenceAt(a, c, k) \in Int /\ OccurrenceAt(a, c, n - 1) - OccurrenceAt(a, c, k) >= (n - 1) - k
    BY <1>3, OccurrencesGrow
  <2> QED BY <1>1, <1>3, <2>1
<1> QED BY <1>2, <1>3

\* OccurrencesBetween misses none.
LEMMA BetweenIsAll ==
    ASSUME NEW a \in Int, NEW c \in Cadences, NEW from \in Int, NEW to \in Int
    PROVE  OccurrencesBetween(a, c, from, to) =
               {d \in from .. to : \E k \in Int : d = OccurrenceAt(a, c, k)}
<1>1. PICK n \in Int : n = DueOrdinal(a, c, from) /\ OccurrenceAt(a, c, n) >= from
  BY DueOrdinalIs
<1>2. OccurrencesBetween(a, c, from, to) = {OccurrenceAt(a, c, n + i) : i \in 0 .. to - from} \cap from .. to
  BY <1>1 DEF OccurrencesBetween
<1>3. ASSUME NEW k \in Int, OccurrenceAt(a, c, k) \in from .. to
      PROVE  \E i \in 0 .. to - from : OccurrenceAt(a, c, k) = OccurrenceAt(a, c, n + i)
  <2>1. k >= n
    BY <1>1, <1>3, OccurrenceSide
  <2>2. OccurrenceAt(a, c, k) - OccurrenceAt(a, c, n) >= k - n /\ OccurrenceAt(a, c, n) \in Int
    BY <2>1, OccurrencesGrow
  <2>3. k - n \in 0 .. to - from /\ n + (k - n) = k
    BY <1>1, <1>3, <2>1, <2>2
  <2> QED BY <2>3
<1>4. ASSUME NEW d \in from .. to, NEW k \in Int, d = OccurrenceAt(a, c, k)
      PROVE  d \in {OccurrenceAt(a, c, n + i) : i \in 0 .. to - from}
  BY <1>3, <1>4
<1>5. ASSUME NEW d \in {OccurrenceAt(a, c, n + i) : i \in 0 .. to - from}
      PROVE  \E k \in Int : d = OccurrenceAt(a, c, k)
  <2>1. PICK i \in 0 .. to - from : d = OccurrenceAt(a, c, n + i)
    OBVIOUS
  <2>2. n + i \in Int
    OBVIOUS
  <2> QED BY <2>1, <2>2
<1> QED BY <1>2, <1>4, <1>5

-----------------------------------------------------------------------------
(* What a due date is *)

\* A period on, the calendar is the same.
LEMMA PeriodOn ==
    ASSUME NEW m \in Int PROVE FirstOf(m + Period) = FirstOf(m) + PeriodDays
<1>1. PICK q \in Int, r \in 0 .. Period - 1 : m = Period * q + r
  BY EndsFacts, DivMod
<1>2. PICK k \in Int : k = m + Period /\ k = Period * (q + 1) + r
  <2>1. Period * (q + 1) = Period * q + Period /\ Period * q \in Int /\ Period \in Int
    BY EndsFacts
  <2> QED BY <1>1, <2>1
<1>3. FirstOf(m) = q * PeriodDays + Ends[r + 1] /\ FirstOf(k) = (q + 1) * PeriodDays + Ends[r + 1]
  BY <1>1, <1>2, MonthOfPeriod
<1>4. (q + 1) * PeriodDays = q * PeriodDays + PeriodDays /\ q * PeriodDays \in Int /\ PeriodDays \in Int
  BY EndsFacts
<1>5. Ends[r + 1] \in Nat
  <2>1. r \in 0 .. Period /\ r <= r
    BY EndsFacts
  <2> QED BY <2>1, EndsGrow
<1> QED BY <1>2, <1>3, <1>4, <1>5

\* Two occurrences in a row are at most two periods apart.
LEMMA OccurrenceGap ==
    ASSUME NEW a \in Int, NEW c \in Cadences, NEW n \in Int
    PROVE  OccurrenceAt(a, c, n) <= OccurrenceAt(a, c, n - 1) + 2 * PeriodDays
<1>1. CASE StepDays[c] > 0
  <2>1. PICK s \in Nat : s = StepDays[c] /\ s <= PeriodDays
    BY StepFacts, StepAssumption
  <2>2. OccurrenceAt(a, c, n) = a + n * s /\ OccurrenceAt(a, c, n - 1) = a + (n - 1) * s
    BY <1>1, <2>1 DEF OccurrenceAt
  <2>3. (n - 1) * s = n * s - s /\ n * s \in Int
    OBVIOUS
  <2> QED BY <2>1, <2>2, <2>3, EndsFacts
<1>2. CASE ~(StepDays[c] > 0)
  <2>1. PICK s \in Nat : s = StepMonths[c] /\ s <= Period
    BY StepFacts, StepAssumption
  <2>2. PICK p \in Int : p = n - 1
    OBVIOUS
  <2>3. PICK k \in Int, l \in Int : k = MonthOf(a) + p * s /\ l = MonthOf(a) + n * s
    BY MonthHoldsDay
  <2>4. /\ OccurrenceAt(a, c, n) \in Int /\ OccurrenceAt(a, c, p) \in Int
        /\ OccurrenceAt(a, c, n) < FirstOf(l + 1) /\ FirstOf(k) <= OccurrenceAt(a, c, p)
    BY <1>2, <2>1, <2>3, OccurrenceInMonth
  <2>5. l = k + s
    <3>1. p * s = n * s - s /\ n * s \in Int
      BY <2>2
    <3>2. PICK M \in Int : M = MonthOf(a)
      BY MonthHoldsDay
    <3> QED BY <2>3, <3>1, <3>2
  <2>6. PICK k1 \in Int, kp \in Int : k1 = k + 1 /\ kp = k + Period
    BY EndsFacts
  <2>7. FirstOf(k1 + Period) = FirstOf(k1) + PeriodDays /\ FirstOf(kp) = FirstOf(k) + PeriodDays
    BY <2>6, PeriodOn
  <2>8. FirstOf(k1) <= FirstOf(kp)
    <3>1. k1 <= kp
      BY <2>6, EndsFacts
    <3>2. FirstOf(kp) - FirstOf(k1) >= kp - k1 /\ FirstOf(kp) \in Int /\ FirstOf(k1) \in Int
      BY <3>1, MonthsGrow, MonthsFollow
    <3> QED BY <3>1, <3>2
  <2>9. FirstOf(l + 1) <= FirstOf(k1 + Period)
    <3>1. PICK x \in Int, y \in Int : x = l + 1 /\ y = k1 + Period
      BY EndsFacts
    <3>2. x <= y
      BY <2>1, <2>5, <2>6, <3>1, EndsFacts
    <3>3. FirstOf(y) - FirstOf(x) >= y - x /\ FirstOf(y) \in Int /\ FirstOf(x) \in Int
      BY <3>2, MonthsGrow, MonthsFollow
    <3> QED BY <3>1, <3>2, <3>3
  <2>10. /\ FirstOf(k) \in Int /\ FirstOf(k1) \in Int /\ FirstOf(kp) \in Int /\ FirstOf(l + 1) \in Int
         /\ PeriodDays \in Int
    BY MonthsFollow, EndsFacts
  <2> QED BY <2>2, <2>4, <2>7, <2>8, <2>9, <2>10
<1> QED BY <1>1, <1>2

\* A day is due exactly when the generator names it.
LEMMA DueIsOccurrence ==
    ASSUME NEW a \in Int, NEW c \in Cadences, NEW d \in Int
    PROVE  Due(a, c, d) <=> \E n \in Int : d = OccurrenceAt(a, c, n)
<1>1. CASE StepDays[c] > 0
  <2>1. PICK s \in Nat \ {0} : s = StepDays[c]
    BY <1>1, StepFacts
  <2>2. PICK x \in Int : x = d - a
    OBVIOUS
  <2>3. Due(a, c, d) <=> x % s = 0
    BY <1>1, <2>1, <2>2 DEF Due
  <2>4. \A n \in Int : OccurrenceAt(a, c, n) = a + n * s
    BY <1>1, <2>1 DEF OccurrenceAt
  <2>5. ASSUME x % s = 0 PROVE \E n \in Int : d = OccurrenceAt(a, c, n)
    <3>1. PICK q \in Int, r \in 0 .. s - 1 : r = x % s /\ x = s * q + r
      BY DivMod
    <3>2. d = a + q * s
      <4>1. s * q = q * s /\ q * s \in Int
        OBVIOUS
      <4> QED BY <2>2, <2>5, <3>1, <4>1
    <3> QED BY <2>4, <3>2
  <2>6. ASSUME NEW n \in Int, d = OccurrenceAt(a, c, n) PROVE x % s = 0
    <3>1. 0 \in 0 .. s - 1 /\ x = s * n + 0
      <4>1. s * n = n * s /\ n * s \in Int
        OBVIOUS
      <4>2. d = a + n * s
        BY <2>4, <2>6
      <4> QED BY <2>2, <4>1, <4>2
    <3> QED BY <3>1, DivModUnique
  <2> QED BY <2>3, <2>5, <2>6
<1>2. CASE ~(StepDays[c] > 0)
  <2>1. PICK s \in Nat \ {0} : s = StepMonths[c]
    BY <1>2, StepFacts
  <2>2. PICK M \in Int, D \in Int : M = MonthOf(a) /\ D = MonthOf(d)
    BY MonthHoldsDay
  <2>3. PICK x \in Int : x = D - M
    OBVIOUS
  <2>4. PICK k \in Nat, len \in Nat \ {0} : k = DayIn(a) /\ len = LenOf(D)
    <3>1. LenOf(M) \in Nat /\ DayIn(a) \in 0 .. LenOf(M) - 1 /\ LenOf(D) \in Nat \ {0}
      BY <2>2, DayInMonth, MonthsFollow
    <3> QED BY <3>1
  <2>5. PICK e \in Int : e = IF k >= len THEN len - 1 ELSE k
    OBVIOUS
  <2>6. Min({k, len - 1}) = e
    <3>1. CASE k >= len
      <4>1. {k, len - 1} \in SUBSET Int /\ e \in {k, len - 1} /\ \A y \in {k, len - 1} : e <= y
        BY <2>5, <3>1
      <4> QED BY <4>1, MinIs
    <3>2. CASE ~(k >= len)
      <4>1. {k, len - 1} \in SUBSET Int /\ e \in {k, len - 1} /\ \A y \in {k, len - 1} : e <= y
        BY <2>5, <3>2
      <4> QED BY <4>1, MinIs
    <3> QED BY <3>1, <3>2
  <2>7. Due(a, c, d) <=> x % s = 0 /\ DayIn(d) = e
    BY <1>2, <2>1, <2>2, <2>3, <2>4, <2>6 DEF Due
  <2>8. ASSUME x % s = 0, DayIn(d) = e PROVE \E n \in Int : d = OccurrenceAt(a, c, n)
    <3>1. PICK q \in Int, r \in 0 .. s - 1 : r = x % s /\ x = s * q + r
      BY DivMod
    <3>2. PICK y \in Int : y = q * s /\ D = M + y
      <4>1. s * q = q * s /\ q * s \in Int
        OBVIOUS
      <4> QED BY <2>3, <2>8, <3>1, <4>1
    <3>3. OccurrenceAt(a, c, q) = AddMonthsClamped(a, y)
      BY <1>2, <2>1, <3>2 DEF OccurrenceAt
    <3>4. AddMonthsClamped(a, y) = FirstOf(D) + e
      BY <2>2, <2>4, <2>5, <3>2 DEF AddMonthsClamped
    <3>5. DayIn(d) = d - FirstOf(D) /\ FirstOf(D) \in Int
      BY <2>2, MonthsFollow DEF DayIn
    <3> QED BY <2>8, <3>3, <3>4, <3>5
  <2>9. ASSUME NEW n \in Int, d = OccurrenceAt(a, c, n) PROVE x % s = 0 /\ DayIn(d) = e
    <3>1. PICK y \in Int : y = n * s
      OBVIOUS
    <3>2. d = AddMonthsClamped(a, y)
      BY <1>2, <2>1, <2>9, <3>1 DEF OccurrenceAt
    <3>3. D = M + y /\ DayIn(d) = e
      BY <2>2, <2>4, <2>5, <3>2, Clamped
    <3>4. 0 \in 0 .. s - 1 /\ x = s * n + 0
      <4>1. s * n = n * s
        OBVIOUS
      <4> QED BY <2>3, <3>1, <3>3, <4>1
    <3> QED BY <3>3, <3>4, DivModUnique
  <2> QED BY <2>7, <2>8, <2>9
<1> QED BY <1>1, <1>2

-----------------------------------------------------------------------------
(* What a pass looks at *)

\* A bound that may be open.
Bound(T) == T = {} \/ \E x \in Int : T = {x}

\* The greatest of the lower bounds of a range, the third of which may be open.
LEMMA MaxOfBounds ==
    ASSUME NEW a \in Int, NEW b \in Int, NEW T, Bound(T)
    PROVE  /\ Max({a, b} \cup T) \in {a, b} \cup T
           /\ Max({a, b} \cup T) \in Int
           /\ \A y \in {a, b} \cup T : y <= Max({a, b} \cup T)
<1>1. PICK S : S = {a, b} \cup T
  OBVIOUS
<1>2. S \in SUBSET Int
  BY <1>1 DEF Bound
<1>3. \E x \in S : \A y \in S : x >= y
  <2>1. CASE T = {}
    BY <1>1, <2>1
  <2>2. ASSUME NEW c \in Int, T = {c} PROVE \E x \in S : \A y \in S : x >= y
    <3>1. S = {a, b, c}
      BY <1>1, <2>2
    <3>2. CASE a >= b /\ a >= c
      BY <3>1, <3>2
    <3>3. CASE b >= a /\ b >= c
      BY <3>1, <3>3
    <3>4. CASE c >= a /\ c >= b
      BY <3>1, <3>4
    <3> QED BY <3>2, <3>3, <3>4
  <2> QED BY <2>1, <2>2 DEF Bound
<1>4. PICK x \in S : \A y \in S : x >= y
  BY <1>3
<1>5. Max(S) = x
  BY <1>2, <1>4, MaxIs
<1> QED BY <1>1, <1>2, <1>4, <1>5

\* The least of the upper bounds, two of which may be open.
LEMMA MinOfBounds ==
    ASSUME NEW a \in Int, NEW T, NEW U, Bound(T), Bound(U)
    PROVE  /\ Min({a} \cup T \cup U) \in {a} \cup T \cup U
           /\ Min({a} \cup T \cup U) \in Int
           /\ \A y \in {a} \cup T \cup U : Min({a} \cup T \cup U) <= y
<1>1. PICK S : S = {a} \cup T \cup U
  OBVIOUS
<1>2. S \in SUBSET Int
  BY <1>1 DEF Bound
<1>3. \E b \in Int, c \in Int : S = {a, b, c}
  <2>1. PICK b \in Int : {a} \cup T = {a, b}
    <3>1. CASE T = {}
      <4>1. {a} \cup T = {a, a}
        BY <3>1
      <4> QED BY <4>1
    <3>2. ASSUME NEW b \in Int, T = {b} PROVE {a} \cup T = {a, b}
      BY <3>2
    <3> QED BY <3>1, <3>2 DEF Bound
  <2>2. CASE U = {}
    <3>1. S = {a, b, b}
      BY <1>1, <2>1, <2>2
    <3> QED BY <3>1
  <2>3. ASSUME NEW c \in Int, U = {c} PROVE S = {a, b, c}
    BY <1>1, <2>1, <2>3
  <2> QED BY <2>2, <2>3 DEF Bound
<1>4. PICK x \in S : \A y \in S : x <= y
  <2>1. PICK b \in Int, c \in Int : S = {a, b, c}
    BY <1>3
  <2>2. CASE a <= b /\ a <= c
    BY <2>1, <2>2
  <2>3. CASE b <= a /\ b <= c
    BY <2>1, <2>3
  <2>4. CASE c <= a /\ c <= b
    BY <2>1, <2>4
  <2> QED BY <2>2, <2>3, <2>4
<1>5. Min(S) = x
  BY <1>2, <1>4, MinIs
<1> QED BY <1>1, <1>2, <1>4, <1>5

\* The cycles a pass looks at are the due dates within all its bounds, and no
\* due date within them is missed.
LEMMA CycleWindowIs ==
    ASSUME NEW f, f.anchor \in Int, f.cadence \in Cadences, f.ended \in Int \cup {Null},
           NEW coverage \in Int, NEW from \in Int \cup {Null}, NEW to \in Int \cup {Null},
           today \in Int
    PROVE  CycleWindow(f, coverage, from, to) =
             {occ \in Int :
                /\ Due(f.anchor, f.cadence, occ)
                /\ f.anchor <= occ /\ coverage - Window <= occ
                /\ from # Null => from - Window <= occ
                /\ occ <= today + Window
                /\ to # Null => occ <= to + Window
                /\ f.ended # Null => occ <= f.ended}
<1>0. Window \in Nat /\ Null \notin Int
  BY BillsAssumption
<1>1. PICK a \in Int, c \in Cadences, e \in Int \cup {Null}, t \in Int :
          a = f.anchor /\ c = f.cadence /\ e = f.ended /\ t = today + Window
  <2>1. today + Window \in Int
    BY <1>0
  <2>2. \E a \in Int : a = f.anchor
    OBVIOUS
  <2>3. \E e \in Int \cup {Null} : e = f.ended
    OBVIOUS
  <2> QED BY <2>1, <2>2, <2>3, Zenon
<1>2. PICK T : T = IF from = Null THEN {} ELSE {from - Window}
  OBVIOUS
<1>3. PICK U : U = IF to = Null THEN {} ELSE {to + Window}
  OBVIOUS
<1>4. PICK V : V = IF e = Null THEN {} ELSE {e}
  OBVIOUS
<1>5. PICK L : L = {a, coverage - Window} \cup T
  OBVIOUS
<1>6. PICK H : H = {t} \cup U \cup V
  OBVIOUS
<1>7. PICK lo \in Int : lo = Max(L) /\ lo \in L /\ \A y \in L : y <= lo
  <2>1. Bound(T)
    <3>1. CASE from = Null
      BY <1>2, <3>1 DEF Bound
    <3>2. CASE from # Null
      <4>1. from - Window \in Int /\ T = {from - Window}
        BY <1>0, <1>2, <3>2
      <4> QED BY <4>1 DEF Bound
    <3> QED BY <3>1, <3>2
  <2>2. PICK k \in Int : k = coverage - Window
    BY <1>0
  <2>3. /\ Max({a, k} \cup T) \in {a, k} \cup T /\ Max({a, k} \cup T) \in Int
        /\ \A y \in {a, k} \cup T : y <= Max({a, k} \cup T)
    BY <2>1, MaxOfBounds, Zenon
  <2>4. L = {a, k} \cup T
    BY <1>5, <2>2
  <2> QED BY <2>3, <2>4, Zenon
<1>8. PICK hi \in Int : hi = Min(H) /\ hi \in H /\ \A y \in H : hi <= y
  <2>1. Bound(U)
    <3>1. CASE to = Null
      BY <1>3, <3>1 DEF Bound
    <3>2. CASE to # Null
      <4>1. to + Window \in Int /\ U = {to + Window}
        BY <1>0, <1>3, <3>2
      <4> QED BY <4>1 DEF Bound
    <3> QED BY <3>1, <3>2
  <2>2. Bound(V)
    BY <1>4 DEF Bound
  <2>3. /\ Min({t} \cup U \cup V) \in {t} \cup U \cup V /\ Min({t} \cup U \cup V) \in Int
        /\ \A y \in {t} \cup U \cup V : Min({t} \cup U \cup V) <= y
    BY <2>1, <2>2, MinOfBounds, Zenon
  <2> QED BY <1>6, <2>3, Zenon
<1>9. CycleWindow(f, coverage, from, to) = IF hi < lo THEN {} ELSE OccurrencesBetween(a, c, lo, hi)
  BY <1>1, <1>2, <1>3, <1>4, <1>5, <1>6, <1>7, <1>8 DEF CycleWindow
<1>10. OccurrencesBetween(a, c, lo, hi) = {occ \in lo .. hi : Due(a, c, occ)}
  <2>1. OccurrencesBetween(a, c, lo, hi) = {occ \in lo .. hi : \E k \in Int : occ = OccurrenceAt(a, c, k)}
    BY BetweenIsAll
  <2>2. \A occ \in lo .. hi : Due(a, c, occ) <=> \E k \in Int : occ = OccurrenceAt(a, c, k)
    BY DueIsOccurrence
  <2> QED BY <2>1, <2>2
<1>11. CycleWindow(f, coverage, from, to) = {occ \in lo .. hi : Due(a, c, occ)}
  <2>1. CASE hi < lo
    <3>1. {occ \in lo .. hi : Due(a, c, occ)} = {}
      BY <2>1
    <3> QED BY <1>9, <2>1, <3>1
  <2>2. CASE ~(hi < lo)
    BY <1>9, <1>10, <2>2
  <2> QED BY <2>1, <2>2
<1>12. ASSUME NEW occ \in Int
       PROVE  lo <= occ <=> a <= occ /\ coverage - Window <= occ /\ (from # Null => from - Window <= occ)
  <2>1. CASE from = Null
    <3>1. L = {a, coverage - Window}
      BY <1>2, <1>5, <2>1
    <3> QED BY <1>0, <1>7, <2>1, <3>1
  <2>2. CASE from # Null
    <3>1. L = {a, coverage - Window, from - Window} /\ from \in Int
      BY <1>2, <1>5, <2>2
    <3> QED BY <1>0, <1>7, <2>2, <3>1
  <2> QED BY <2>1, <2>2
<1>13. ASSUME NEW occ \in Int
       PROVE  occ <= hi <=> occ <= t /\ (to # Null => occ <= to + Window) /\ (e # Null => occ <= e)
  <2>1. \A y \in H : y \in Int
    BY <1>0, <1>3, <1>4, <1>6
  <2>2. occ <= hi <=> \A y \in H : occ <= y
    <3>1. occ <= hi => \A y \in H : occ <= y
      BY <1>8, <2>1
    <3>2. (\A y \in H : occ <= y) => occ <= hi
      BY <1>8
    <3> QED BY <3>1, <3>2
  <2>3. CASE to = Null /\ e = Null
    <3>1. H = {t}
      BY <1>3, <1>4, <1>6, <2>3
    <3> QED BY <2>2, <2>3, <3>1
  <2>4. CASE to # Null /\ e = Null
    <3>1. H = {t, to + Window}
      BY <1>3, <1>4, <1>6, <2>4
    <3> QED BY <2>2, <2>4, <3>1
  <2>5. CASE to = Null /\ e # Null
    <3>1. H = {t, e}
      BY <1>3, <1>4, <1>6, <2>5
    <3> QED BY <2>2, <2>5, <3>1
  <2>6. CASE to # Null /\ e # Null
    <3>1. H = {t, to + Window, e}
      BY <1>3, <1>4, <1>6, <2>6
    <3> QED BY <2>2, <2>6, <3>1
  <2> QED BY <2>3, <2>4, <2>5, <2>6
<1>14. {occ \in lo .. hi : Due(a, c, occ)} = {occ \in Int : Due(a, c, occ) /\ lo <= occ /\ occ <= hi}
  OBVIOUS
<1> QED BY <1>1, <1>11, <1>12, <1>13, <1>14

-----------------------------------------------------------------------------
(* The inductive invariant *)

\* What the clock, the ledger and the bills are.
DataOK ==
    /\ today \in Days /\ trusted \in BOOLEAN
    /\ rows \subseteq Rows /\ \A r \in rows : PostedOn[r] <= today
    /\ DOMAIN bill = BillIds /\ \A b \in BillIds : bill[b] = Null \/ bill[b] \in Forms[b]

\* The fields a pass has, step by step.
StartForm(s) ==
    /\ s = [pc |-> "start", from |-> s.from, to |-> s.to, alone |-> s.alone]
    /\ s.alone \in BOOLEAN /\ s.from \in Int \cup {Null} /\ s.to \in Int \cup {Null}
    /\ s.from = Null <=> s.to = Null
RowsForm(s) ==
    /\ s = [pc |-> "rows", full |-> s.full, alone |-> s.alone, cycles |-> s.cycles, pattern |-> s.pattern]
    /\ s.alone \in BOOLEAN /\ s.full \in BOOLEAN
NextForm(s) ==
    /\ s = [pc |-> "next", full |-> s.full, alone |-> s.alone, cycles |-> s.cycles, pattern |-> s.pattern,
            seen |-> s.seen]
    /\ s.alone \in BOOLEAN /\ s.full \in BOOLEAN
BillForm(s) ==
    /\ s = [pc |-> "bill", full |-> s.full, alone |-> s.alone, cycles |-> s.cycles, pattern |-> s.pattern,
            seen |-> s.seen, b |-> s.b, settled |-> s.settled, used |-> s.used]
    /\ s.alone \in BOOLEAN /\ s.full \in BOOLEAN
Shape(s) ==
    \/ s = Idle
    \/ s.pc = "start" /\ StartForm(s)
    \/ s.pc = "rows" /\ RowsForm(s)
    \/ s.pc = "next" /\ NextForm(s)
    \/ s.pc = "bill" /\ BillForm(s)
PassesOK == DOMAIN pass = Passes /\ \A p \in Passes : Shape(pass[p])

\* A pass that is alone is the only one; while nothing has gone wrong, the one
\* that runs is alone.
AloneOK ==
    \A p \in Passes : pass[p] # Idle /\ (trusted \/ pass[p].alone) =>
        pass[p].alone /\ \A q \in Passes \ {p} : pass[q] = Idle

\* What a pass has read (s) of the bills, the rows and the payments is still so.
Fresh(s, fs, rs, ps) ==
    /\ s.pc \in {"rows", "next", "bill"} =>
          /\ DOMAIN s.pattern = DOMAIN s.cycles
          /\ \A b \in DOMAIN s.cycles :
                /\ b \in BillIds /\ fs[b] # Null /\ s.pattern[b] = fs[b].pattern
                /\ \A occ \in s.cycles[b] : occ \in Int /\ fs[b].anchor <= occ
    /\ s.pc \in {"next", "bill"} => s.seen = rs
    /\ s.pc = "bill" =>
          /\ s.b \in DOMAIN s.cycles
          /\ s.settled = {y.occ : y \in {z \in ps : z.bill = s.b}}
          /\ s.used = {y.row : y \in {z \in ps : z.bill = s.b}}
FreshOK == \A p \in Passes : pass[p] # Idle /\ pass[p].alone => Fresh(pass[p], bill, rows, payments)

\* The row could settle the cycle of the bill f, whatever the day.
Fulfils(f, occ, r) ==
    /\ f # Null /\ f.status # "paused" /\ f.pattern # NoPattern
    /\ Due(f.anchor, f.cadence, occ) /\ f.anchor <= occ
    /\ f.ended # Null => occ <= f.ended
    /\ Matches(f.pattern, r, occ)

\* The cycle is settled, or the row settles another one of the bill.
Done(ps, b, occ, r) == \E y \in ps : y.bill = b /\ (y.occ = occ \/ y.row = r)

\* The pass has still to look at it.
Ahead(s, b, occ, r) ==
    \/ s.pc = "start" /\ (s.from = Null \/ (s.from <= PostedOn[r] /\ PostedOn[r] <= s.to))
    \/ s.pc \in {"rows", "next", "bill"} /\ b \in DOMAIN s.cycles /\ occ \in s.cycles[b]

\* All that is left to link is ahead of the pass.
LeftIsAhead(s, fs, rs, ps) ==
    \A b \in BillIds, r \in rs : \A occ \in Int :
        Fulfils(fs[b], occ, r) => Done(ps, b, occ, r) \/ Ahead(s, b, occ, r)

FullPass(s) == IF s.pc = "start" THEN s.from = Null ELSE s.full

\* Between passes nothing is left; a pass that counts has it all ahead.
NothingLeft == trusted /\ Quiet => LeftIsAhead(Idle, bill, rows, payments)
CountingOK ==
    \A p \in Passes : pass[p] # Idle /\ pass[p].alone /\ (trusted \/ FullPass(pass[p])) =>
        LeftIsAhead(pass[p], bill, rows, payments)

\* A request that links by hand has read a link of the matcher, or none.
LinksOK ==
    /\ DOMAIN link = Linkers
    /\ \A l \in Linkers : link[l] # Idle => \A y \in link[l].old : y.method = "auto"

PassInv == DataOK /\ PassesOK /\ AloneOK /\ FreshOK /\ NothingLeft /\ CountingOK
Inv == PassInv /\ LinksOK

\* The shapes of a pass, and of one that another pass or an edit has joined.
LEMMA ShapeFacts ==
    ASSUME NEW s, Shape(s)
    PROVE  /\ s.pc \in {"idle", "start", "rows", "next", "bill"}
           /\ s = Idle <=> s.pc = "idle"
           /\ s # Idle => s.alone \in BOOLEAN
<1>1. Idle.pc = "idle"
  BY DEF Idle
<1> QED BY <1>1 DEF Shape, StartForm, RowsForm, NextForm, BillForm

LEMMA Dimmed ==
    ASSUME NEW s, Shape(s), s # Idle, NEW t, t = [s EXCEPT !.alone = FALSE]
    PROVE  Shape(t) /\ t.alone = FALSE /\ t # Idle
<1>0. Idle.pc = "idle"
  BY DEF Idle
<1>1. CASE s.pc = "start"
  <2>1. s = [pc |-> "start", from |-> s.from, to |-> s.to, alone |-> s.alone]
        /\ s.alone \in BOOLEAN /\ s.from \in Int \cup {Null} /\ s.to \in Int \cup {Null}
        /\ (s.from = Null <=> s.to = Null)
    <3>1. StartForm(s)
      BY <1>0, <1>1 DEF Shape
    <3> QED BY <3>1 DEF StartForm
  <2>2. PICK al, f, u : al = s.alone /\ f = s.from /\ u = s.to
    OBVIOUS
  <2>3. t = [pc |-> "start", from |-> f, to |-> u, alone |-> FALSE]
    <3>1. s = [pc |-> "start", from |-> f, to |-> u, alone |-> al]
      BY <2>1, <2>2
    <3> QED BY <3>1
  <2>4. t.pc = "start" /\ t.from = f /\ t.to = u /\ t.alone = FALSE
    BY <2>3
  <2>5. t # Idle
    BY <1>0, <2>4
  <2>6. Shape(t)
    BY <2>1, <2>2, <2>3, <2>4 DEF Shape, StartForm
  <2> QED BY <2>4, <2>5, <2>6
<1>2. CASE s.pc = "rows"
  <2>1. s = [pc |-> "rows", full |-> s.full, alone |-> s.alone, cycles |-> s.cycles, pattern |-> s.pattern]
        /\ s.full \in BOOLEAN
    <3>1. RowsForm(s)
      BY <1>0, <1>2 DEF Shape
    <3> QED BY <3>1 DEF RowsForm
  <2>2. PICK al, f, c, m : al = s.alone /\ f = s.full /\ c = s.cycles /\ m = s.pattern
    OBVIOUS
  <2>3. t = [pc |-> "rows", full |-> f, alone |-> FALSE, cycles |-> c, pattern |-> m]
    <3>1. s = [pc |-> "rows", full |-> f, alone |-> al, cycles |-> c, pattern |-> m]
      BY <2>1, <2>2
    <3> QED BY <3>1
  <2>4. t.pc = "rows" /\ t.full = f /\ t.alone = FALSE /\ t.cycles = c /\ t.pattern = m
    BY <2>3
  <2>5. t # Idle
    BY <1>0, <2>4
  <2>6. Shape(t)
    BY <2>1, <2>2, <2>3, <2>4 DEF Shape, RowsForm
  <2> QED BY <2>4, <2>5, <2>6
<1>3. CASE s.pc = "next"
  <2>1. s = [pc |-> "next", full |-> s.full, alone |-> s.alone, cycles |-> s.cycles, pattern |-> s.pattern,
             seen |-> s.seen]
        /\ s.full \in BOOLEAN
    <3>1. NextForm(s)
      BY <1>0, <1>3 DEF Shape
    <3> QED BY <3>1 DEF NextForm
  <2>2. PICK al, f, c, m, n : al = s.alone /\ f = s.full /\ c = s.cycles /\ m = s.pattern /\ n = s.seen
    OBVIOUS
  <2>3. t = [pc |-> "next", full |-> f, alone |-> FALSE, cycles |-> c, pattern |-> m, seen |-> n]
    <3>1. s = [pc |-> "next", full |-> f, alone |-> al, cycles |-> c, pattern |-> m, seen |-> n]
      BY <2>1, <2>2
    <3> QED BY <3>1
  <2>4. t.pc = "next" /\ t.full = f /\ t.alone = FALSE /\ t.cycles = c /\ t.pattern = m /\ t.seen = n
    BY <2>3
  <2>5. t # Idle
    BY <1>0, <2>4
  <2>6. Shape(t)
    BY <2>1, <2>2, <2>3, <2>4 DEF Shape, NextForm
  <2> QED BY <2>4, <2>5, <2>6
<1>4. CASE s.pc = "bill"
  <2>1. s = [pc |-> "bill", full |-> s.full, alone |-> s.alone, cycles |-> s.cycles, pattern |-> s.pattern,
             seen |-> s.seen, b |-> s.b, settled |-> s.settled, used |-> s.used]
        /\ s.full \in BOOLEAN
    <3>1. BillForm(s)
      BY <1>0, <1>4 DEF Shape
    <3> QED BY <3>1 DEF BillForm
  <2>2. PICK al, f, c, m, n, b, x, u : /\ al = s.alone /\ f = s.full /\ c = s.cycles /\ m = s.pattern /\ n = s.seen
                                       /\ b = s.b /\ x = s.settled /\ u = s.used
    OBVIOUS
  <2>3. t = [pc |-> "bill", full |-> f, alone |-> FALSE, cycles |-> c, pattern |-> m, seen |-> n,
             b |-> b, settled |-> x, used |-> u]
    <3>1. s = [pc |-> "bill", full |-> f, alone |-> al, cycles |-> c, pattern |-> m, seen |-> n,
                 b |-> b, settled |-> x, used |-> u]
      BY <2>1, <2>2
    <3> QED BY <3>1
  <2>4. /\ t.pc = "bill" /\ t.full = f /\ t.alone = FALSE /\ t.cycles = c /\ t.pattern = m /\ t.seen = n
        /\ t.b = b /\ t.settled = x /\ t.used = u
    BY <2>3
  <2>5. t # Idle
    BY <1>0, <2>4
  <2>6. Shape(t)
    BY <2>1, <2>2, <2>3, <2>4 DEF Shape, BillForm
  <2> QED BY <2>4, <2>5, <2>6
<1> QED BY <1>1, <1>2, <1>3, <1>4, ShapeFacts

LEMMA TogetherFacts ==
    ASSUME PassesOK
    PROVE  /\ DOMAIN Together = Passes
           /\ \A p \in Passes : /\ Shape(Together[p])
                                /\ Together[p] = Idle <=> pass[p] = Idle
                                /\ Together[p] # Idle => Together[p].alone = FALSE
<1>1. DOMAIN Together = Passes
  BY DEF Together
<1>2. ASSUME NEW p \in Passes
      PROVE  /\ Shape(Together[p])
             /\ Together[p] = Idle <=> pass[p] = Idle
             /\ Together[p] # Idle => Together[p].alone = FALSE
  <2>1. PICK s : s = pass[p] /\ Shape(s)
    BY DEF PassesOK
  <2>2. CASE s = Idle
    <3>1. Together[p] = Idle
      BY <2>1, <2>2 DEF Together
    <3>2. Shape(Idle)
      BY DEF Shape
    <3> QED BY <2>1, <2>2, <3>1, <3>2
  <2>3. CASE s # Idle
    <3>1. PICK t : t = [s EXCEPT !.alone = FALSE]
      OBVIOUS
    <3>2. Together[p] = t
      BY <2>1, <2>3, <3>1 DEF Together
    <3>3. Shape(t) /\ t.alone = FALSE /\ t # Idle
      BY <2>1, <2>3, <3>1, Dimmed
    <3> QED BY <2>1, <2>3, <3>2, <3>3
  <2> QED BY <2>2, <2>3
<1> QED BY <1>1, <1>2

-----------------------------------------------------------------------------
(* Kinds of steps *)

\* Nothing a pass reads or promises changes.
LEMMA Untouched ==
    ASSUME PassInv, UNCHANGED <<rows, bill, payments, pass, trusted>>,
           today' \in Days, today' >= today
    PROVE  PassInv'
<1>1. DataOK'
  <2>1. today \in Nat /\ today' \in Nat
    BY BillsAssumption DEF PassInv, DataOK
  <2>2. \A r \in rows : PostedOn[r] \in Nat /\ PostedOn[r] <= today
    BY BillsAssumption DEF PassInv, DataOK
  <2> QED BY <2>1, <2>2 DEF PassInv, DataOK
<1>2. PassesOK'
  BY DEF PassInv, PassesOK
<1>3. AloneOK'
  BY DEF PassInv, AloneOK
<1>4. FreshOK'
  BY DEF PassInv, FreshOK
<1>5. NothingLeft'
  BY DEF PassInv, NothingLeft, Quiet
<1>6. CountingOK'
  BY DEF PassInv, CountingOK
<1> QED BY <1>1, <1>2, <1>3, <1>4, <1>5, <1>6 DEF PassInv

\* A change that the passes may miss: none of them counts any more.
LEMMA Disturbing ==
    ASSUME PassInv, Disturbed, UNCHANGED <<today, rows>>,
           DOMAIN bill' = BillIds, \A b \in BillIds : bill'[b] = Null \/ bill'[b] \in Forms[b]
    PROVE  PassInv'
<1>1. DataOK'
  BY DEF PassInv, DataOK, Disturbed
<1>2. /\ DOMAIN pass' = Passes /\ trusted' = FALSE
      /\ \A p \in Passes : Shape(pass'[p]) /\ (pass'[p] # Idle => pass'[p].alone = FALSE)
  BY TogetherFacts DEF PassInv, Disturbed
<1>3. PassesOK' /\ AloneOK' /\ FreshOK' /\ NothingLeft' /\ CountingOK'
  BY <1>2 DEF PassesOK, AloneOK, FreshOK, NothingLeft, CountingOK
<1> QED BY <1>1, <1>3 DEF PassInv

\* A pass starts after rows have landed on the days it is bounded to.
LEMMA Starting ==
    ASSUME PassInv, NEW p \in Passes, NEW from \in Int \cup {Null}, NEW to \in Int \cup {Null},
           from = Null <=> to = Null, StartPass(p, from, to), UNCHANGED <<today, bill, payments>>,
           trusted' = (trusted /\ Quiet),
           rows' \subseteq Rows, \A r \in rows' : PostedOn[r] <= today,
           from # Null => \A r \in rows' \ rows : from <= PostedOn[r] /\ PostedOn[r] <= to
    PROVE  PassInv'
<1>1. DataOK'
  BY DEF PassInv, DataOK
<1>2. PICK q \in BOOLEAN : q = Quiet
  BY DEF Quiet
<1>3. PICK s : s = [pc |-> "start", from |-> from, to |-> to, alone |-> q]
  OBVIOUS
<1>4. s.pc = "start" /\ s.from = from /\ s.to = to /\ s.alone = q /\ Shape(s) /\ s # Idle
  <2>1. s.pc = "start" /\ s.from = from /\ s.to = to /\ s.alone = q
    BY <1>3
  <2>2. s # Idle
    BY <2>1 DEF Idle
  <2> QED BY <1>3, <2>1, <2>2 DEF Shape, StartForm
<1>5. PassesOK
  BY DEF PassInv
<1>6. /\ DOMAIN pass' = Passes /\ pass'[p] = s
      /\ \A k \in Passes : k # p => /\ Shape(pass'[k]) /\ (pass'[k] = Idle <=> pass[k] = Idle)
                                    /\ pass'[k] # Idle => pass'[k].alone = FALSE
  <2>1. pass' = [Together EXCEPT ![p] = s]
    BY <1>2, <1>3 DEF StartPass
  <2> QED BY <1>5, <2>1, TogetherFacts
<1>7. q = TRUE => \A k \in Passes : pass[k] = Idle
  BY <1>2 DEF Quiet
<1>8. PassesOK'
  BY <1>4, <1>6 DEF PassesOK
<1>9. trusted' => q = TRUE /\ trusted
  BY <1>2
<1>10. AloneOK'
  BY <1>4, <1>6, <1>7, <1>9 DEF AloneOK
<1>11. FreshOK'
  <2>1. Fresh(s, bill', rows', payments')
    BY <1>4 DEF Fresh
  <2> QED BY <1>6, <2>1 DEF FreshOK
<1>12. NothingLeft'
  <2>1. ~Quiet'
    BY <1>4, <1>6 DEF Quiet
  <2> QED BY <2>1 DEF NothingLeft
<1>13. CountingOK'
  <2>1. ASSUME q = TRUE, trusted' \/ FullPass(s) PROVE LeftIsAhead(s, bill', rows', payments')
    <3>1. CASE from = Null
      BY <1>4, <3>1 DEF LeftIsAhead, Ahead
    <3>2. CASE from # Null
      <4>1. LeftIsAhead(Idle, bill, rows, payments)
        <5>1. trusted'
          BY <1>4, <2>1, <3>2 DEF FullPass
        <5> QED BY <1>2, <1>9, <5>1 DEF PassInv, NothingLeft
      <4>2. ASSUME NEW b \in BillIds, NEW r \in rows', NEW occ \in Int, Fulfils(bill'[b], occ, r)
            PROVE  Done(payments', b, occ, r) \/ Ahead(s, b, occ, r)
        <5>1. CASE r \in rows
          <6>1. ~Ahead(Idle, b, occ, r)
            BY DEF Ahead, Idle
          <6>2. Fulfils(bill[b], occ, r) => Done(payments, b, occ, r)
            BY <4>1, <5>1, <6>1 DEF LeftIsAhead
          <6> QED BY <4>2, <6>2
        <5>2. CASE r \notin rows
          <6>1. from <= PostedOn[r] /\ PostedOn[r] <= to
            BY <3>2, <5>2
          <6> QED BY <1>4, <6>1 DEF Ahead
        <5> QED BY <5>1, <5>2
      <4> QED BY <4>2 DEF LeftIsAhead
    <3> QED BY <3>1, <3>2
  <2> QED BY <1>4, <1>6, <2>1 DEF CountingOK
<1> QED BY <1>1, <1>8, <1>10, <1>11, <1>12, <1>13 DEF PassInv

\* A pass goes on: what it leaves is ahead of it.
LEMMA Stepping ==
    ASSUME PassInv, NEW p \in Passes, NEW s, pass[p] # Idle,
           pass' = [pass EXCEPT ![p] = s], UNCHANGED <<today, rows, bill, trusted>>,
           Shape(s), s # Idle, s.alone = pass[p].alone,
           s.alone => Fresh(s, bill, rows, payments'),
           s.alone /\ (trusted \/ FullPass(s)) => LeftIsAhead(s, bill, rows, payments')
    PROVE  PassInv'
<1>1. DataOK'
  BY DEF PassInv, DataOK
<1>2. /\ DOMAIN pass' = Passes /\ pass'[p] = s
      /\ \A k \in Passes \ {p} : pass'[k] = pass[k]
  BY DEF PassInv, PassesOK
<1>3. PassesOK'
  BY <1>2 DEF PassInv, PassesOK
<1>4. \A k \in Passes \ {p} : pass[k] = Idle \/ pass[k].alone = FALSE
  <2> SUFFICES ASSUME NEW k \in Passes \ {p}, pass[k] # Idle, pass[k].alone # FALSE PROVE FALSE
    OBVIOUS
  <2>1. Shape(pass[k])
    BY DEF PassInv, PassesOK
  <2>2. pass[k].alone \in BOOLEAN
    BY <2>1, ShapeFacts
  <2>3. pass[p] = Idle
    BY <2>2 DEF PassInv, AloneOK
  <2> QED BY <2>3
<1>5. AloneOK'
  <2>1. ASSUME trusted \/ s.alone PROVE s.alone /\ \A k \in Passes \ {p} : pass'[k] = Idle
    BY <1>2, <2>1 DEF PassInv, AloneOK
  <2>2. ASSUME NEW k \in Passes \ {p}, pass'[k] # Idle PROVE ~trusted' /\ ~pass'[k].alone
    <3>1. pass[k] # Idle /\ pass'[k] = pass[k]
      BY <1>2, <2>2
    <3>2. ~trusted
      BY <3>1 DEF PassInv, AloneOK
    <3> QED BY <1>4, <3>1, <3>2
  <2> QED BY <1>2, <2>1, <2>2 DEF AloneOK
<1>6. FreshOK'
  BY <1>2, <1>4 DEF FreshOK
<1>7. NothingLeft'
  <2>1. ~Quiet'
    BY <1>2 DEF Quiet
  <2> QED BY <2>1 DEF NothingLeft
<1>8. CountingOK'
  BY <1>2, <1>4 DEF CountingOK
<1> QED BY <1>1, <1>3, <1>5, <1>6, <1>7, <1>8 DEF PassInv

\* A pass is over, and counts or does not.
LEMMA Ending ==
    ASSUME PassInv, NEW p \in Passes, pass[p] # Idle,
           pass' = [pass EXCEPT ![p] = Idle], UNCHANGED <<today, rows, bill, payments>>,
           trusted' \in BOOLEAN,
           trusted' => /\ trusted \/ pass[p].alone
                       /\ LeftIsAhead(Idle, bill, rows, payments)
    PROVE  PassInv'
<1>1. DataOK'
  BY DEF PassInv, DataOK
<1>2. /\ DOMAIN pass' = Passes /\ pass'[p] = Idle
      /\ \A k \in Passes \ {p} : pass'[k] = pass[k]
  BY DEF PassInv, PassesOK
<1>3. PassesOK'
  BY <1>2 DEF PassInv, PassesOK, Shape
<1>4. \A k \in Passes \ {p} : pass[k] = Idle \/ pass[k].alone = FALSE
  <2> SUFFICES ASSUME NEW k \in Passes \ {p}, pass[k] # Idle, pass[k].alone # FALSE PROVE FALSE
    OBVIOUS
  <2>1. Shape(pass[k])
    BY DEF PassInv, PassesOK
  <2>2. pass[k].alone \in BOOLEAN
    BY <2>1, ShapeFacts
  <2>3. pass[p] = Idle
    BY <2>2 DEF PassInv, AloneOK
  <2> QED BY <2>3
<1>5. trusted' => \A k \in Passes \ {p} : pass[k] = Idle
  BY DEF PassInv, AloneOK
<1>6. AloneOK'
  BY <1>2, <1>4, <1>5 DEF AloneOK
<1>7. FreshOK' /\ CountingOK'
  BY <1>2, <1>4 DEF FreshOK, CountingOK
<1>8. NothingLeft'
  BY DEF NothingLeft
<1> QED BY <1>1, <1>3, <1>6, <1>7, <1>8 DEF PassInv

-----------------------------------------------------------------------------
(* The steps of a pass *)

\* The days rows were posted on have a first and a last.
LEMMA PostedBounds ==
    ASSUME NEW S \in SUBSET Rows, S # {}, NEW t \in Int, \A r \in S : PostedOn[r] <= t
    PROVE  /\ Min({PostedOn[r] : r \in S}) \in Int /\ Max({PostedOn[r] : r \in S}) \in Int
           /\ \A r \in S : Min({PostedOn[q] : q \in S}) <= PostedOn[r]
                           /\ PostedOn[r] <= Max({PostedOn[q] : q \in S})
<1>1. PICK T : T = {PostedOn[r] : r \in S}
  OBVIOUS
<1>2. T \in SUBSET Int /\ T # {} /\ \A x \in T : 0 <= x /\ x <= t
  <2>1. \A r \in S : PostedOn[r] \in Nat
    BY BillsAssumption
  <2> QED BY <1>1, <2>1
<1>3. PICK x \in T : \A y \in T : x <= y
  <2>1. 0 \in Int /\ \A x \in T : 0 <= x
    BY <1>2
  <2> QED BY <1>2, <2>1, LeastOfInts
<1>4. PICK z \in T : \A y \in T : z >= y
  BY <1>2, GreatestOfInts
<1>5. Min(T) = x /\ Max(T) = z
  BY <1>2, <1>3, <1>4, MinIs, MaxIs
<1> QED BY <1>1, <1>2, <1>3, <1>4, <1>5

\* What a bill of the table is.
LEMMA BillFacts ==
    ASSUME DataOK, NEW b \in BillIds, bill[b] # Null
    PROVE  /\ bill[b].anchor \in Int /\ bill[b].cadence \in Cadences
           /\ bill[b].ended \in Int \cup {Null} /\ bill[b].pattern \in Patterns \cup {NoPattern}
BY BillsAssumption DEF DataOK

LEMMA CyclesOfIs ==
    ASSUME DataOK, NEW p \in Passes, pass[p].from \in Int \cup {Null}, pass[p].to \in Int \cup {Null},
           pass[p].from = Null <=> pass[p].to = Null, NEW b \in BillIds, bill[b] # Null, rows # {}
    PROVE  /\ \A occ \in CyclesOf(p, b) : occ \in Int /\ bill[b].anchor <= occ
           /\ \A occ \in Int, r \in rows :
                 Fulfils(bill[b], occ, r) /\ pass[p].pc = "start" /\ Ahead(pass[p], b, occ, r) =>
                     occ \in CyclesOf(p, b)
<1>1. PICK f : f = bill[b] /\ f.anchor \in Int /\ f.cadence \in Cadences /\ f.ended \in Int \cup {Null}
  BY BillFacts
<1>2. PICK from \in Int \cup {Null}, to \in Int \cup {Null} : from = pass[p].from /\ to = pass[p].to
  OBVIOUS
<1>3. today \in Int /\ Window \in Nat /\ Null \notin Int /\ \A r \in rows : PostedOn[r] \in Nat /\ PostedOn[r] <= today
  BY BillsAssumption DEF DataOK
<1>4. PICK c \in Int : c = CoverageFrom /\ \A r \in rows : c <= PostedOn[r]
  <2>1. PICK R \in SUBSET Rows, t \in Int : R = rows /\ t = today
    BY <1>3 DEF DataOK
  <2>2. Min({PostedOn[r] : r \in R}) \in Int /\ \A r \in R : Min({PostedOn[q] : q \in R}) <= PostedOn[r]
    BY <1>3, <2>1, PostedBounds
  <2> QED BY <2>1, <2>2 DEF CoverageFrom
<1>5. CyclesOf(p, b) =
             {occ \in Int :
                /\ Due(f.anchor, f.cadence, occ)
                /\ f.anchor <= occ /\ c - Window <= occ
                /\ from # Null => from - Window <= occ
                /\ occ <= today + Window
                /\ to # Null => occ <= to + Window
                /\ f.ended # Null => occ <= f.ended}
  <2>1. CyclesOf(p, b) = CycleWindow(f, c, from, to)
    BY <1>1, <1>2, <1>4 DEF CyclesOf
  <2> QED BY <1>1, <1>3, <2>1, CycleWindowIs
<1>6. ASSUME NEW occ \in Int, NEW r \in rows, Fulfils(f, occ, r), pass[p].pc = "start", Ahead(pass[p], b, occ, r)
      PROVE  occ \in CyclesOf(p, b)
  <2>1. /\ Due(f.anchor, f.cadence, occ) /\ f.anchor <= occ /\ (f.ended # Null => occ <= f.ended)
        /\ Gap(PostedOn[r], occ) <= Window
    BY <1>6 DEF Fulfils, Matches
  <2>2. PICK d \in Nat : d = PostedOn[r] /\ d <= today /\ c <= d
    BY <1>3, <1>4
  <2>3. d - Window <= occ /\ occ <= d + Window
    BY <1>3, <2>1, <2>2 DEF Gap
  <2>4. from = Null \/ (from <= d /\ d <= to)
    BY <1>2, <1>6, <2>2 DEF Ahead
  <2>5. CASE from = Null
    <3>1. c - Window <= occ /\ occ <= today + Window
      BY <1>3, <2>2, <2>3
    <3>2. to = Null
      BY <1>2, <2>5
    <3> QED BY <1>5, <2>1, <2>5, <3>1, <3>2
  <2>6. CASE from # Null /\ from <= d /\ d <= to
    <3>1. c - Window <= occ /\ occ <= today + Window
      BY <1>3, <2>2, <2>3
    <3>2. from - Window <= occ /\ (to # Null => occ <= to + Window)
      BY <1>3, <2>2, <2>3, <2>6
    <3> QED BY <1>5, <2>1, <3>1, <3>2
  <2> QED BY <2>4, <2>5, <2>6
<1> QED BY <1>1, <1>5, <1>6

\* An ingest lands rows and starts a pass bounded to their days.
LEMMA LandRowsKeeps ==
    ASSUME PassInv, NEW p \in Passes, NEW new \in SUBSET Rows, LandRows(p, new) PROVE PassInv'
<1>1. new # {} /\ \A r \in new : PostedOn[r] <= today
  BY DEF LandRows
<1>2. PICK t \in Int : t = today
  BY BillsAssumption DEF PassInv, DataOK
<1>3. PICK from \in Int, to \in Int :
          /\ from = Min({PostedOn[r] : r \in new}) /\ to = Max({PostedOn[r] : r \in new})
          /\ \A r \in new : from <= PostedOn[r] /\ PostedOn[r] <= to
  BY <1>1, <1>2, PostedBounds
<1>4. from # Null /\ to # Null
  BY BillsAssumption
<1>5. /\ StartPass(p, from, to) /\ UNCHANGED <<today, bill, payments>>
      /\ trusted' = (trusted /\ Quiet) /\ rows' = rows \cup new
  BY <1>3 DEF LandRows
<1>6. rows' \subseteq Rows /\ \A r \in rows' : PostedOn[r] <= today
  BY <1>1, <1>5 DEF PassInv, DataOK
<1>7. \A r \in rows' \ rows : from <= PostedOn[r] /\ PostedOn[r] <= to
  BY <1>3, <1>5
<1> QED BY <1>4, <1>5, <1>6, <1>7, Starting

LEMMA ReconcileNowKeeps ==
    ASSUME PassInv, NEW p \in Passes, ReconcileNow(p) PROVE PassInv'
<1>1. PICK n \in Int \cup {Null} : n = Null
  OBVIOUS
<1>2. /\ StartPass(p, n, n) /\ UNCHANGED <<today, bill, payments>>
      /\ trusted' = (trusted /\ Quiet) /\ rows' = rows
  BY <1>1 DEF ReconcileNow
<1>3. rows' \subseteq Rows /\ \A r \in rows' : PostedOn[r] <= today
  BY <1>2 DEF PassInv, DataOK
<1> QED BY <1>1, <1>2, <1>3, Starting

\* What the invariant says of a pass that is at a step.
LEMMA PassFacts ==
    ASSUME PassInv, NEW p \in Passes, pass[p].pc # "idle"
    PROVE  /\ pass[p] # Idle /\ Shape(pass[p]) /\ pass[p].alone \in BOOLEAN
           /\ pass[p].alone => Fresh(pass[p], bill, rows, payments)
           /\ pass[p].alone /\ (trusted \/ FullPass(pass[p])) =>
                  LeftIsAhead(pass[p], bill, rows, payments)
           /\ trusted => pass[p].alone
<1>1. Shape(pass[p])
  BY DEF PassInv, PassesOK
<1>2. pass[p] # Idle /\ pass[p].alone \in BOOLEAN
  BY <1>1, ShapeFacts
<1> QED BY <1>1, <1>2 DEF PassInv, AloneOK, FreshOK, CountingOK

\* The cycles in range are all the ones the pass owes.
LEMMA PassBillsKeeps ==
    ASSUME PassInv, NEW p \in Passes, PassBills(p) PROVE PassInv'
<1>1. pass[p].pc = "start" /\ UNCHANGED <<today, rows, bill, payments, trusted>> /\ rows # {}
  BY DEF PassBills, Todo
<1>2. PICK s0 : s0 = pass[p] /\ s0.pc = "start" /\ s0 # Idle /\ s0.alone \in BOOLEAN
  BY <1>1, PassFacts
<1>3. s0.from \in Int \cup {Null} /\ s0.to \in Int \cup {Null} /\ (s0.from = Null <=> s0.to = Null)
  <2>1. StartForm(s0)
    BY <1>1, <1>2, PassFacts DEF Shape, Idle
  <2> QED BY <2>1 DEF StartForm
<1>4. PICK fl \in BOOLEAN : fl = (s0.from = Null)
  OBVIOUS
<1>5. PICK al \in BOOLEAN : al = s0.alone
  BY <1>2
<1>6. PICK B : B = Todo(p)
  OBVIOUS
<1>7. PICK c : c = [b \in B |-> CyclesOf(p, b)]
  OBVIOUS
<1>8. PICK m : m = [b \in B |-> bill[b].pattern]
  OBVIOUS
<1>9. PICK s : s = [pc |-> "rows", full |-> fl, alone |-> al, cycles |-> c, pattern |-> m]
  OBVIOUS
<1>10. pass' = [pass EXCEPT ![p] = s]
  BY <1>2, <1>4, <1>5, <1>6, <1>7, <1>8, <1>9 DEF PassBills
<1>11. s.pc = "rows" /\ s.full = fl /\ s.alone = al /\ s.cycles = c /\ s.pattern = m
  BY <1>9
<1>12. Shape(s) /\ s # Idle
  BY <1>9, <1>11 DEF Shape, RowsForm, Idle
<1>13. ASSUME NEW b \in BillIds, bill[b] # Null
       PROVE  /\ \A occ \in CyclesOf(p, b) : occ \in Int /\ bill[b].anchor <= occ
              /\ \A occ \in Int, r \in rows :
                    Fulfils(bill[b], occ, r) /\ Ahead(s0, b, occ, r) => occ \in CyclesOf(p, b)
  BY <1>1, <1>2, <1>3, <1>13, CyclesOfIs DEF PassInv
<1>14. B \subseteq BillIds /\ \A b \in B : bill[b] # Null
  BY <1>1, <1>6 DEF Todo, Exists
<1>15. Fresh(s, bill, rows, payments')
  BY <1>7, <1>8, <1>11, <1>13, <1>14 DEF Fresh
<1>16. ASSUME s.alone, trusted \/ FullPass(s) PROVE LeftIsAhead(s, bill, rows, payments')
  <2>1. LeftIsAhead(s0, bill, rows, payments)
    BY <1>1, <1>2, <1>4, <1>5, <1>11, <1>16, PassFacts DEF FullPass
  <2>2. ASSUME NEW b \in BillIds, NEW r \in rows, NEW occ \in Int, Fulfils(bill[b], occ, r),
               Ahead(s0, b, occ, r)
        PROVE  Ahead(s, b, occ, r)
    <3>1. bill[b] # Null /\ bill[b].status # "paused" /\ bill[b].pattern # NoPattern
      BY <2>2 DEF Fulfils
    <3>2. occ \in CyclesOf(p, b)
      BY <1>13, <2>2, <3>1
    <3>3. b \in B
      BY <1>1, <1>6, <3>1, <3>2 DEF Todo, Exists
    <3> QED BY <1>7, <1>11, <3>2, <3>3 DEF Ahead
  <2> QED BY <1>1, <2>1, <2>2 DEF LeftIsAhead
<1> QED BY <1>1, <1>2, <1>5, <1>10, <1>11, <1>12, <1>15, <1>16, Stepping

LEMMA PassRowsKeeps ==
    ASSUME PassInv, NEW p \in Passes, PassRows(p) PROVE PassInv'
<1>1. pass[p].pc = "rows" /\ UNCHANGED <<today, rows, bill, payments, trusted>>
  BY DEF PassRows
<1>2. PICK s0 : s0 = pass[p] /\ s0.pc = "rows" /\ s0 # Idle /\ s0.alone \in BOOLEAN
  BY <1>1, PassFacts
<1>3. PICK fl, al, c, m : fl \in BOOLEAN /\ al \in BOOLEAN /\ fl = s0.full /\ al = s0.alone /\ c = s0.cycles /\ m = s0.pattern
  <2>1. RowsForm(s0)
    BY <1>1, <1>2, PassFacts DEF Shape, Idle
  <2> QED BY <2>1 DEF RowsForm
<1>4. PICK s : s = [pc |-> "next", full |-> fl, alone |-> al, cycles |-> c, pattern |-> m, seen |-> rows]
  OBVIOUS
<1>5. pass' = [pass EXCEPT ![p] = s]
  BY <1>2, <1>3, <1>4 DEF PassRows
<1>6. s.pc = "next" /\ s.full = fl /\ s.alone = al /\ s.cycles = c /\ s.pattern = m /\ s.seen = rows
  BY <1>4
<1>7. Shape(s) /\ s # Idle
  BY <1>3, <1>4, <1>6 DEF Shape, NextForm, Idle
<1>8. ASSUME s.alone PROVE Fresh(s, bill, rows, payments')
  <2>1. Fresh(s0, bill, rows, payments)
    BY <1>1, <1>2, <1>3, <1>6, <1>8, PassFacts
  <2> QED BY <1>2, <1>3, <1>6, <2>1 DEF Fresh
<1>9. ASSUME s.alone, trusted \/ FullPass(s) PROVE LeftIsAhead(s, bill, rows, payments')
  <2>1. LeftIsAhead(s0, bill, rows, payments)
    BY <1>1, <1>2, <1>3, <1>6, <1>9, PassFacts DEF FullPass
  <2> QED BY <1>1, <1>2, <1>3, <1>6, <2>1 DEF LeftIsAhead, Ahead
<1> QED BY <1>1, <1>2, <1>3, <1>5, <1>6, <1>7, <1>8, <1>9, Stepping

LEMMA PassNextKeeps ==
    ASSUME PassInv, NEW p \in Passes, NEW b \in BillIds, PassNext(p, b) PROVE PassInv'
<1>1. pass[p].pc = "next" /\ b \in DOMAIN pass[p].cycles /\ UNCHANGED <<today, rows, bill, payments, trusted>>
  BY DEF PassNext
<1>2. PICK s0 : s0 = pass[p] /\ s0.pc = "next" /\ s0 # Idle /\ s0.alone \in BOOLEAN
  BY <1>1, PassFacts
<1>3. PICK fl, al, c, m, n :
          fl \in BOOLEAN /\ al \in BOOLEAN /\ fl = s0.full /\ al = s0.alone /\ c = s0.cycles /\ m = s0.pattern /\ n = s0.seen
  <2>1. NextForm(s0)
    BY <1>1, <1>2, PassFacts DEF Shape, Idle
  <2> QED BY <2>1 DEF NextForm
<1>4. PICK x : x = {y.occ : y \in {z \in payments : z.bill = b}}
  OBVIOUS
<1>5. PICK u : u = {y.row : y \in {z \in payments : z.bill = b}}
  OBVIOUS
<1>6. PICK s : s = [pc |-> "bill", full |-> fl, alone |-> al, cycles |-> c, pattern |-> m, seen |-> n,
                    b |-> b, settled |-> x, used |-> u]
  OBVIOUS
<1>7. pass' = [pass EXCEPT ![p] = s]
  BY <1>2, <1>3, <1>4, <1>5, <1>6 DEF PassNext
<1>8. /\ s.pc = "bill" /\ s.full = fl /\ s.alone = al /\ s.cycles = c /\ s.pattern = m /\ s.seen = n
      /\ s.b = b /\ s.settled = x /\ s.used = u
  BY <1>6
<1>9. Shape(s) /\ s # Idle
  BY <1>3, <1>6, <1>8 DEF Shape, BillForm, Idle
<1>10. ASSUME s.alone PROVE Fresh(s, bill, rows, payments')
  <2>1. Fresh(s0, bill, rows, payments)
    BY <1>1, <1>2, <1>3, <1>8, <1>10, PassFacts
  <2>2. /\ DOMAIN m = DOMAIN c /\ n = rows
        /\ \A d \in DOMAIN c :
              /\ d \in BillIds /\ bill[d] # Null /\ m[d] = bill[d].pattern
              /\ \A occ \in c[d] : occ \in Int /\ bill[d].anchor <= occ
    BY <1>2, <1>3, <2>1 DEF Fresh
  <2>3. b \in DOMAIN c /\ payments' = payments
    BY <1>1, <1>2, <1>3
  <2> QED BY <1>4, <1>5, <1>8, <2>2, <2>3 DEF Fresh
<1>11. ASSUME s.alone, trusted \/ FullPass(s) PROVE LeftIsAhead(s, bill, rows, payments')
  <2>1. LeftIsAhead(s0, bill, rows, payments)
    BY <1>1, <1>2, <1>3, <1>8, <1>11, PassFacts DEF FullPass
  <2> QED BY <1>1, <1>2, <1>3, <1>8, <2>1 DEF LeftIsAhead, Ahead
<1> QED BY <1>1, <1>2, <1>3, <1>7, <1>8, <1>9, <1>10, <1>11, Stepping

\* A pass that is alone fills a cycle that is not settled, with a row that is
\* not used: no index refuses the payment.
LEMMA PassLinkKeeps ==
    ASSUME PassInv, NEW p \in Passes, PassLink(p) PROVE PassInv'
<1>1. pass[p].pc = "bill" /\ Fillable(pass[p]) # {} /\ UNCHANGED <<today, rows, bill, trusted>>
  BY DEF PassLink
<1>2. PICK s0 : s0 = pass[p] /\ s0.pc = "bill" /\ s0 # Idle /\ s0.alone \in BOOLEAN
  BY <1>1, PassFacts
<1>3. PICK fl, al, c, m, n, b, x, u :
          /\ fl \in BOOLEAN /\ al \in BOOLEAN
          /\ s0 = [pc |-> "bill", full |-> fl, alone |-> al, cycles |-> c, pattern |-> m, seen |-> n,
                   b |-> b, settled |-> x, used |-> u]
          /\ fl = s0.full /\ al = s0.alone /\ c = s0.cycles /\ m = s0.pattern /\ n = s0.seen
          /\ b = s0.b /\ x = s0.settled /\ u = s0.used
  <2>1. BillForm(s0)
    BY <1>1, <1>2, PassFacts DEF Shape, Idle
  <2> QED BY <2>1 DEF BillForm
<1>4. PICK occ : occ = Min(Fillable(s0))
  OBVIOUS
<1>5. PICK r \in {q \in n \ u : Matches(m[b], q, occ)} :
        /\ payments' = IF Exists(b) /\ ~\E y \in payments : y.bill = b /\ (y.occ = occ \/ y.row = r)
                       THEN payments \cup {[bill |-> b, row |-> r, occ |-> occ, method |-> "auto"]}
                       ELSE payments
        /\ pass' = [pass EXCEPT ![p].settled = @ \cup {occ}, ![p].used = @ \cup {r}]
  <2>1. PICK r \in Best({q \in pass[p].seen \ pass[p].used : Matches(pass[p].pattern[pass[p].b], q, occ)}, occ) :
        /\ payments' = IF Exists(pass[p].b) /\ ~\E y \in payments : y.bill = pass[p].b /\ (y.occ = occ \/ y.row = r)
                       THEN payments \cup {[bill |-> pass[p].b, row |-> r, occ |-> occ, method |-> "auto"]}
                       ELSE payments
        /\ pass' = [pass EXCEPT ![p].settled = @ \cup {occ}, ![p].used = @ \cup {r}]
    BY <1>2, <1>4, Zenon DEF PassLink
  <2>2. r \in {q \in n \ u : Matches(m[b], q, occ)}
    BY <1>2, <1>3, <2>1 DEF Best
  <2>3. pass[p].b = b
    BY <1>2, <1>3
  <2> QED BY <2>1, <2>2, <2>3, Zenon
<1>6. PICK s : s = [pc |-> "bill", full |-> fl, alone |-> al, cycles |-> c, pattern |-> m, seen |-> n,
                    b |-> b, settled |-> x \cup {occ}, used |-> u \cup {r}]
  OBVIOUS
<1>7. pass' = [pass EXCEPT ![p] = s]
  <2>1. PICK w : w = [pass EXCEPT ![p].settled = @ \cup {occ}]
    OBVIOUS
  <2>2. PICK s1 : s1 = [s0 EXCEPT !.settled = x \cup {occ}]
    OBVIOUS
  <2>3. s1 = [pc |-> "bill", full |-> fl, alone |-> al, cycles |-> c, pattern |-> m, seen |-> n,
              b |-> b, settled |-> x \cup {occ}, used |-> u]
    BY <1>3, <2>2
  <2>4. w = [pass EXCEPT ![p] = s1]
    BY <1>2, <1>3, <2>1, <2>2
  <2>5. p \in DOMAIN pass /\ w[p] = s1 /\ s1.used = u
    BY <2>3, <2>4 DEF PassInv, PassesOK
  <2>6. s = [s1 EXCEPT !.used = u \cup {r}]
    BY <1>6, <2>3
  <2>7. pass' = [w EXCEPT ![p].used = @ \cup {r}]
    BY <1>5, <2>1
  <2>8. pass' = [w EXCEPT ![p] = s]
    BY <2>5, <2>6, <2>7
  <2> QED BY <2>4, <2>8
<1>8. /\ s.pc = "bill" /\ s.full = fl /\ s.alone = al /\ s.cycles = c /\ s.pattern = m /\ s.seen = n
      /\ s.b = b /\ s.settled = x \cup {occ} /\ s.used = u \cup {r}
  BY <1>6
<1>9. Shape(s) /\ s # Idle
  BY <1>3, <1>6, <1>8 DEF Shape, BillForm, Idle
<1>10. ASSUME s.alone
       PROVE  /\ Fresh(s, bill, rows, payments')
              /\ payments \subseteq payments'
  <2>1. Fresh(s0, bill, rows, payments)
    BY <1>1, <1>2, <1>3, <1>8, <1>10, PassFacts
  <2>2. /\ DOMAIN m = DOMAIN c /\ n = rows /\ b \in DOMAIN c
        /\ \A d \in DOMAIN c :
              /\ d \in BillIds /\ bill[d] # Null /\ m[d] = bill[d].pattern
              /\ \A k \in c[d] : k \in Int /\ bill[d].anchor <= k
        /\ x = {y.occ : y \in {z \in payments : z.bill = b}}
        /\ u = {y.row : y \in {z \in payments : z.bill = b}}
    BY <1>2, <1>3, <2>1 DEF Fresh
  <2>3. occ \in Fillable(s0)
    <3>1. PICK a \in Int : a = bill[b].anchor
      BY <2>2, BillFacts DEF PassInv
    <3>2. PICK F : F = Fillable(s0)
      OBVIOUS
    <3>3. F \in SUBSET Int /\ F # {} /\ \A k \in F : a <= k
      BY <1>1, <1>2, <1>3, <2>2, <3>1, <3>2 DEF Fillable
    <3>4. PICK k \in F : \A j \in F : k <= j
      BY <3>3, LeastOfInts
    <3>5. Min(F) = k
      BY <3>3, <3>4, MinIs
    <3> QED BY <1>4, <3>2, <3>4, <3>5
  <2>4. occ \notin x /\ r \notin u
    BY <1>3, <1>5, <2>3 DEF Fillable
  <2>5. PICK new : new = [bill |-> b, row |-> r, occ |-> occ, method |-> "auto"]
    OBVIOUS
  <2>6. payments' = payments \cup {new}
    <3>1. Exists(b)
      BY <2>2 DEF Exists
    <3>2. ASSUME NEW y \in payments, y.bill = b PROVE y.occ # occ /\ y.row # r
      BY <2>2, <2>4, <3>2
    <3> QED BY <1>5, <2>5, <3>1, <3>2
  <2>7. new.bill = b /\ new.row = r /\ new.occ = occ
    BY <2>5
  <2>8. PICK mine : mine = {z \in payments : z.bill = b}
    OBVIOUS
  <2>9. {z \in payments' : z.bill = b} = mine \cup {new}
    BY <2>6, <2>7, <2>8
  <2>10. /\ {y.occ : y \in mine \cup {new}} = x \cup {occ}
         /\ {y.row : y \in mine \cup {new}} = u \cup {r}
    BY <2>2, <2>7, <2>8
  <2> QED BY <1>8, <2>2, <2>6, <2>9, <2>10 DEF Fresh
<1>11. ASSUME s.alone, trusted \/ FullPass(s) PROVE LeftIsAhead(s, bill, rows, payments')
  <2>1. LeftIsAhead(s0, bill, rows, payments)
    BY <1>1, <1>2, <1>3, <1>8, <1>11, PassFacts DEF FullPass
  <2>2. \A d, k, q : Done(payments, d, k, q) => Done(payments', d, k, q)
    BY <1>10, <1>11 DEF Done
  <2>3. \A d, k, q : Ahead(s0, d, k, q) => Ahead(s, d, k, q)
    BY <1>2, <1>3, <1>8 DEF Ahead
  <2> QED BY <2>1, <2>2, <2>3 DEF LeftIsAhead
<1>12. s.alone = pass[p].alone
  BY <1>2, <1>3, <1>8
<1> QED BY <1>1, <1>2, <1>7, <1>9, <1>10, <1>11, <1>12, Stepping

\* When a bill has nothing to fill, every cycle of it that was in range is done.
LEMMA BillCovered ==
    ASSUME NEW s, s.pc = "bill", Fresh(s, bill, rows, payments), Fillable(s) = {},
           NEW r \in rows, NEW occ \in Int, Fulfils(bill[s.b], occ, r), occ \in s.cycles[s.b]
    PROVE  Done(payments, s.b, occ, r)
<1>1. /\ s.pattern[s.b] = bill[s.b].pattern /\ s.seen = rows
      /\ s.settled = {y.occ : y \in {z \in payments : z.bill = s.b}}
      /\ s.used = {y.row : y \in {z \in payments : z.bill = s.b}}
  BY DEF Fresh
<1>2. Matches(s.pattern[s.b], r, occ)
  BY <1>1 DEF Fulfils
<1>3. occ \in s.settled \/ r \in s.used
  BY <1>1, <1>2 DEF Fillable
<1> QED BY <1>1, <1>3 DEF Done

LEMMA PassBillDoneKeeps ==
    ASSUME PassInv, NEW p \in Passes, PassBillDone(p) PROVE PassInv'
<1>1. /\ pass[p].pc = "bill" /\ Fillable(pass[p]) = {}
      /\ UNCHANGED <<today, rows, bill, payments, trusted>>
  BY DEF PassBillDone
<1>2. PICK s0 : s0 = pass[p] /\ s0.pc = "bill" /\ s0 # Idle /\ s0.alone \in BOOLEAN
  BY <1>1, PassFacts
<1>3. PICK fl, al, n, b :
          fl \in BOOLEAN /\ al \in BOOLEAN /\ fl = s0.full /\ al = s0.alone /\ n = s0.seen /\ b = s0.b
  <2>1. BillForm(s0)
    BY <1>1, <1>2, PassFacts DEF Shape, Idle
  <2> QED BY <2>1 DEF BillForm
<1>4. PICK c : c = [d \in DOMAIN s0.cycles \ {b} |-> s0.cycles[d]]
  OBVIOUS
<1>5. PICK m : m = [d \in DOMAIN s0.cycles \ {b} |-> s0.pattern[d]]
  OBVIOUS
<1>6. PICK s : s = [pc |-> "next", full |-> fl, alone |-> al, cycles |-> c, pattern |-> m, seen |-> n]
  OBVIOUS
<1>7. pass' = [pass EXCEPT ![p] = s]
  BY <1>2, <1>3, <1>4, <1>5, <1>6 DEF PassBillDone
<1>8. s.pc = "next" /\ s.full = fl /\ s.alone = al /\ s.cycles = c /\ s.pattern = m /\ s.seen = n
  BY <1>6
<1>9. Shape(s) /\ s # Idle
  BY <1>3, <1>6, <1>8 DEF Shape, NextForm, Idle
<1>10. s.alone => Fresh(s0, bill, rows, payments)
  BY <1>1, <1>2, <1>3, <1>8, PassFacts
<1>11. ASSUME s.alone PROVE Fresh(s, bill, rows, payments')
  BY <1>1, <1>2, <1>3, <1>4, <1>5, <1>8, <1>10, <1>11 DEF Fresh
<1>12. ASSUME s.alone, trusted \/ FullPass(s) PROVE LeftIsAhead(s, bill, rows, payments')
  <2>1. LeftIsAhead(s0, bill, rows, payments)
    BY <1>1, <1>2, <1>3, <1>8, <1>12, PassFacts DEF FullPass
  <2>2. ASSUME NEW d \in BillIds, NEW r \in rows, NEW occ \in Int, Fulfils(bill[d], occ, r),
               Ahead(s0, d, occ, r)
        PROVE  Done(payments, d, occ, r) \/ Ahead(s, d, occ, r)
    <3>1. d \in DOMAIN s0.cycles /\ occ \in s0.cycles[d]
      BY <1>2, <2>2 DEF Ahead
    <3>2. CASE d = b
      <4>1. Fulfils(bill[s0.b], occ, r) /\ occ \in s0.cycles[s0.b]
        BY <1>3, <2>2, <3>1, <3>2
      <4>2. Done(payments, s0.b, occ, r)
        BY <1>1, <1>2, <1>10, <1>12, <4>1, BillCovered
      <4> QED BY <1>3, <3>2, <4>2
    <3>3. CASE d # b
      BY <1>4, <1>8, <3>1, <3>3 DEF Ahead
    <3> QED BY <3>2, <3>3
  <2> QED BY <1>1, <2>1, <2>2 DEF LeftIsAhead
<1>13. s.alone = pass[p].alone
  BY <1>2, <1>3, <1>8
<1> QED BY <1>1, <1>2, <1>7, <1>9, <1>11, <1>12, <1>13, Stepping

\* When a pass that counts ends, nothing is left.
LEMMA PassEndsKeeps ==
    ASSUME PassInv, NEW p \in Passes, PassEnds(p) PROVE PassInv'
<1>1. PICK s : s = pass[p]
  OBVIOUS
<1> DEFINE nothing == s.pc = "start" /\ Todo(p) = {}
           done == s.pc = "bill" /\ Fillable(s) = {} /\ DOMAIN s.cycles = {s.b}
<1>2. /\ nothing \/ done
      /\ pass' = [pass EXCEPT ![p] = Idle]
      /\ trusted' = (trusted \/ (((nothing /\ s.from = Null) \/ (done /\ s.full)) /\ s.alone))
      /\ UNCHANGED <<today, rows, bill, payments>>
  BY <1>1 DEF PassEnds
<1>3. s.pc # "idle" /\ s # Idle /\ Shape(s)
  BY <1>1, <1>2, PassFacts
<1>4. trusted' \in BOOLEAN
  BY <1>2
<1>5. ASSUME trusted' PROVE s.alone /\ LeftIsAhead(s, bill, rows, payments)
  <2>1. trusted \/ (s.alone /\ FullPass(s))
    BY <1>2, <1>5 DEF FullPass
  <2>2. s.alone
    BY <1>1, <1>3, <2>1, PassFacts
  <2> QED BY <1>1, <1>3, <2>1, <2>2, PassFacts
<1>6. ASSUME trusted', NEW b \in BillIds, NEW r \in rows, NEW occ \in Int, Fulfils(bill[b], occ, r)
      PROVE  Done(payments, b, occ, r)
  <2>1. Done(payments, b, occ, r) \/ Ahead(s, b, occ, r)
    BY <1>5, <1>6 DEF LeftIsAhead
  <2>2. CASE nothing /\ Ahead(s, b, occ, r)
    <3>1. s.from \in Int \cup {Null} /\ s.to \in Int \cup {Null} /\ (s.from = Null <=> s.to = Null)
      <4>1. StartForm(s)
        BY <1>3, <2>2 DEF Shape
      <4> QED BY <4>1 DEF StartForm
    <3>2. bill[b] # Null /\ bill[b].status # "paused" /\ bill[b].pattern # NoPattern
      BY <1>6 DEF Fulfils
    <3>3. occ \in CyclesOf(p, b)
      BY <1>1, <1>6, <2>2, <3>1, <3>2, CyclesOfIs DEF PassInv
    <3>4. b \in Todo(p)
      BY <3>2, <3>3 DEF Todo, Exists
    <3> QED BY <2>2, <3>4
  <2>3. CASE done /\ Ahead(s, b, occ, r)
    <3>1. b = s.b /\ occ \in s.cycles[s.b]
      BY <2>3 DEF Ahead
    <3>2. Fresh(s, bill, rows, payments)
      BY <1>1, <1>3, <1>5, <1>6, PassFacts
    <3> QED BY <1>6, <2>3, <3>1, <3>2, BillCovered
  <2> QED BY <1>2, <2>1, <2>2, <2>3
<1>7. trusted' => LeftIsAhead(Idle, bill, rows, payments)
  BY <1>6 DEF LeftIsAhead
<1> HIDE DEF nothing, done
<1> QED BY <1>1, <1>2, <1>3, <1>4, <1>5, <1>7, Ending

LEMMA PassFailsKeeps ==
    ASSUME PassInv, NEW p \in Passes, PassFails(p) PROVE PassInv'
<1>1. /\ pass[p] # Idle /\ pass' = [pass EXCEPT ![p] = Idle] /\ trusted' = FALSE
      /\ UNCHANGED <<today, rows, bill, payments>>
  BY DEF PassFails
<1> QED BY <1>1, Ending

-----------------------------------------------------------------------------
(* Every step *)

\* The first day comes; nothing is known yet.
LEMMA InitInv == Init => Inv
<1> SUFFICES ASSUME Init PROVE Inv
  OBVIOUS
<1>1. today \in Days
  <2>1. PICK n \in Days : \A m \in Days : n <= m
    BY BillsAssumption, Least
  <2>2. Min(Days) = n
    <3>1. Days \in SUBSET Int
      BY BillsAssumption
    <3> QED BY <2>1, <3>1, MinIs
  <2> QED BY <2>1, <2>2 DEF Init
<1>2. DataOK
  BY <1>1 DEF Init, DataOK
<1>3. \A p \in Passes : pass[p] = Idle
  BY DEF Init
<1>4. PassesOK /\ AloneOK /\ FreshOK /\ CountingOK
  BY <1>3 DEF Init, PassesOK, AloneOK, FreshOK, CountingOK, Shape
<1>5. NothingLeft
  BY DEF Init, NothingLeft, LeftIsAhead
<1>6. LinksOK
  BY DEF Init, LinksOK
<1> QED BY <1>2, <1>4, <1>5, <1>6 DEF Inv, PassInv

\* The owner's requests, and the clock.
LEMMA NextDayKeeps == ASSUME PassInv, NextDay PROVE PassInv'
<1>1. PICK S : S = {d \in Days : d > today}
  OBVIOUS
<1>2. S \in SUBSET Nat /\ S # {} /\ S \in SUBSET Int /\ today \in Nat
  <2>1. Days \in SUBSET Nat /\ today \in Nat
    BY BillsAssumption DEF PassInv, DataOK
  <2>2. \E d \in Days : d > today
    BY DEF NextDay
  <2>3. S \in SUBSET Nat /\ S \in SUBSET Int
    <3>1. \A d \in Days : d \in Nat /\ d \in Int
      BY <2>1
    <3>2. \A d \in S : d \in Days
      BY <1>1
    <3> QED BY <3>1, <3>2
  <2> QED BY <1>1, <2>1, <2>2, <2>3
<1>3. PICK n \in S : \A m \in S : n <= m
  BY <1>2, Least
<1>4. today' = n
  <2>1. Min(S) = n
    BY <1>2, <1>3, MinIs
  <2> QED BY <1>1, <2>1 DEF NextDay
<1>5. today' \in Days /\ today' >= today
  BY <1>1, <1>2, <1>4
<1>6. UNCHANGED <<rows, bill, payments, pass, trusted>>
  BY DEF NextDay
<1> QED BY <1>5, <1>6, Untouched

LEMMA BillWritesKeep ==
    ASSUME PassInv, NEW b \in BillIds, NEW form,
           \/ form \in Forms[b] /\ (CreateBill(b, form) \/ EditBill(b, form))
           \/ DeleteBill(b)
    PROVE  PassInv'
<1>1. PICK w : (w = Null \/ w \in Forms[b]) /\ bill' = [bill EXCEPT ![b] = w]
  BY DEF CreateBill, EditBill, DeleteBill
<1>2. Disturbed /\ UNCHANGED <<today, rows>>
  BY DEF CreateBill, EditBill, DeleteBill
<1>3. DOMAIN bill' = BillIds /\ \A d \in BillIds : bill'[d] = Null \/ bill'[d] \in Forms[d]
  BY <1>1 DEF PassInv, DataOK
<1> QED BY <1>2, <1>3, Disturbing

LEMMA LinkingKeeps ==
    ASSUME PassInv, NEW l \in Linkers,
           \/ \E b \in BillIds, r \in Rows, given \in Given : LinkRead(l, b, r, given)
           \/ LinkWrite(l) \/ LinkFails(l)
    PROVE  PassInv'
<1>1. today \in Nat
  BY BillsAssumption DEF PassInv, DataOK
<1>2. UNCHANGED <<today, rows, bill>>
  BY DEF LinkRead, LinkWrite, LinkFails
<1>3. Disturbed \/ UNCHANGED <<pass, trusted, payments>>
  BY DEF LinkRead, LinkWrite, LinkFails
<1>4. today' \in Days /\ today' >= today
  BY <1>1, <1>2 DEF PassInv, DataOK
<1>5. CASE Disturbed
  BY <1>2, <1>5, Disturbing DEF PassInv, DataOK
<1>6. CASE UNCHANGED <<pass, trusted, payments>>
  BY <1>2, <1>4, <1>6, Untouched
<1> QED BY <1>3, <1>5, <1>6

LEMMA PassesKeep ==
    ASSUME PassInv, NEW p \in Passes,
           \/ PassStep(p) \/ PassFails(p) \/ ReconcileNow(p)
           \/ \E new \in SUBSET Rows : LandRows(p, new)
    PROVE  PassInv'
<1>1. CASE PassStep(p)
  BY <1>1, PassBillsKeeps, PassRowsKeeps, PassNextKeeps, PassLinkKeeps, PassBillDoneKeeps, PassEndsKeeps
     DEF PassStep
<1> QED BY <1>1, PassFailsKeeps, ReconcileNowKeeps, LandRowsKeeps

\* What a request has read of the old link does not change.
LEMMA LinksKeep == ASSUME LinksOK, Next PROVE LinksOK'
<1>1. CASE UNCHANGED link
  BY <1>1 DEF LinksOK
<1>2. ASSUME NEW l \in Linkers,
             \/ \E b \in BillIds, r \in Rows, given \in Given : LinkRead(l, b, r, given)
             \/ LinkWrite(l) \/ LinkFails(l)
      PROVE  LinksOK'
  <2>1. CASE LinkWrite(l) \/ LinkFails(l)
    BY <2>1 DEF LinksOK, LinkWrite, LinkFails
  <2>2. ASSUME NEW b \in BillIds, NEW r \in Rows, NEW given \in Given, LinkRead(l, b, r, given)
        PROVE  LinksOK'
    <3>1. PICK occ, old : /\ link' = [link EXCEPT ![l] = [pc |-> "write", b |-> b, r |-> r, occ |-> occ, old |-> old]]
                          /\ \A y \in old : y.method = "auto"
      BY <2>2 DEF LinkRead
    <3> QED BY <3>1 DEF LinksOK
  <2> QED BY <1>2, <2>1, <2>2
<1>3. \/ UNCHANGED link
      \/ \E l \in Linkers :
            \/ \E b \in HandLinked, r \in Rows, given \in Given : LinkRead(l, b, r, given)
            \/ LinkWrite(l) \/ LinkFails(l)
  BY DEF Next, Owner, PassStep, NextDay, CreateBill, EditBill, DeleteBill, PassBills, PassRows, PassNext, PassLink,
         PassBillDone, PassEnds, PassFails, ReconcileNow, LandRows
<1> QED BY <1>1, <1>2, <1>3, BillsAssumption

\* The invariant holds in every reachable state.
THEOREM Invariance == Spec => []Inv
<1>1. ASSUME Inv, [Next]_vars PROVE Inv'
  <2>1. CASE UNCHANGED vars
    <3>1. today' \in Days /\ today' >= today
      BY <2>1, <1>1, BillsAssumption DEF vars, Inv, PassInv, DataOK
    <3>2. PassInv'
      BY <2>1, <3>1, <1>1, Untouched DEF vars, Inv
    <3> QED BY <2>1, <3>2, <1>1 DEF vars, Inv, LinksOK
  <2>2. CASE Next
    <3>1. PassInv /\ LinksOK /\ HandLinked \subseteq BillIds
      BY <1>1, BillsAssumption DEF Inv
    <3>2. PassInv'
      <4>1. CASE NextDay
        BY <3>1, <4>1, NextDayKeeps
      <4>2. CASE Owner
        BY <3>1, <4>2, BillWritesKeep, LinkingKeeps DEF Owner
      <4>3. CASE \E p \in Passes : \/ PassStep(p) \/ PassFails(p) \/ ReconcileNow(p)
                                   \/ \E new \in SUBSET Rows : LandRows(p, new)
        BY <3>1, <4>3, PassesKeep
      <4> QED BY <2>2, <4>1, <4>2, <4>3 DEF Next
    <3>3. LinksOK'
      BY <2>2, <3>1, LinksKeep
    <3> QED BY <3>2, <3>3 DEF Inv
  <2> QED BY <1>1, <2>1, <2>2
<1> QED BY <1>1, InitInv, PTL DEF Spec

-----------------------------------------------------------------------------
(* What the bills promise *)

\* bills.go, isOverdue: a bill is shown as overdue only where a payment could have
\* been found, and none was there to find.
THEOREM OverdueIsTrue == Spec => []OverdueIsAnAbsence
<1>1. ASSUME Inv PROVE OverdueIsAnAbsence
  <2> SUFFICES ASSUME trusted, Quiet, NEW b \in BillIds, Exists(b), Overdue(b),
                      NEW r \in rows, Matches(bill[b].pattern, r, Prev(b))
               PROVE  \E y \in payments : y.bill = b /\ y.row = r
    BY DEF OverdueIsAnAbsence
  <2>1. PICK f : f = bill[b] /\ f # Null /\ f.anchor \in Int /\ f.cadence \in Cadences
    BY <1>1, BillFacts DEF Inv, PassInv, Exists
  <2>2. PICK day \in Int : day = today
    BY <1>1, BillsAssumption DEF Inv, PassInv, DataOK
  <2>3. PICK occ \in Int : occ = Prev(b) /\ Due(f.anchor, f.cadence, occ)
    <3>1. PICK k \in Int : /\ PrevDue(f.anchor, f.cadence, day) = OccurrenceAt(f.anchor, f.cadence, k)
                           /\ PrevDue(f.anchor, f.cadence, day) \in Int
      <4>1. \A n \in Int : n - 1 \in Int
        OBVIOUS
      <4> QED BY <2>1, <4>1, NextAndPrev
    <3>2. Prev(b) = PrevDue(f.anchor, f.cadence, day)
      BY <2>1, <2>2 DEF Prev
    <3> QED BY <2>1, <3>1, <3>2, DueIsOccurrence
  <2>4. Fulfils(f, occ, r)
    BY <2>1, <2>3 DEF Fulfils, Overdue
  <2>5. Done(payments, b, occ, r)
    <3>1. LeftIsAhead(Idle, bill, rows, payments)
      BY <1>1 DEF Inv, PassInv, NothingLeft
    <3>2. ~Ahead(Idle, b, occ, r)
      BY DEF Ahead, Idle
    <3> QED BY <2>1, <2>4, <3>1, <3>2 DEF LeftIsAhead
  <2>6. ~\E y \in payments : y.bill = b /\ y.occ = occ
    BY <2>3 DEF Overdue, Settled
  <2> QED BY <2>5, <2>6 DEF Done
<1> QED BY <1>1, Invariance, PTL

\* bills.go, LinkBillPayment: a payment linked by hand goes away with its bill only.
THEOREM ManualLinksSurvive == Spec => ManualLinksStay
<1> DEFINE Kept == \A y \in payments : y.method = "manual" => y \in payments' \/ bill'[y.bill] = Null
<1>1. Inv /\ [Next]_vars => [Kept]_vars
  <2> SUFFICES ASSUME Inv, Next, NEW y \in payments, y.method = "manual"
               PROVE  y \in payments' \/ bill'[y.bill] = Null
    BY DEF vars
  <2>1. CASE payments \subseteq payments'
    BY <2>1
  <2>2. ASSUME NEW b \in BillIds, DeleteBill(b) PROVE y \in payments' \/ bill'[y.bill] = Null
    <3>1. bill'[b] = Null
      BY <2>2 DEF DeleteBill, Inv, PassInv, DataOK
    <3> QED BY <2>2, <3>1 DEF DeleteBill
  <2>3. ASSUME NEW l \in Linkers, LinkWrite(l) PROVE y \in payments'
    <3>1. link[l] # Idle
      BY <2>3 DEF LinkWrite, Idle
    <3>2. y \notin link[l].old
      BY <3>1 DEF Inv, LinksOK
    <3> QED BY <2>3, <3>2 DEF LinkWrite
  <2>4. ASSUME NEW p \in Passes, PassLink(p) PROVE payments \subseteq payments'
    BY <2>4 DEF PassLink
  <2>5. \/ payments' = payments
        \/ \E b \in BillIds : DeleteBill(b)
        \/ \E l \in Linkers : LinkWrite(l)
        \/ \E p \in Passes : PassLink(p)
    BY DEF Next, Owner, PassStep, NextDay, CreateBill, EditBill, PassBills, PassRows, PassNext,
           PassBillDone, PassEnds, PassFails, ReconcileNow, LandRows, LinkRead, LinkFails
  <2> QED BY <2>1, <2>2, <2>3, <2>4, <2>5
<1> QED BY <1>1, Invariance, PTL DEF Spec, ManualLinksStay

-----------------------------------------------------------------------------
(* What is derived is the grid of due dates *)

LEMMA NextPrevDue ==
    ASSUME NEW a \in Int, NEW c \in Cadences, NEW day \in Int
    PROVE  /\ NextDue(a, c, day) \in Int /\ PrevDue(a, c, day) \in Int
           /\ Due(a, c, NextDue(a, c, day)) /\ Due(a, c, PrevDue(a, c, day))
           /\ PrevDue(a, c, day) < day /\ day <= NextDue(a, c, day)
           /\ NextDue(a, c, day) <= day + 2 * PeriodDays /\ day - 2 * PeriodDays <= PrevDue(a, c, day)
           /\ \A d \in Int : Due(a, c, d) =>
                 /\ d >= day => d >= NextDue(a, c, day)
                 /\ d < day => d <= PrevDue(a, c, day)
<1>1. PICK n \in Int :
         /\ n = DueOrdinal(a, c, day)
         /\ NextDue(a, c, day) = OccurrenceAt(a, c, n) /\ PrevDue(a, c, day) = OccurrenceAt(a, c, n - 1)
         /\ NextDue(a, c, day) \in Int /\ NextDue(a, c, day) >= day
         /\ PrevDue(a, c, day) \in Int /\ PrevDue(a, c, day) < day
  BY NextAndPrev
<1>2. OccurrenceAt(a, c, n) <= OccurrenceAt(a, c, n - 1) + 2 * PeriodDays
  BY OccurrenceGap
<1>3. PeriodDays \in Int
  BY EndsFacts
<1>4. Due(a, c, NextDue(a, c, day)) /\ Due(a, c, PrevDue(a, c, day))
  <2>1. n - 1 \in Int
    OBVIOUS
  <2> QED BY <1>1, <2>1, DueIsOccurrence
<1>5. ASSUME NEW d \in Int, Due(a, c, d)
      PROVE  /\ d >= day => d >= NextDue(a, c, day)
             /\ d < day => d <= PrevDue(a, c, day)
  <2>1. PICK k \in Int : d = OccurrenceAt(a, c, k)
    BY <1>5, DueIsOccurrence
  <2> QED BY <2>1, OccurrenceSide
<1>6. /\ NextDue(a, c, day) <= day + 2 * PeriodDays
      /\ day - 2 * PeriodDays <= PrevDue(a, c, day)
  BY <1>1, <1>2, <1>3
<1> QED BY <1>1, <1>4, <1>5, <1>6

\* For any bill and any day.
LEMMA GridAgreement ==
    ASSUME NEW form, form.anchor \in Int, form.cadence \in Cadences, form.ended \in Int \cup {Null},
           NEW day \in Int
    PROVE  GridAgrees(form, day)
<1>1. PICK a \in Int, c \in Cadences : a = form.anchor /\ c = form.cadence
  OBVIOUS
<1>2. PICK next \in Int, prev \in Int :
         /\ next = NextDue(a, c, day) /\ prev = PrevDue(a, c, day)
         /\ Due(a, c, next) /\ Due(a, c, prev) /\ prev < day /\ day <= next
         /\ next <= day + 2 * PeriodDays /\ day - 2 * PeriodDays <= prev
         /\ \A d \in Int : Due(a, c, d) => (d >= day => d >= next) /\ (d < day => d <= prev)
  BY NextPrevDue
<1>3. PeriodDays \in Nat
  BY EndsFacts
<1>4. PICK near : near = day - 2 * PeriodDays .. day + 2 * PeriodDays
  OBVIOUS
<1>5. PICK grid : grid = {d \in near : Due(a, c, d)}
  OBVIOUS
<1>6. grid \in SUBSET Int /\ next \in grid /\ prev \in grid /\ \A d \in grid : Due(a, c, d)
  <2>1. 2 * PeriodDays \in Nat
    BY <1>3
  <2>2. next \in near /\ prev \in near /\ near \in SUBSET Int
    BY <1>2, <1>4, <2>1
  <2> QED BY <1>2, <1>5, <2>2
<1>7. next = Min({d \in grid : d >= day})
  <2>1. PICK S : S = {d \in grid : d >= day}
    OBVIOUS
  <2>2. S \in SUBSET Int /\ next \in S /\ \A d \in S : next <= d
    BY <1>2, <1>6, <2>1
  <2> QED BY <2>1, <2>2, MinIs
<1>8. prev = Max({d \in grid : d < day})
  <2>1. PICK S : S = {d \in grid : d < day}
    OBVIOUS
  <2>2. S \in SUBSET Int /\ prev \in S /\ \A d \in S : prev >= d
    BY <1>2, <1>6, <2>1
  <2> QED BY <2>1, <2>2, MaxIs
<1>9. (next = day) = Due(a, c, day)
  <2>1. Due(a, c, day) \in BOOLEAN
    BY DEF Due
  <2>2. next = day => Due(a, c, day)
    BY <1>2
  <2>3. Due(a, c, day) => next = day
    BY <1>2
  <2> QED BY <2>1, <2>2, <2>3
<1>10. OccurrencesBetween(a, c, day, day + PeriodDays) = grid \cap day .. day + PeriodDays
  <2>1. PICK to \in Int : to = day + PeriodDays
    BY <1>3
  <2>2. OccurrencesBetween(a, c, day, to) = {d \in day .. to : \E k \in Int : d = OccurrenceAt(a, c, k)}
    BY BetweenIsAll
  <2>3. \A d \in day .. to : Due(a, c, d) <=> \E k \in Int : d = OccurrenceAt(a, c, k)
    BY DueIsOccurrence
  <2>4. OccurrencesBetween(a, c, day, to) = {d \in day .. to : Due(a, c, d)}
    BY <2>2, <2>3
  <2>5. \A d \in day .. to : d \in near
    BY <1>3, <1>4, <2>1
  <2> QED BY <1>5, <2>1, <2>4, <2>5
<1>11. PICK n : n = NearestOccurrence(a, c, day)
  OBVIOUS
<1>12. n = IF day - prev <= next - day THEN prev ELSE next
  BY <1>2, <1>11 DEF NearestOccurrence
<1>13. n \in grid /\ \A d \in grid : Gap(n, day) <= Gap(d, day)
  <2>1. n \in grid
    BY <1>6, <1>12
  <2>2. ASSUME NEW d \in grid PROVE Gap(n, day) <= Gap(d, day)
    <3>1. d \in Int /\ (d >= day => d >= next) /\ (d < day => d <= prev)
      BY <1>2, <1>6
    <3> QED BY <1>2, <1>12, <3>1 DEF Gap
  <2> QED BY <2>1, <2>2
<1>14. PICK e \in Int \cup {Null} : e = form.ended
  OBVIOUS
<1>15. PICK shown : shown = DueShown(form, day, FALSE)
  OBVIOUS
<1>16. Due(a, c, shown) /\ (e # Null => shown <= e)
  <2>1. CASE e # Null /\ next > e
    <3>1. shown = LastOnOrBefore(a, c, e)
      BY <1>1, <1>2, <1>14, <1>15, <2>1 DEF DueShown
    <3>2. e \in Int
      BY <2>1
    <3>3. /\ NextDue(a, c, e) \in Int /\ PrevDue(a, c, e) \in Int
          /\ Due(a, c, NextDue(a, c, e)) /\ Due(a, c, PrevDue(a, c, e)) /\ PrevDue(a, c, e) < e
      BY <3>2, NextPrevDue
    <3> QED BY <3>1, <3>2, <3>3 DEF LastOnOrBefore
  <2>2. CASE ~(e # Null /\ next > e)
    <3>1. shown = next
      BY <1>1, <1>2, <1>14, <1>15, <2>2 DEF DueShown
    <3>2. e # Null => e \in Int
      OBVIOUS
    <3> QED BY <1>2, <2>2, <3>1, <3>2
  <2> QED BY <2>1, <2>2
<1>17. IsOccurrence(a, c, day) = Due(a, c, day)
  BY <1>2, <1>9 DEF IsOccurrence
<1> QED BY <1>1, <1>2, <1>4, <1>5, <1>7, <1>8, <1>10, <1>11, <1>13, <1>14, <1>15, <1>16, <1>17 DEF GridAgrees

\* bills.go: due dates are derived on every read, and what is derived is the grid.
THEOREM DerivedDatesAreDue == Spec => []DueDatesAreTheGrid
<1>1. ASSUME Inv PROVE DueDatesAreTheGrid
  <2> SUFFICES ASSUME NEW b \in BillIds, Exists(b)
               PROVE  [form |-> bill[b], day |-> today, agrees |-> TRUE] \in Grid
    BY DEF DueDatesAreTheGrid
  <2>1. PICK f : /\ f = bill[b] /\ f \in Forms[b] /\ f.anchor \in Int /\ f.cadence \in Cadences
                 /\ f.ended \in Int \cup {Null}
    BY <1>1, BillFacts DEF Inv, PassInv, DataOK, Exists
  <2>2. PICK day \in Days : day = today /\ day \in Int
    BY <1>1, BillsAssumption DEF Inv, PassInv, DataOK
  <2>3. GridAgrees(f, day) = TRUE
    <3>1. GridAgrees(f, day)
      BY <2>1, <2>2, GridAgreement
    <3> QED BY <3>1 DEF GridAgrees
  <2>4. f \in UNION {Forms[d] : d \in BillIds}
    BY <2>1
  <2>5. [form |-> f, day |-> day, agrees |-> GridAgrees(f, day)] \in Grid
    BY <2>2, <2>4 DEF Grid
  <2> QED BY <2>1, <2>2, <2>3, <2>5
<1> QED BY <1>1, Invariance, PTL
=============================================================================
