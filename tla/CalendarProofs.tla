--------------------------- MODULE CalendarProofs ---------------------------
(***************************************************************************)
(* What the calendar of Reports computes, for every day from 2023 on: the  *)
(* months follow one another, every day has one month, and a billing       *)
(* period ends where the code's callers expect it.                         *)
(***************************************************************************)
EXTENDS Reports, Integers, WellFoundedInduction, TLAPS

LeapDay(y) == IF Leap(y) THEN 1 ELSE 0
LeapPart(y, m) == IF m > 2 THEN LeapDay(y) ELSE 0

-----------------------------------------------------------------------------
(* Years.                                                                  *)

LEMMA LeapStep ==
    ASSUME NEW y \in Nat, y > 0
    PROVE  LeapsUpTo(y) = LeapsUpTo(y - 1) + LeapDay(y)
<1>1. (y \div 4) = ((y - 1) \div 4) + (IF y % 4 = 0 THEN 1 ELSE 0)
    OBVIOUS
<1>2. (y \div 100) = ((y - 1) \div 100) + (IF y % 100 = 0 THEN 1 ELSE 0)
    OBVIOUS
<1>3. (y \div 400) = ((y - 1) \div 400) + (IF y % 400 = 0 THEN 1 ELSE 0)
    OBVIOUS
<1>4. /\ y % 100 = 0 => y % 4 = 0
      /\ y % 400 = 0 => y % 100 = 0
    OBVIOUS
<1> QED BY <1>1, <1>2, <1>3, <1>4 DEF LeapsUpTo, LeapDay, Leap

LEMMA YearTypes ==
    ASSUME NEW y \in Nat
    PROVE  YearStart(y) \in Int /\ LeapDay(y) \in 0..1
BY DEF YearStart, LeapsUpTo, LeapDay

LEMMA YearStep ==
    ASSUME NEW y \in Nat, y >= 2023
    PROVE  YearStart(y + 1) = YearStart(y) + 365 + LeapDay(y)
<1>1. LeapsUpTo(y) = LeapsUpTo(y - 1) + LeapDay(y)
    BY LeapStep
<1>2. (y + 1) - 1 = y
    OBVIOUS
<1>3. LeapsUpTo(y - 1) \in Int /\ LeapsUpTo(2022) \in Int /\ LeapDay(y) \in Int
    BY DEF LeapsUpTo, LeapDay
<1> HIDE DEF LeapsUpTo, LeapDay
<1> QED BY <1>1, <1>2, <1>3 DEF YearStart

\* A year has 365 days or one more: years do not drift.
LEMMA YearBounds ==
    ASSUME NEW k \in Nat, NEW n \in Nat
    PROVE  /\ YearStart(2023 + k) \in Int
           /\ YearStart(2023) = 0
           /\ YearStart(2023 + k) + 365 * n <= YearStart(2023 + k + n)
           /\ YearStart(2023 + k + n) <= YearStart(2023 + k) + 366 * n
<1>1. LeapsUpTo(2022 + k) <= LeapsUpTo(2022 + k + n)
    BY DEF LeapsUpTo
<1>2. LeapsUpTo(2022 + k + n) <= LeapsUpTo(2022 + k) + n
    BY DEF LeapsUpTo
<1>3. LeapsUpTo(2022) \in Int /\ LeapsUpTo(2022 + k) \in Int /\ LeapsUpTo(2022 + k + n) \in Int
    BY DEF LeapsUpTo
<1>4. (2023 + k) - 1 = 2022 + k /\ (2023 + k + n) - 1 = 2022 + k + n /\ 2023 - 1 = 2022
    OBVIOUS
<1> QED BY <1>1, <1>2, <1>3, <1>4 DEF YearStart

-----------------------------------------------------------------------------
(* Months.                                                                 *)

LEMMA MonthParts ==
    ASSUME NEW i \in Nat
    PROVE  /\ MonthInYear(i) \in 1..12 /\ YearOf(i) \in Nat /\ YearOf(i) >= 2023
           /\ i = 12 * (YearOf(i) - 2023) + (MonthInYear(i) - 1)
           /\ MonthInYear(i) = 12 => YearOf(i + 1) = YearOf(i) + 1 /\ MonthInYear(i + 1) = 1
           /\ MonthInYear(i) # 12 =>
                 YearOf(i + 1) = YearOf(i) /\ MonthInYear(i + 1) = MonthInYear(i) + 1
           /\ YearOf(i + 12) = YearOf(i) + 1 /\ MonthInYear(i + 12) = MonthInYear(i)
BY DEF YearOf, MonthInYear

LEMMA MonthNumber ==
    ASSUME NEW i \in Nat
    PROVE  \E k \in Nat, m \in 1..12 :
              2023 + k = YearOf(i) /\ m = MonthInYear(i) /\ i = 12 * k + (m - 1)
<1>1. /\ i \div 12 \in Nat /\ (i % 12) + 1 \in 1..12
      /\ i = 12 * (i \div 12) + (((i % 12) + 1) - 1)
    OBVIOUS
<1> QED BY <1>1 DEF YearOf, MonthInYear

LEMMA DaysTable ==
    /\ DaysBefore[1] = 0 /\ DaysBefore[2] = 31 /\ DaysBefore[3] = 59
    /\ DaysBefore[4] = 90 /\ DaysBefore[5] = 120 /\ DaysBefore[6] = 151
    /\ DaysBefore[7] = 181 /\ DaysBefore[8] = 212 /\ DaysBefore[9] = 243
    /\ DaysBefore[10] = 273 /\ DaysBefore[11] = 304 /\ DaysBefore[12] = 334
BY DEF DaysBefore

LEMMA Twelve ==
    ASSUME NEW m \in 1..12
    PROVE  m = 1 \/ m = 2 \/ m = 3 \/ m = 4 \/ m = 5 \/ m = 6 \/ m = 7 \/ m = 8 \/ m = 9
           \/ m = 10 \/ m = 11 \/ m = 12
OBVIOUS

LEMMA MonthLenBounds ==
    ASSUME NEW i \in Nat
    PROVE  MonthLen(i) \in 28..31
BY DEF MonthLen

\* The table of days and the rule of months agree: each month begins where the
\* one before it ends.
LEMMA MonthStep ==
    ASSUME NEW i \in Nat
    PROVE  MonthStart(i + 1) = MonthStart(i) + MonthLen(i)
<1> PICK y \in Nat, m \in 1..12 : y = YearOf(i) /\ m = MonthInYear(i)
    BY MonthParts
<1>1. y >= 2023 /\ YearStart(y) \in Int /\ LeapDay(y) \in 0..1 /\ YearStart(y + 1) \in Int
    BY MonthParts, YearTypes
<1>2. MonthStart(i) = YearStart(y) + DaysBefore[m] + (IF m > 2 THEN LeapDay(y) ELSE 0)
    BY <1>1 DEF MonthStart, LeapDay
<1>3. MonthLen(i) = CASE m \in {4, 6, 9, 11} -> 30
                      [] m = 2               -> 28 + LeapDay(y)
                      [] OTHER               -> 31
    BY DEF MonthLen, LeapDay
<1>4. CASE m = 12
    <2>0. MonthInYear(i) = 12
        BY <1>4
    <2>1. YearOf(i + 1) = y + 1 /\ MonthInYear(i + 1) = 1
        BY <2>0, MonthParts
    <2>2. MonthStart(i + 1) = YearStart(y + 1) + DaysBefore[1] + 0
        BY <2>1 DEF MonthStart
    <2> QED BY <1>1, <1>2, <1>3, <1>4, <2>2, YearStep, DaysTable
<1>5. CASE m # 12
    <2>1. MonthStart(i + 1) =
              YearStart(y) + DaysBefore[m + 1] + (IF m + 1 > 2 THEN LeapDay(y) ELSE 0)
        BY <1>1, <1>5, MonthParts DEF MonthStart, LeapDay
    <2> HIDE DEF LeapDay
    <2> QED BY <1>1, <1>2, <1>3, <1>5, <2>1, Twelve, DaysTable
<1> QED BY <1>4, <1>5

LEMMA MonthBounds ==
    ASSUME NEW i \in Nat
    PROVE  MonthStart(i) \in Nat /\ 28 * i <= MonthStart(i) /\ MonthStart(i) <= 31 * i
<1> PICK k \in Nat, m \in 1..12 : 2023 + k = YearOf(i) /\ m = MonthInYear(i) /\ i = 12 * k + (m - 1)
    BY MonthNumber
<1>1. /\ YearStart(2023 + k) \in Int
      /\ 365 * k <= YearStart(2023 + k) /\ YearStart(2023 + k) <= 366 * k
    <2>1. /\ YearStart(2023 + 0) \in Int /\ YearStart(2023) = 0
          /\ YearStart(2023 + 0) + 365 * k <= YearStart(2023 + 0 + k)
          /\ YearStart(2023 + 0 + k) <= YearStart(2023 + 0) + 366 * k
        BY YearBounds
    <2>2. YearStart(2023 + k) \in Int
        BY YearBounds
    <2>3. 2023 + 0 = 2023 /\ 2023 + 0 + k = 2023 + k
        OBVIOUS
    <2> QED BY <2>1, <2>2, <2>3
<1>2. MonthStart(i) = YearStart(2023 + k) + DaysBefore[m] + (IF m > 2 THEN LeapDay(2023 + k) ELSE 0)
    BY DEF MonthStart, LeapDay
<1>3. LeapDay(2023 + k) \in 0..1
    BY DEF LeapDay
<1>4. /\ DaysBefore[m] \in Nat /\ 28 * (m - 1) <= DaysBefore[m]
      /\ DaysBefore[m] + (IF m > 2 THEN 1 ELSE 0) <= 31 * (m - 1)
    BY Twelve, DaysTable
<1> QED BY <1>1, <1>2, <1>3, <1>4

LEMMA MonthsGrow ==
    ASSUME NEW i \in Nat, NEW j \in Nat, i <= j
    PROVE  MonthStart(i) <= MonthStart(j)
<1> PICK k \in Nat, m \in 1..12 : 2023 + k = YearOf(i) /\ m = MonthInYear(i) /\ i = 12 * k + (m - 1)
    BY MonthNumber
<1> PICK l \in Nat, n \in 1..12 : 2023 + l = YearOf(j) /\ n = MonthInYear(j) /\ j = 12 * l + (n - 1)
    BY MonthNumber
<1>1. MonthStart(i) = YearStart(2023 + k) + DaysBefore[m] + LeapPart(2023 + k, m)
    BY DEF MonthStart, LeapDay, LeapPart
<1>2. MonthStart(j) = YearStart(2023 + l) + DaysBefore[n] + LeapPart(2023 + l, n)
    BY DEF MonthStart, LeapDay, LeapPart
<1>3. /\ LeapDay(2023 + k) \in 0..1
      /\ LeapPart(2023 + k, m) \in 0..1 /\ LeapPart(2023 + l, n) \in 0..1
      /\ LeapPart(2023 + k, n) \in 0..1
    BY DEF LeapDay, LeapPart
<1>4. YearStart(2023 + k) \in Int /\ YearStart(2023 + l) \in Int
    BY YearTypes
<1>5. DaysBefore[m] \in 0..334 /\ DaysBefore[n] \in 0..334
    BY Twelve, DaysTable
<1>6. k < l \/ (k = l /\ m <= n)
    OBVIOUS
<1>7. CASE k < l
    <2>1. PICK d \in Nat : d > 0 /\ l = k + d
        BY <1>7
    <2>2. YearStart(2023 + k) + 365 * d <= YearStart(2023 + l)
        BY <2>1, YearBounds
    <2>3. MonthStart(i) <= YearStart(2023 + k) + 335 /\ MonthStart(i) \in Int
        BY <1>1, <1>3, <1>4, <1>5
    <2>4. YearStart(2023 + l) <= MonthStart(j) /\ MonthStart(j) \in Int
        BY <1>2, <1>3, <1>4, <1>5
    <2>5. YearStart(2023 + k) + 365 <= YearStart(2023 + l)
        BY <1>4, <2>1, <2>2
    <2> QED BY <1>4, <2>3, <2>4, <2>5
<1>8. CASE k = l /\ m <= n
    <2>1. DaysBefore[m] <= DaysBefore[n]
        <3>1. m = 1 \/ m = 2 \/ m = 3 \/ m = 4 \/ m = 5 \/ m = 6 \/ m = 7 \/ m = 8 \/ m = 9
              \/ m = 10 \/ m = 11 \/ m = 12
            BY Twelve
        <3>2. n = 1 \/ n = 2 \/ n = 3 \/ n = 4 \/ n = 5 \/ n = 6 \/ n = 7 \/ n = 8 \/ n = 9
              \/ n = 10 \/ n = 11 \/ n = 12
            BY Twelve
        <3> QED BY <1>8, <3>1, <3>2, DaysTable
    <2>2. LeapPart(2023 + k, m) <= LeapPart(2023 + k, n)
        BY <1>3, <1>8 DEF LeapPart
    <2>3. MonthStart(j) = YearStart(2023 + k) + DaysBefore[n] + LeapPart(2023 + k, n)
        BY <1>2, <1>8
    <2>4. /\ YearStart(2023 + k) \in Int /\ DaysBefore[m] \in Int /\ DaysBefore[n] \in Int
          /\ LeapPart(2023 + k, m) \in Int /\ LeapPart(2023 + k, n) \in Int
        BY <1>3, <1>4, <1>5
    <2>5. ASSUME NEW y \in Int, NEW d \in Int, NEW e \in Int, NEW a \in Int, NEW b \in Int,
                 d <= e, a <= b
          PROVE  y + d + a <= y + e + b
        BY <2>5
    <2> QED BY <1>1, <2>1, <2>2, <2>3, <2>4, <2>5
<1> QED BY <1>6, <1>7, <1>8

\* A year later the same month begins 365 or 366 days later.
LEMMA YearLater ==
    ASSUME NEW i \in Nat
    PROVE  MonthStart(i + 12) - MonthStart(i) \in 365..366
<1> PICK y \in Nat, m \in 1..12 : y = YearOf(i) /\ m = MonthInYear(i) /\ y >= 2023
    BY MonthParts
<1>1. MonthStart(i) = YearStart(y) + DaysBefore[m] + (IF m > 2 THEN LeapDay(y) ELSE 0)
    BY DEF MonthStart, LeapDay
<1>2. MonthStart(i + 12) = YearStart(y + 1) + DaysBefore[m] + (IF m > 2 THEN LeapDay(y + 1) ELSE 0)
    BY MonthParts DEF MonthStart, LeapDay
<1>3. YearStart(y + 1) = YearStart(y) + 365 + LeapDay(y)
    BY YearStep
<1>4. LeapDay(y) \in 0..1 /\ LeapDay(y + 1) \in 0..1 /\ ~(LeapDay(y) = 1 /\ LeapDay(y + 1) = 1)
    BY DEF LeapDay, Leap
<1>5. DaysBefore[m] \in Nat
    BY Twelve, DaysTable
<1>6. YearStart(y) \in Int
    BY YearTypes
<1> QED BY <1>1, <1>2, <1>3, <1>4, <1>5, <1>6

\* Every day lies in one month, and MonthOf finds it.
LEMMA MonthOfDay ==
    ASSUME NEW day \in Nat
    PROVE  /\ MonthOf(day) \in Nat
           /\ MonthStart(MonthOf(day)) <= day /\ day < MonthStart(MonthOf(day) + 1)
           /\ \A i \in Nat : MonthStart(i) <= day /\ day < MonthStart(i + 1) => i = MonthOf(day)
<1> DEFINE D == {i \in Nat : day < MonthStart(i + 1)}
<1>1. D \subseteq Nat /\ day \in D
    BY MonthBounds
<1>2. PICK i \in D : \A j \in D : ~(<<j, i>> \in OpToRel(<, Nat))
    <2> HIDE DEF D
    <2> QED BY <1>1, NatLessThanWellFounded, WFMin, Zenon
<1>3. MonthStart(i) <= day
    <2>1. CASE i = 0
        BY <2>1, MonthBounds
    <2>2. CASE i # 0
        <3>1. i - 1 \in Nat /\ i - 1 < i /\ (i - 1) + 1 = i
            BY <2>2
        <3>2. i - 1 \notin D
            BY <1>2, <3>1 DEF OpToRel
        <3>3. MonthStart(i) \in Nat
            BY MonthBounds
        <3> QED BY <3>1, <3>2, <3>3
    <2> QED BY <2>1, <2>2
<1>4. i \in (day \div 31)..(day \div 28)
    <2>1. 28 * i <= day /\ day < 31 * (i + 1)
        <3>1. 28 * i <= MonthStart(i) /\ MonthStart(i + 1) <= 31 * (i + 1)
              /\ MonthStart(i) \in Nat /\ MonthStart(i + 1) \in Nat
            BY MonthBounds
        <3> QED BY <1>3, <3>1
    <2> QED BY <2>1
<1>5. /\ MonthOf(day) \in (day \div 31)..(day \div 28)
      /\ MonthStart(MonthOf(day)) <= day /\ day < MonthStart(MonthOf(day) + 1)
    BY <1>3, <1>4 DEF MonthOf
<1>6. MonthOf(day) \in Nat
    BY <1>5
<1>7. ASSUME NEW a \in Nat, NEW b \in Nat, a < b, MonthStart(b) <= day, day < MonthStart(a + 1)
      PROVE  FALSE
    BY <1>7, MonthsGrow, MonthBounds
<1>8. ASSUME NEW a \in Nat, MonthStart(a) <= day, day < MonthStart(a + 1)
      PROVE  a = MonthOf(day)
    BY <1>5, <1>6, <1>7, <1>8
<1> QED BY <1>5, <1>6, <1>8

-----------------------------------------------------------------------------
(* Days and half hours.                                                    *)

LEMMA DivMod ==
    ASSUME NEW d \in Nat, d > 0, NEW q \in Nat, NEW r \in 0..(d - 1)
    PROVE  (q * d + r) \div d = q /\ (q * d + r) % d = r
<1> DEFINE a == q * d + r
           x == a \div d
           z == a % d
<1>1. a \in Nat /\ x \in Int /\ z \in Int /\ a = d * x + z /\ 0 <= z /\ z < d
    OBVIOUS
<1>2. d * (q - x) = z - r
    BY <1>1
<1>3. q - x < 1
    <2>1. ASSUME q - x >= 1 PROVE d * (q - x) >= d
        BY <1>1, <2>1
    <2> QED BY <1>1, <1>2, <2>1
<1>4. q - x > -1
    <2>1. ASSUME x - q >= 1 PROVE d * (x - q) >= d
        BY <1>1, <2>1
    <2>2. d * (x - q) = r - z
        BY <1>1
    <2> QED BY <1>1, <2>1, <2>2
<1>5. x = q
    BY <1>1, <1>3, <1>4
<1> QED BY <1>1, <1>2, <1>5

LEMMA Halves ==
    ASSUME NEW t \in Nat
    PROVE  /\ t \div DayLen \in Nat /\ t % DayLen \in 0..(DayLen - 1)
           /\ t = (t \div DayLen) * DayLen + (t % DayLen)
BY TimeAssumption

\* The half hours between two instants at the same time of day.
LEMMA DaysApart ==
    ASSUME NEW a \in Nat, NEW b \in Nat, NEW r \in Nat, NEW n \in Nat, a <= b, b - a <= n
    PROVE  /\ a * DayLen + r <= b * DayLen + r
           /\ b * DayLen + r <= a * DayLen + r + n * DayLen
<1>1. PICK c \in Nat : b = a + c /\ c <= n
    OBVIOUS
<1>2. c * DayLen \in Nat /\ c * DayLen <= n * DayLen
    BY <1>1, TimeAssumption
<1>3. b * DayLen = a * DayLen + c * DayLen
    BY <1>1, TimeAssumption
<1> QED BY <1>2, <1>3, TimeAssumption

\* Where a period of n months ends.
LEMMA PeriodEnd ==
    ASSUME NEW t \in Nat, NEW n \in {1, 12}
    PROVE  LET end    == addMonths(t, n)
               first  == t \div DayLen
               last   == end \div DayLen
               m      == MonthOf(first)
               dom(d) == d - MonthStart(MonthOf(d)) IN
           /\ end \in Nat /\ t <= end /\ end <= t + 366 * DayLen
           /\ end % DayLen = t % DayLen
           /\ last - first \in 28..31 \/ last - first \in 365..366
           /\ \/ dom(last) = dom(first) /\ MonthOf(last) = m + n
              \/ /\ MonthOf(last) = m + n + 1
                 /\ dom(last) = dom(first) - MonthLen(MonthOf(last) - 1)
<1> PICK first : first = t \div DayLen
    OBVIOUS
<1> PICK r : r = t % DayLen
    OBVIOUS
<1>1. first \in Nat /\ r \in 0..(DayLen - 1) /\ r \in Nat /\ t = first * DayLen + r
    BY Halves, TimeAssumption
<1> PICK m : m = MonthOf(first)
    OBVIOUS
<1>2. /\ m \in Nat /\ m + n \in Nat /\ m + n + 1 \in Nat /\ m + n + 2 \in Nat
      /\ MonthStart(m) <= first /\ first < MonthStart(m + 1)
    BY <1>1, MonthOfDay
<1> PICK last : last = MonthStart(m + n) + (first - MonthStart(m))
    OBVIOUS
<1>3. /\ MonthStart(m) \in Nat /\ MonthStart(m + n) \in Nat
      /\ MonthLen(m) \in 28..31 /\ MonthLen(m + n) \in 28..31 /\ MonthLen(m + n + 1) \in 28..31
      /\ MonthStart(m + 1) = MonthStart(m) + MonthLen(m)
      /\ MonthStart(m + n + 1) = MonthStart(m + n) + MonthLen(m + n)
      /\ MonthStart(m + n + 2) = MonthStart(m + n + 1) + MonthLen(m + n + 1)
    <2>1. (m + n + 1) + 1 = m + n + 2 /\ (m + n) + 1 = m + n + 1
        BY <1>2
    <2> QED BY <1>2, <2>1, MonthBounds, MonthLenBounds, MonthStep
<1>4. MonthStart(m + n) - MonthStart(m) \in 28..31 \/ MonthStart(m + n) - MonthStart(m) \in 365..366
    <2>1. CASE n = 1
        BY <1>3, <2>1
    <2>2. CASE n = 12
        BY <1>2, <2>2, YearLater
    <2> QED BY <2>1, <2>2
<1>5. last \in Nat /\ (last - first \in 28..31 \/ last - first \in 365..366)
    BY <1>1, <1>2, <1>3, <1>4
<1>6. addMonths(t, n) = last * DayLen + r
    BY DEF addMonths
<1>7. addMonths(t, n) \div DayLen = last /\ addMonths(t, n) % DayLen = r
    <2>1. DayLen \in Nat /\ DayLen > 0
        BY TimeAssumption
    <2>2. ASSUME NEW q \in Nat, NEW s \in 0..(DayLen - 1)
          PROVE  (q * DayLen + s) \div DayLen = q /\ (q * DayLen + s) % DayLen = s
        BY <2>1, DivMod
    <2>3. last \in Nat
        BY <1>5
    <2>4. (last * DayLen + r) \div DayLen = last /\ (last * DayLen + r) % DayLen = r
        BY <1>1, <2>2, <2>3, Zenon
    <2> QED BY <1>6, <2>4
<1>8. t <= addMonths(t, n) /\ addMonths(t, n) <= t + 366 * DayLen
    <2>1. first <= last /\ last - first <= 366
        BY <1>1, <1>5
    <2> QED BY <1>1, <1>5, <1>6, <2>1, DaysApart
<1>9. addMonths(t, n) \in Nat
    <2>1. last * DayLen \in Nat
        BY <1>5, TimeAssumption
    <2> QED BY <1>1, <1>6, <2>1
<1>10. \/ last - MonthStart(MonthOf(last)) = first - MonthStart(m) /\ MonthOf(last) = m + n
       \/ /\ MonthOf(last) = m + n + 1
          /\ last - MonthStart(MonthOf(last)) = first - MonthStart(m) - MonthLen(MonthOf(last) - 1)
    <2>1. CASE first - MonthStart(m) < MonthLen(m + n)
        <3>1. MonthStart(m + n) <= last /\ last < MonthStart((m + n) + 1)
            BY <1>1, <1>2, <1>3, <2>1
        <3>2. MonthOf(last) = m + n
            BY <1>2, <1>5, <3>1, MonthOfDay
        <3> QED BY <1>1, <1>3, <3>2
    <2>2. CASE first - MonthStart(m) >= MonthLen(m + n)
        <3>1. MonthStart(m + n + 1) <= last /\ last < MonthStart((m + n + 1) + 1)
            <4>1. (m + n + 1) + 1 = m + n + 2
                BY <1>2
            <4> QED BY <1>1, <1>2, <1>3, <2>2, <4>1
        <3>2. MonthOf(last) = m + n + 1
            BY <1>2, <1>5, <3>1, MonthOfDay
        <3>3. MonthOf(last) - 1 = m + n
            BY <1>2, <3>2
        <3> QED BY <1>1, <1>3, <3>2, <3>3
    <2> QED BY <1>1, <1>3, <2>1, <2>2
<1> QED BY <1>5, <1>7, <1>8, <1>9, <1>10
=============================================================================
