-------------------------- MODULE TelemetryProofs ---------------------------
(***************************************************************************)
(* The clocks and the metrics, for every frequency of the counter, every   *)
(* interruption of its calibration, every setting of the system clock, any *)
(* set of metrics and every order of updates and readings.                 *)
(***************************************************************************)
EXTENDS Telemetry, FiniteSetTheorems, SequenceTheorems, WellFoundedInduction, TLAPS

-----------------------------------------------------------------------------
(* The calendar                                                            *)

Dates == [y : Nat, m : 1 .. 12, d : 1 .. 31]

\* A date of the calendar, in a year that the epoch precedes.
Valid(c) == c \in Dates /\ c.y >= 1970 /\ c.d <= DaysIn(c.y, c.m)

\* Years that begin in March, so that a leap day is the last of its year: the year
\* and the month, and the days of the year before the month.
MarchYear(c) == IF c.m <= 2 THEN c.y - 1 ELSE c.y
MarchMonth(c) == IF c.m <= 2 THEN c.m + 9 ELSE c.m - 3
MonthStart(mp) == (153 * mp + 2) \div 5

\* The days before the yoe-th year of a period of 400.
YearStart(yoe) == 365 * yoe + yoe \div 4 - yoe \div 100

\* The days from the epoch to a date: what civil_from_days inverts.
DaysTo(c) ==
    LET era == MarchYear(c) \div 400
        yoe == MarchYear(c) - era * 400
    IN era * 146097 + YearStart(yoe) + MonthStart(MarchMonth(c)) + c.d - 1 - 719468

\* Periods of 400 years, of 146097 days each, are told apart.
LEMMA Eras ==
    ASSUME NEW era \in Nat, NEW doe \in Nat, doe <= 146096
    PROVE  (era * 146097 + doe) \div 146097 = era
BY SMT

\* civil_from_days gives the date it is that many days to.
LEMMA CivilInverts ==
    ASSUME NEW c, Valid(c)
    PROVE  civil_from_days(DaysTo(c)) = c
<1> DEFINE y == MarchYear(c)
           mp == MarchMonth(c)
           era == y \div 400
           yoe == y - era * 400
           doy == MonthStart(mp) + c.d - 1
           doe == YearStart(yoe) + doy
<1>1. /\ c.y \in Nat /\ c.y >= 1970 /\ c.m \in 1 .. 12 /\ c.d \in 1 .. 31 /\ c.d <= DaysIn(c.y, c.m)
      /\ c = [y |-> c.y, m |-> c.m, d |-> c.d]
    BY DEF Valid, Dates
<1>2. y \in Nat /\ mp \in 0 .. 11 /\ c.y = (IF mp < 10 THEN y ELSE y + 1)
      /\ c.m = (IF mp < 10 THEN mp + 3 ELSE mp - 9) /\ (mp < 10 <=> ~(c.m <= 2))
    BY <1>1 DEF MarchYear, MarchMonth
<1> HIDE DEF y, mp
<1>3. /\ mp \in {1, 3, 6, 8} => c.d <= 30
      /\ mp = 11 => c.d <= 29 /\ (c.d = 29 => IsLeap(y + 1))
    BY <1>1, <1>2 DEF DaysIn
<1>4. era \in Nat /\ yoe \in 0 .. 399 /\ y = yoe + era * 400
    BY <1>2
<1> HIDE DEF era, yoe
<1>5. doy = (153 * mp + 2) \div 5 + c.d - 1
    BY DEF MonthStart
<1>6. doy \in 0 .. 365 /\ (doy = 365 => mp = 11 /\ c.d = 29) /\ (5 * doy + 2) \div 153 = mp
    <2> HIDE DEF doy
    <2> QED BY <1>1, <1>2, <1>3, <1>5, SMTT(60)
<1>7. doe = 365 * yoe + yoe \div 4 - yoe \div 100 + doy
    BY SMT DEF YearStart
<1> HIDE DEF doy
<1>8. doy = 365 => (yoe + 1) % 4 = 0 /\ ((yoe + 1) % 100 # 0 \/ (yoe + 1) % 400 = 0)
    BY <1>2, <1>3, <1>4, <1>6 DEF IsLeap
<1>9. DaysTo(c) + 719468 = era * 146097 + doe
    <2>1. DaysTo(c) = era * 146097 + YearStart(yoe) + MonthStart(mp) + c.d - 1 - 719468
        BY SMT DEF DaysTo, era, yoe, y, mp
    <2>2. YearStart(yoe) \in Int /\ MonthStart(mp) \in Int
        BY <1>2, <1>4, SMT DEF YearStart, MonthStart
    <2>3. doe = YearStart(yoe) + (MonthStart(mp) + c.d - 1)
        BY SMT DEF doy
    <2> HIDE DEF doe
    <2> QED BY <1>1, <1>4, <2>1, <2>2, <2>3, SMTT(30)
<1> HIDE DEF doe
<1>10. doe \in Nat /\ doe <= 146096
    <2>1. yoe \div 4 \in 0 .. 99 /\ yoe \div 100 \in 0 .. 3 /\ (yoe >= 300 => yoe \div 100 = 3)
          /\ yoe \div 100 <= yoe \div 4
        BY <1>4, SMT
    <2> DEFINE q == yoe \div 4
               r == yoe \div 100
    <2> HIDE DEF q, r
    <2>2. q \in 0 .. 99 /\ r \in 0 .. 3 /\ (yoe >= 300 => r = 3) /\ r <= q
          /\ doe = 365 * yoe + q - r + doy
        BY <1>7, <2>1, SMT DEF q, r
    <2>3. CASE yoe >= 300
        BY <1>4, <1>6, <2>2, <2>3, SMT
    <2>4. CASE ~(yoe >= 300)
        BY <1>4, <1>6, <2>2, <2>4, SMT
    <2> QED BY <2>3, <2>4, SMT
<1>11. (doe - doe \div 1460 + doe \div 36524 - doe \div 146096) \div 365 = yoe
    BY <1>4, <1>6, <1>7, <1>8, SMTT(60)
<1> DEFINE z == DaysTo(c) + 719468
           e == z \div 146097
           f == z - e * 146097
           g == year_of_era(f)
           h == f - (365 * g + g \div 4 - g \div 100)
           k == (5 * h + 2) \div 153
           m == IF k < 10 THEN k + 3 ELSE k - 9
<1>12. civil_from_days(DaysTo(c)) =
          [ y |-> g + e * 400 + (IF m <= 2 THEN 1 ELSE 0), m |-> m,
            d |-> h - (153 * k + 2) \div 5 + 1 ]
    BY SMTT(60) DEF civil_from_days
<1>13. e = era /\ f = doe
    <2>1. z = era * 146097 + doe
        BY <1>9, SMT
    <2> HIDE DEF z
    <2>2. e = era
        BY <1>4, <1>10, <2>1, Eras, SMT
    <2>3. f = z - era * 146097
        BY <2>2, SMT
    <2> QED BY <1>4, <1>10, <2>1, <2>2, <2>3, SMT
<1> HIDE DEF e, f
<1>14. g = yoe
    BY <1>11, <1>13 DEF year_of_era
<1> HIDE DEF g
<1>15. h = doy
    BY <1>4, <1>6, <1>7, <1>13, <1>14, SMT
<1> HIDE DEF h
<1>16. k = mp
    BY <1>6, <1>15
<1> HIDE DEF k
<1>17. m = c.m
    BY <1>2, <1>16
<1> HIDE DEF m
<1>18. h - (153 * k + 2) \div 5 + 1 = c.d
    BY <1>1, <1>2, <1>5, <1>15, <1>16, SMT
<1>19. g + e * 400 + (IF m <= 2 THEN 1 ELSE 0) = c.y
    BY <1>2, <1>4, <1>13, <1>14, <1>17, SMT
<1> QED BY <1>1, <1>12, <1>17, <1>18, <1>19, SMT

\* The day after a date is one day further from the epoch.
LEMMA TomorrowIsNext ==
    ASSUME NEW c, Valid(c)
    PROVE  Valid(Tomorrow(c)) /\ DaysTo(Tomorrow(c)) = DaysTo(c) + 1
<1> DEFINE t == Tomorrow(c)
<1>1. /\ c.y \in Nat /\ c.y >= 1970 /\ c.m \in 1 .. 12 /\ c.d \in 1 .. 31 /\ c.d <= DaysIn(c.y, c.m)
      /\ c = [y |-> c.y, m |-> c.m, d |-> c.d]
    BY DEF Valid, Dates
<1>2. \A y \in Nat, m \in 1 .. 12 : DaysIn(y, m) \in 28 .. 31
    BY DEF DaysIn
<1>3. CASE c.d < DaysIn(c.y, c.m)
    <2>1. t = [y |-> c.y, m |-> c.m, d |-> c.d + 1] /\ c.d + 1 \in 1 .. 31
        BY <1>1, <1>2, <1>3 DEF Tomorrow
    <2>2. Valid(t)
        BY <1>1, <1>2, <1>3, <2>1 DEF Valid, Dates
    <2>3. /\ t.d = c.d + 1 /\ MarchYear(t) = MarchYear(c) /\ MarchMonth(t) = MarchMonth(c)
          /\ MarchYear(c) \in Nat /\ MarchMonth(c) \in Nat
        BY <1>1, <2>1 DEF MarchYear, MarchMonth
    <2> HIDE DEF t
    <2>4. DaysTo(t) = DaysTo(c) + 1
        BY <1>1, <2>3, SMT DEF DaysTo, YearStart, MonthStart
    <2> QED BY <2>2, <2>4 DEF t
<1>4. CASE ~(c.d < DaysIn(c.y, c.m)) /\ c.m < 12
    <2>1. t = [y |-> c.y, m |-> c.m + 1, d |-> 1] /\ c.d = DaysIn(c.y, c.m)
        <3>1. t = [y |-> c.y, m |-> c.m + 1, d |-> 1]
            BY <1>4 DEF Tomorrow
        <3>2. c.d = DaysIn(c.y, c.m)
            <4> HIDE DEF t
            <4> QED BY <1>1, <1>2, <1>4
        <3> QED BY <3>1, <3>2
    <2>2. Valid(t)
        BY <1>1, <1>2, <1>4, <2>1 DEF Valid, Dates
    <2>3. t.y = c.y /\ t.m = c.m + 1 /\ t.d = 1
        BY <2>1
    <2> HIDE DEF t
    <2>4. CASE c.m # 2
        <3>1. /\ MarchYear(t) = MarchYear(c) /\ MarchMonth(t) = MarchMonth(c) + 1
              /\ MarchYear(c) \in Nat /\ MarchMonth(c) \in 0 .. 11
            BY <1>1, <1>4, <2>3, <2>4 DEF MarchYear, MarchMonth
        <3>2. MonthStart(MarchMonth(c) + 1) = MonthStart(MarchMonth(c)) + c.d
            BY <1>1, <1>4, <2>1, <2>4 DEF MonthStart, MarchMonth, DaysIn
        <3>3. MonthStart(MarchMonth(c)) \in Int /\ \A n \in Int : YearStart(n) \in Int
            BY <3>1 DEF MonthStart, YearStart
        <3> QED BY <1>1, <2>2, <2>3, <3>1, <3>2, <3>3, SMT DEF DaysTo, t
    <2>5. CASE c.m = 2
        <3>1. /\ MarchYear(t) = c.y /\ MarchMonth(t) = 0
              /\ MarchYear(c) = c.y - 1 /\ MarchMonth(c) = 11
            BY <1>1, <2>3, <2>5 DEF MarchYear, MarchMonth
        <3>2. MonthStart(0) = 0 /\ MonthStart(11) = 337
            BY DEF MonthStart
        <3>3. c.d = IF IsLeap(c.y) THEN 29 ELSE 28
            BY <2>1, <2>5 DEF DaysIn
        <3> DEFINE y == c.y
                   q == y \div 400
                   p == (y - 1) \div 400
                   r == y - q * 400
                   s == (y - 1) - p * 400
        <3>4. y \in Nat /\ y >= 1970
            BY <1>1
        <3> HIDE DEF y
        <3>5. q \in Nat /\ p \in Nat /\ r \in 0 .. 399 /\ s \in 0 .. 399
            BY <3>4
        <3>6. DaysTo(t) = q * 146097 + YearStart(r) - 719468
            <4>1. DaysTo(t) = q * 146097 + YearStart(r) + MonthStart(0) + 1 - 1 - 719468
                BY <2>3, <3>1, SMT DEF DaysTo, y
            <4>2. YearStart(r) \in Int
                BY <3>5 DEF YearStart
            <4> HIDE DEF q, r
            <4> QED BY <3>2, <3>5, <4>1, <4>2, SMT
        <3>7. DaysTo(c) = p * 146097 + YearStart(s) + 337 + c.d - 1 - 719468
            BY <3>1, <3>2, SMT DEF DaysTo, y
        <3>8. IsLeap(y) <=> y % 4 = 0 /\ (y % 100 # 0 \/ y % 400 = 0)
            BY DEF IsLeap
        <3>9. CASE r = 0
            <4>1. p = q - 1 /\ s = 399 /\ IsLeap(y)
                BY <3>4, <3>8, <3>9
            <4>2. YearStart(0) = 0 /\ YearStart(399) = 145731 /\ c.d = 29
                BY <3>3, <4>1, SMT DEF YearStart, y
            <4> HIDE DEF p, q, r, s
            <4>3. DaysTo(t) = DaysTo(c) + 1
                BY <3>5, <3>6, <3>7, <3>9, <4>1, <4>2, SMT
            <4> QED BY <2>2, <4>3, SMT DEF t
        <3>10. CASE r # 0
            <4>1. p = q /\ s = r - 1
                BY <3>4, <3>5, <3>10
            <4>2. IsLeap(y) <=> r % 4 = 0 /\ r % 100 # 0
                BY <3>4, <3>5, <3>8, <3>10
            <4> HIDE DEF p, q, r, s
            <4>3. YearStart(r) = YearStart(r - 1) + 365 + (IF IsLeap(y) THEN 1 ELSE 0)
                BY <3>5, <3>10, <4>2 DEF YearStart
            <4>4. YearStart(r - 1) \in Int /\ c.d = 28 + (IF IsLeap(y) THEN 1 ELSE 0)
                BY <3>3, <3>5 DEF YearStart, y
            <4>5. DaysTo(t) = DaysTo(c) + 1
                BY <3>5, <3>6, <3>7, <4>1, <4>3, <4>4, SMT
            <4> QED BY <2>2, <4>5, SMT DEF t
        <3> QED BY <3>9, <3>10
    <2> QED BY <2>4, <2>5
<1>5. CASE ~(c.d < DaysIn(c.y, c.m)) /\ ~(c.m < 12)
    <2>1. t = [y |-> c.y + 1, m |-> 1, d |-> 1] /\ c.m = 12 /\ c.d = 31
        BY <1>1, <1>2, <1>5 DEF Tomorrow, DaysIn
    <2>2. Valid(t)
        BY <1>1, <1>2, <2>1 DEF Valid, Dates
    <2>3. /\ MarchYear(t) = c.y /\ MarchMonth(t) = 10 /\ t.d = 1
          /\ MarchYear(c) = c.y /\ MarchMonth(c) = 9
        BY <1>1, <2>1 DEF MarchYear, MarchMonth
    <2>4. MonthStart(9) + 31 = MonthStart(10) /\ MonthStart(9) \in Int
        BY DEF MonthStart
    <2>5. \A n \in Int : YearStart(n) \in Int
        BY DEF YearStart
    <2> HIDE DEF t
    <2> QED BY <1>1, <2>1, <2>2, <2>3, <2>4, <2>5, SMT DEF DaysTo, t
<1> QED BY <1>3, <1>4, <1>5

\* Every set of naturals with an element has a least one.
LEMMA Least ==
    ASSUME NEW T \in SUBSET Nat, T # {}
    PROVE  \E n \in T : \A m \in T : n <= m
<1>1. PICK n \in T : \A m \in T : ~(<<m, n>> \in OpToRel(<, Nat))
    BY NatLessThanWellFounded, WFMin, Zenon
<1>2. \A m \in T : ~(m < n)
    BY <1>1 DEF OpToRel
<1> QED BY <1>2

\* A part of a finite set is finite.
LEMMA PartFinite ==
    ASSUME NEW S, IsFiniteSet(S), NEW T, T \subseteq S
    PROVE  IsFiniteSet(T)
BY FS_Subset, Zenon

\* The years from one New Year to the next.
LEMMA NextYear ==
    ASSUME NEW y \in Nat, y >= 1970
    PROVE  DaysBefore(y + 1) = DaysBefore(y) + (IF IsLeap(y) THEN 366 ELSE 365)
<1> DEFINE A == {x \in 1970 .. y - 1 : IsLeap(x)}
           B == {x \in 1970 .. y + 1 - 1 : IsLeap(x)}
<1>1. IsFiniteSet(A) /\ Cardinality(A) \in Nat
    <2> DEFINE I == 1970 .. y - 1
    <2>1. IsFiniteSet(I)
        BY FS_Interval
    <2>2. A \subseteq I
        OBVIOUS
    <2> HIDE DEF A, I
    <2>3. IsFiniteSet(A)
        BY <2>1, <2>2, PartFinite, SMT
    <2> QED BY <2>3, FS_CardinalityType, SMT
<1>2. B = (IF IsLeap(y) THEN A \union {y} ELSE A) /\ y \notin A
    OBVIOUS
<1>3. DaysBefore(y) = 365 * (y - 1970) + Cardinality(A)
      /\ DaysBefore(y + 1) = 365 * (y + 1 - 1970) + Cardinality(B)
    BY SMT DEF DaysBefore
<1> HIDE DEF A, B
<1>4. Cardinality(B) = IF IsLeap(y) THEN Cardinality(A) + 1 ELSE Cardinality(A)
    BY <1>1, <1>2, FS_AddElement, SMT
<1> QED BY <1>1, <1>3, <1>4, SMT

\* The days before a year, counted by its leap years, are those to its first day.
LEMMA YearBegins ==
    ASSUME NEW y \in Nat, y >= 1970
    PROVE  DaysBefore(y) = DaysTo([y |-> y, m |-> 1, d |-> 1])
<1> DEFINE J(n) == DaysTo([y |-> n, m |-> 1, d |-> 1])
           era(n) == (n - 1) \div 400
           yoe(n) == n - 1 - era(n) * 400
<1>1. \A n \in Nat : n >= 1970 =>
         J(n) = era(n) * 146097 + YearStart(yoe(n)) + 306 - 719468
    <2> TAKE n \in Nat
    <2> HAVE n >= 1970
    <2> DEFINE c == [y |-> n, m |-> 1, d |-> 1]
    <2>1. MarchYear(c) = n - 1 /\ MarchMonth(c) = 10 /\ c.d = 1
        BY DEF MarchYear, MarchMonth
    <2> HIDE DEF c
    <2>2. DaysTo(c) = era(n) * 146097 + YearStart(yoe(n)) + MonthStart(10) + 1 - 1 - 719468
        BY <2>1, SMT DEF DaysTo
    <2>3. MonthStart(10) = 306
        BY DEF MonthStart
    <2>4. era(n) \in Int /\ yoe(n) \in Int /\ YearStart(yoe(n)) \in Int
        BY DEF YearStart
    <2> HIDE DEF era, yoe
    <2>5. DaysTo(c) = era(n) * 146097 + YearStart(yoe(n)) + 306 - 719468
        BY <2>2, <2>3, <2>4, SMT
    <2> QED BY <2>5, SMT DEF c, J
<1>2. \A n \in Nat : n >= 1970 => J(n) \in Int
    <2> TAKE n \in Nat
    <2> HAVE n >= 1970
    <2>1. J(n) = era(n) * 146097 + YearStart(yoe(n)) + 306 - 719468
        BY <1>1
    <2>2. era(n) \in Int /\ YearStart(yoe(n)) \in Int
        BY DEF YearStart
    <2> HIDE DEF J, era, yoe
    <2> QED BY <2>1, <2>2, SMT
<1>3. \A n \in Nat : n >= 1970 => J(n + 1) = J(n) + (IF IsLeap(n) THEN 366 ELSE 365)
    <2> TAKE n \in Nat
    <2> HAVE n >= 1970
    <2> DEFINE q == n \div 400
               p == (n - 1) \div 400
               r == n - q * 400
               s == (n - 1) - p * 400
    <2>1. q \in Nat /\ p \in Nat /\ r \in 0 .. 399 /\ s \in 0 .. 399
        OBVIOUS
    <2>2. J(n) = p * 146097 + YearStart(s) + 306 - 719468
        BY <1>1
    <2>3. J(n + 1) = q * 146097 + YearStart(r) + 306 - 719468
        <3> HIDE DEF J
        <3>1. J(n + 1) = era(n + 1) * 146097 + YearStart(yoe(n + 1)) + 306 - 719468
            BY <1>1
        <3>2. era(n + 1) = q /\ yoe(n + 1) = r
            OBVIOUS
        <3> HIDE DEF era, yoe, q, r
        <3> QED BY <3>1, <3>2
    <2> HIDE DEF J
    <2>4. IsLeap(n) <=> n % 4 = 0 /\ (n % 100 # 0 \/ n % 400 = 0)
        BY DEF IsLeap
    <2>5. CASE r = 0
        <3>1. p = q - 1 /\ s = 399 /\ IsLeap(n)
            BY <2>4, <2>5
        <3>2. YearStart(0) = 0 /\ YearStart(399) = 145731
            BY SMT DEF YearStart
        <3> HIDE DEF p, q, r, s
        <3> QED BY <2>1, <2>2, <2>3, <2>5, <3>1, <3>2, SMT
    <2>6. CASE r # 0
        <3>1. p = q /\ s = r - 1
            BY <2>1, <2>6
        <3>2. IsLeap(n) <=> r % 4 = 0 /\ r % 100 # 0
            BY <2>1, <2>4, <2>6
        <3> HIDE DEF p, q, r, s
        <3>3. YearStart(r) = YearStart(r - 1) + 365 + (IF IsLeap(n) THEN 1 ELSE 0)
            BY <2>1, <2>6, <3>2 DEF YearStart
        <3>4. YearStart(r - 1) \in Int
            BY <2>1 DEF YearStart
        <3> QED BY <2>1, <2>2, <2>3, <3>1, <3>3, <3>4, SMT
    <2> QED BY <2>5, <2>6
<1>4. J(1970) = 0 /\ DaysBefore(1970) = 0
    <2>1. YearStart(369) = 134774
        BY SMT DEF YearStart
    <2>2. era(1970) = 4 /\ yoe(1970) = 369
        OBVIOUS
    <2>3. J(1970) = 4 * 146097 + YearStart(369) + 306 - 719468
        BY <1>1, <2>2
    <2>4. J(1970) = 0
        <3> HIDE DEF J
        <3> QED BY <2>1, <2>3, SMT
    <2>5. {x \in 1970 .. 1970 - 1 : IsLeap(x)} = {}
        OBVIOUS
    <2>6. DaysBefore(1970) = 365 * (1970 - 1970) + 0
        BY <2>5, FS_EmptySet, SMT DEF DaysBefore
    <2> QED BY <2>4, <2>6, SMT
<1> DEFINE Bad == {n \in Nat : n >= 1970 /\ DaysBefore(n) # J(n)}
<1>5. SUFFICES ASSUME Bad # {} PROVE FALSE
    BY SMT
<1>6. PICK n \in Bad : \A k \in Bad : n <= k
    <2>1. Bad \in SUBSET Nat
        BY SMT
    <2> HIDE DEF Bad
    <2> QED BY <1>5, <2>1, Least, SMT
<1> HIDE DEF J
<1>7. n \in Nat /\ n >= 1970 /\ DaysBefore(n) # J(n) /\ n # 1970
    BY <1>4, <1>6, SMT
<1>8. n - 1 \in Nat /\ n - 1 >= 1970 /\ (n - 1) + 1 = n /\ n - 1 \notin Bad
    BY <1>6, <1>7, SMT
<1>9. DaysBefore(n - 1) = J(n - 1)
    BY <1>8, SMT
<1>10. DaysBefore(n) = J(n)
    BY <1>3, <1>8, <1>9, NextYear, SMT
<1> QED BY <1>7, <1>10

-----------------------------------------------------------------------------
(* The characters of a timestamp                                           *)

\* The powers of ten that the digits of a timestamp stand for.
LEMMA Powers ==
    /\ 10 ^ 0 = 1 /\ 10 ^ 1 = 10 /\ 10 ^ 2 = 100 /\ 10 ^ 3 = 1000 /\ 10 ^ 4 = 10000
    /\ 10 ^ 5 = 100000 /\ 10 ^ 6 = 1000000 /\ 10 ^ 7 = 10000000 /\ 10 ^ 8 = 100000000
BY SMT

\* The i-th of n characters.
Digit(n, val, i) == IF i = 1 THEN val \div 10 ^ (n - 1) ELSE (val \div 10 ^ (n - i)) % 10

Characters == {"-", ":", "."} \union {Digit(n, val, i) : n \in Nat, val \in Nat, i \in Nat}

\* write_digits writes as many characters as it is asked to.
LEMMA Written ==
    ASSUME NEW n \in Nat, NEW val \in Nat
    PROVE  /\ write_digits(n, val) \in Seq(Characters) /\ Len(write_digits(n, val)) = n
           /\ \A i \in 1 .. n : write_digits(n, val)[i] = Digit(n, val, i)
<1>2. \A i \in 1 .. n : Digit(n, val, i) \in Characters
    BY SMT DEF Characters
<1>3. write_digits(n, val) = [i \in 1 .. n |-> Digit(n, val, i)]
    BY Zenon DEF write_digits, Digit
<1>4. /\ [i \in 1 .. n |-> Digit(n, val, i)] \in Seq(Characters)
      /\ Len([i \in 1 .. n |-> Digit(n, val, i)]) = n
    BY <1>2, SMT
<1> QED BY <1>3, <1>4, SMT

\* Characters i and i + 1 are those of a two-digit number; the first four those of a year.
TwoAt(s, i, v) == s[i] = v \div 10 /\ s[i + 1] = v % 10
YearAt(s, v) ==
    s[1] = v \div 1000 /\ s[2] = (v \div 100) % 10 /\ s[3] = (v \div 10) % 10 /\ s[4] = v % 10

\* A text of n characters.
Text(s, n) == s \in Seq(Characters) /\ Len(s) = n

\* What two and four places are filled with.
LEMMA Digits ==
    ASSUME NEW v \in Nat
    PROVE  /\ Text(write_digits(2, v), 2) /\ TwoAt(write_digits(2, v), 1, v)
           /\ Text(write_digits(4, v), 4) /\ YearAt(write_digits(4, v), v)
<1>1. /\ write_digits(2, v)[1] = Digit(2, v, 1) /\ write_digits(2, v)[2] = Digit(2, v, 2)
    BY Written, SMT
<1>2. /\ write_digits(4, v)[1] = Digit(4, v, 1) /\ write_digits(4, v)[2] = Digit(4, v, 2)
      /\ write_digits(4, v)[3] = Digit(4, v, 3) /\ write_digits(4, v)[4] = Digit(4, v, 4)
    BY Written, SMT
<1>3. /\ Digit(2, v, 1) = v \div 10 /\ Digit(2, v, 2) = v % 10
      /\ Digit(4, v, 1) = v \div 1000 /\ Digit(4, v, 2) = (v \div 100) % 10
      /\ Digit(4, v, 3) = (v \div 10) % 10 /\ Digit(4, v, 4) = v % 10
    BY Powers, SMT DEF Digit
<1>4. 2 \in Nat /\ 4 \in Nat
    BY SMT
<1>5. Text(write_digits(2, v), 2) /\ Text(write_digits(4, v), 4)
    BY <1>4, Written, Zenon DEF Text
<1>6. TwoAt(write_digits(2, v), 1, v) /\ YearAt(write_digits(4, v), v)
    BY <1>1, <1>2, <1>3, SMT DEF TwoAt, YearAt
<1> QED BY <1>5, <1>6

\* Three digits make up a number, and the last three of a longer one.
LEMMA ThreeDigits ==
    ASSUME NEW x \in Nat
    PROVE  /\ 100 * (x \div 100) + (10 * ((x \div 10) % 10) + (x % 10)) = x
           /\ 100 * ((x \div 100) % 10) + (10 * ((x \div 10) % 10) + (x % 10)) = x % 1000
           /\ (x \div 10) \div 10 = x \div 100
BY SMT

\* A finer fraction of a second has the digits of a coarser one, and some more.
LEMMA Fractions ==
    ASSUME NEW v \in Nat
    PROVE  /\ \A i \in 1 .. 3 : write_digits(3, v \div 1000000)[i] = write_digits(9, v)[i]
           /\ \A i \in 1 .. 6 : write_digits(6, v \div 1000)[i] = write_digits(9, v)[i]
           /\ LET d == write_digits(9, v) IN
              v = 1000000 * Three(d, 1) + 1000 * Three(d, 4) + Three(d, 7)
<1> DEFINE d == write_digits(9, v)
<1>1. /\ d[1] = v \div 100000000 /\ d[2] = (v \div 10000000) % 10 /\ d[3] = (v \div 1000000) % 10
      /\ d[4] = (v \div 100000) % 10 /\ d[5] = (v \div 10000) % 10 /\ d[6] = (v \div 1000) % 10
      /\ d[7] = (v \div 100) % 10 /\ d[8] = (v \div 10) % 10 /\ d[9] = v % 10
    <2>1. \A i \in 1 .. 9 : d[i] = Digit(9, v, i)
        BY Written, SMT
    <2> HIDE DEF d
    <2> QED BY <2>1, Powers, SMT DEF Digit
<1> DEFINE a == v \div 1000000
           e == write_digits(3, a)
<1>2. e[1] = a \div 100 /\ e[2] = (a \div 10) % 10 /\ e[3] = a % 10
    <2>1. a \in Nat
        BY SMT
    <2> HIDE DEF a
    <2>2. \A i \in 1 .. 3 : e[i] = Digit(3, a, i)
        BY <2>1, Written, SMT
    <2> HIDE DEF e
    <2> QED BY <2>1, <2>2, Powers, SMT DEF Digit
<1> DEFINE b == v \div 1000
           g == write_digits(6, b)
<1>3. /\ g[1] = b \div 100000 /\ g[2] = (b \div 10000) % 10 /\ g[3] = (b \div 1000) % 10
      /\ g[4] = (b \div 100) % 10 /\ g[5] = (b \div 10) % 10 /\ g[6] = b % 10
    <2>1. b \in Nat
        BY SMT
    <2> HIDE DEF b
    <2>2. \A i \in 1 .. 6 : g[i] = Digit(6, b, i)
        BY <2>1, Written, SMT
    <2> HIDE DEF g
    <2> QED BY <2>1, <2>2, Powers, SMT DEF Digit
<1> HIDE DEF d, e, g
<1>4. \A i \in 1 .. 3 : e[i] = d[i]
    <2>1. /\ a \div 100 = v \div 100000000 /\ a \div 10 = v \div 10000000
        BY SMT
    <2> QED BY <1>1, <1>2, <2>1, SMT
<1>5. \A i \in 1 .. 6 : g[i] = d[i]
    <2>1. /\ b \div 100000 = v \div 100000000 /\ b \div 10000 = v \div 10000000
          /\ b \div 1000 = v \div 1000000 /\ b \div 100 = v \div 100000 /\ b \div 10 = v \div 10000
        BY SMT
    <2>2. g[1] = d[1] /\ g[2] = d[2] /\ g[3] = d[3] /\ g[4] = d[4] /\ g[5] = d[5] /\ g[6] = d[6]
        <3> HIDE DEF b
        <3> QED BY <1>1, <1>3, <2>1, SMT DEF b
    <2> QED BY <2>2, SMT
<1>6. v = 1000000 * Three(d, 1) + 1000 * Three(d, 4) + Three(d, 7)
    <2>1. /\ Three(d, 1) = 100 * d[1] + (10 * d[2] + d[3])
          /\ Three(d, 4) = 100 * d[4] + (10 * d[5] + d[6])
          /\ Three(d, 7) = 100 * d[7] + (10 * d[8] + d[9])
        BY SMT DEF Three, Two
    <2>2. Three(d, 1) = a
        <3>1. d[1] = a \div 100 /\ d[2] = (a \div 10) % 10 /\ d[3] = a % 10 /\ a \in Nat
            BY <1>2, <1>4, SMT
        <3> HIDE DEF a
        <3> QED BY <2>1, <3>1, ThreeDigits, SMT
    <2>3. Three(d, 4) = b % 1000
        <3>1. d[4] = (b \div 100) % 10 /\ d[5] = (b \div 10) % 10 /\ d[6] = b % 10 /\ b \in Nat
            <4>1. b \in Nat
                BY SMT
            <4> HIDE DEF b
            <4> QED BY <1>3, <1>5, <4>1, SMT
        <3> HIDE DEF b
        <3> QED BY <2>1, <3>1, ThreeDigits, SMT
    <2>4. Three(d, 7) = v % 1000
        BY <1>1, <2>1, ThreeDigits, SMT
    <2>5. v = 1000000 * a + 1000 * (b % 1000) + (v % 1000)
        BY SMT
    <2>6. a \in Int /\ b % 1000 \in Int /\ v % 1000 \in Int
        BY SMT
    <2> HIDE DEF a, b
    <2> QED BY <2>2, <2>3, <2>4, <2>5, <2>6, SMT
<1> QED BY <1>4, <1>5, <1>6, SMT DEF d, e, g, a, b

\* The m characters of a and the n of b.
Holds(s, a, b, m, n) ==
    Text(s, m + n) /\ (\A i \in 1 .. m : s[i] = a[i]) /\ (\A i \in 1 .. n : s[m + i] = b[i])

\* Characters written after others.
LEMMA Joined ==
    ASSUME NEW a, NEW b, NEW m, NEW n, Text(a, m), Text(b, n)
    PROVE  Holds(a \o b, a, b, m, n)
<1>1. m \in Nat /\ n \in Nat
    BY LenProperties, Zenon DEF Text
<1>2. /\ a \o b \in Seq(Characters) /\ Len(a \o b) = m + n
      /\ \A i \in 1 .. m + n : (a \o b)[i] = IF i <= m THEN a[i] ELSE b[i - m]
    BY ConcatProperties, Zenon DEF Text
<1> DEFINE s == a \o b
<1> HIDE DEF s
<1>3. \A i \in 1 .. m + n : s[i] = IF i <= m THEN a[i] ELSE b[i - m]
    BY <1>2, Zenon DEF s
<1>4. \A i \in 1 .. m : s[i] = a[i]
    BY <1>1, <1>3, SMT
<1>5. \A i \in 1 .. n : s[m + i] = b[i]
    BY <1>1, <1>3, SMT
<1> QED BY <1>2, <1>4, <1>5, Zenon DEF s, Text, Holds

\* The date at the start of a timestamp.
LEMMA DateText ==
    ASSUME NEW c, c.y \in Nat, c.m \in Nat, c.d \in Nat
    PROVE  /\ Text(write_date(c), 8) /\ YearAt(write_date(c), c.y)
           /\ TwoAt(write_date(c), 5, c.m) /\ TwoAt(write_date(c), 7, c.d)
<1> DEFINE a == write_digits(4, c.y)
           b == write_digits(2, c.m)
           e == write_digits(2, c.d)
           ab == a \o b
           s == ab \o e
<1>1. write_date(c) = s
    BY Zenon DEF write_date
<1>2. Text(a, 4) /\ Text(b, 2) /\ Text(e, 2) /\ YearAt(a, c.y) /\ TwoAt(b, 1, c.m) /\ TwoAt(e, 1, c.d)
    BY Digits, Zenon
<1> HIDE DEF a, b, e
<1>3. Holds(ab, a, b, 4, 2)
    BY <1>2, Joined, Zenon
<1> HIDE DEF ab
<1>4. Text(ab, 6)
    BY <1>3, SMT DEF Holds
<1>5. ab[1] = a[1] /\ ab[2] = a[2] /\ ab[3] = a[3] /\ ab[4] = a[4] /\ ab[5] = b[1] /\ ab[6] = b[2]
    BY <1>3, SMT DEF Holds
<1>6. Holds(s, ab, e, 6, 2)
    BY <1>2, <1>4, Joined, Zenon
<1> HIDE DEF s
<1>7. Text(s, 8)
    BY <1>6, SMT DEF Holds
<1>8. /\ s[1] = ab[1] /\ s[2] = ab[2] /\ s[3] = ab[3] /\ s[4] = ab[4]
      /\ s[5] = ab[5] /\ s[6] = ab[6] /\ s[7] = e[1] /\ s[8] = e[2]
    BY <1>6, SMT DEF Holds
<1>9. YearAt(s, c.y) /\ TwoAt(s, 5, c.m) /\ TwoAt(s, 7, c.d)
    BY <1>2, <1>5, <1>8, SMT DEF YearAt, TwoAt
<1> QED BY <1>1, <1>7, <1>9, Zenon

\* The time of the day that follows.
LEMMA TimeText ==
    ASSUME NEW u, u.h \in Nat, u.mi \in Nat, u.s \in Nat
    PROVE  /\ Text(write_time(u), 8) /\ TwoAt(write_time(u), 1, u.h)
           /\ TwoAt(write_time(u), 4, u.mi) /\ TwoAt(write_time(u), 7, u.s)
<1> DEFINE a == write_digits(2, u.h)
           b == write_digits(2, u.mi)
           e == write_digits(2, u.s)
           k == <<":">>
           s1 == a \o k
           s2 == s1 \o b
           s3 == s2 \o k
           s4 == s3 \o e
<1>1. write_time(u) = s4
    BY Zenon DEF write_time
<1>2. Text(a, 2) /\ Text(b, 2) /\ Text(e, 2) /\ TwoAt(a, 1, u.h) /\ TwoAt(b, 1, u.mi) /\ TwoAt(e, 1, u.s)
    BY Digits, Zenon
<1>3. Text(k, 1)
    BY SMT DEF Characters, Text
<1> HIDE DEF a, b, e, k
<1>4. Holds(s1, a, k, 2, 1)
    BY <1>2, <1>3, Joined, Zenon
<1> HIDE DEF s1
<1>5. Text(s1, 3) /\ s1[1] = a[1] /\ s1[2] = a[2]
    BY <1>4, SMT DEF Holds
<1>6. Holds(s2, s1, b, 3, 2)
    BY <1>2, <1>5, Joined, Zenon
<1> HIDE DEF s2
<1>7. Text(s2, 5) /\ s2[1] = s1[1] /\ s2[2] = s1[2] /\ s2[4] = b[1] /\ s2[5] = b[2]
    BY <1>6, SMT DEF Holds
<1>8. Holds(s3, s2, k, 5, 1)
    BY <1>3, <1>7, Joined, Zenon
<1> HIDE DEF s3
<1>9. Text(s3, 6) /\ s3[1] = s2[1] /\ s3[2] = s2[2] /\ s3[4] = s2[4] /\ s3[5] = s2[5]
    BY <1>8, SMT DEF Holds
<1>10. Holds(s4, s3, e, 6, 2)
    BY <1>2, <1>9, Joined, Zenon
<1> HIDE DEF s4
<1>11. /\ Text(s4, 8) /\ s4[1] = s3[1] /\ s4[2] = s3[2] /\ s4[4] = s3[4] /\ s4[5] = s3[5]
       /\ s4[7] = e[1] /\ s4[8] = e[2]
    BY <1>10, SMT DEF Holds
<1>12. TwoAt(s4, 1, u.h) /\ TwoAt(s4, 4, u.mi) /\ TwoAt(s4, 7, u.s)
    BY <1>2, <1>5, <1>7, <1>9, <1>11, SMT DEF TwoAt
<1> QED BY <1>1, <1>11, <1>12, Zenon

\* The part of a timestamp that the three precisions share.
LEMMA StampText ==
    ASSUME NEW t, NEW c, NEW u, to_utc_components(t) = u, u.date = c,
           c.y \in Nat, c.m \in Nat, c.d \in Nat, u.h \in Nat, u.mi \in Nat, u.s \in Nat
    PROVE  /\ Text(Stamp(t), 18) /\ YearAt(Stamp(t), c.y)
           /\ TwoAt(Stamp(t), 5, c.m) /\ TwoAt(Stamp(t), 7, c.d)
           /\ TwoAt(Stamp(t), 10, u.h) /\ TwoAt(Stamp(t), 13, u.mi) /\ TwoAt(Stamp(t), 16, u.s)
<1> DEFINE a == write_date(c)
           b == write_time(u)
           k == <<"-">>
           j == <<".">>
           s1 == a \o k
           s2 == s1 \o b
           s3 == s2 \o j
<1>1. Stamp(t) = s3
    BY Zenon DEF Stamp
<1>2. Text(k, 1) /\ Text(j, 1)
    BY SMT DEF Characters, Text
<1>3. Text(a, 8) /\ YearAt(a, c.y) /\ TwoAt(a, 5, c.m) /\ TwoAt(a, 7, c.d)
    BY DateText, Zenon
<1>4. Text(b, 8) /\ TwoAt(b, 1, u.h) /\ TwoAt(b, 4, u.mi) /\ TwoAt(b, 7, u.s)
    BY TimeText, Zenon
<1> HIDE DEF a, b, k, j
<1>5. Holds(s1, a, k, 8, 1)
    BY <1>2, <1>3, Joined, Zenon
<1> HIDE DEF s1
<1>6. Text(s1, 9)
    BY <1>5, SMT DEF Holds
<1>7. Holds(s2, s1, b, 9, 8)
    BY <1>4, <1>6, Joined, Zenon
<1> HIDE DEF s2
<1>8. /\ Text(s2, 17)
      /\ s2[1] = s1[1] /\ s2[2] = s1[2] /\ s2[3] = s1[3] /\ s2[4] = s1[4]
      /\ s2[5] = s1[5] /\ s2[6] = s1[6] /\ s2[7] = s1[7] /\ s2[8] = s1[8]
      /\ s2[10] = b[1] /\ s2[11] = b[2] /\ s2[13] = b[4] /\ s2[14] = b[5]
      /\ s2[16] = b[7] /\ s2[17] = b[8]
    BY <1>7, SMT DEF Holds
<1>9. Holds(s3, s2, j, 17, 1)
    BY <1>2, <1>8, Joined, Zenon
<1> HIDE DEF s3
<1>10. /\ Text(s3, 18)
       /\ s3[1] = s2[1] /\ s3[2] = s2[2] /\ s3[3] = s2[3] /\ s3[4] = s2[4]
       /\ s3[5] = s2[5] /\ s3[6] = s2[6] /\ s3[7] = s2[7] /\ s3[8] = s2[8]
       /\ s3[10] = s2[10] /\ s3[11] = s2[11] /\ s3[13] = s2[13] /\ s3[14] = s2[14]
       /\ s3[16] = s2[16] /\ s3[17] = s2[17]
    BY <1>9, SMT DEF Holds
<1>11. /\ s1[1] = a[1] /\ s1[2] = a[2] /\ s1[3] = a[3] /\ s1[4] = a[4]
       /\ s1[5] = a[5] /\ s1[6] = a[6] /\ s1[7] = a[7] /\ s1[8] = a[8]
    BY <1>5, SMT DEF Holds
<1>12. /\ YearAt(s3, c.y) /\ TwoAt(s3, 5, c.m) /\ TwoAt(s3, 7, c.d)
       /\ TwoAt(s3, 10, u.h) /\ TwoAt(s3, 13, u.mi) /\ TwoAt(s3, 16, u.s)
    BY <1>3, <1>4, <1>8, <1>10, <1>11, SMT DEF YearAt, TwoAt
<1> QED BY <1>1, <1>10, <1>12, Zenon

\* b is the first k of the n characters of c; b is the first m + k characters of c.
Starts(b, c, k, n) == k <= n /\ Text(b, k) /\ Text(c, n) /\ \A i \in 1 .. k : b[i] = c[i]
Cuts(b, c, m, k) == b = SubSeq(c, 1, m + k)

\* A coarser timestamp is the start of a finer one.
LEMMA CutOff ==
    ASSUME NEW a, NEW b, NEW c, NEW m, NEW k, NEW n, Text(a, m), Starts(b, c, k, n)
    PROVE  Cuts(a \o b, a \o c, m, k)
<1>0. /\ Text(b, k) /\ Text(c, n) /\ k <= n /\ (\A i \in 1 .. k : b[i] = c[i])
      /\ m \in Nat /\ k \in Nat /\ n \in Nat
    BY LenProperties, Zenon DEF Starts, Text
<1> DEFINE s == a \o b
           t == a \o c
           r == SubSeq(t, 1, m + k)
<1>1. Holds(s, a, b, m, k) /\ Holds(t, a, c, m, n)
    BY <1>0, Joined, Zenon
<1> HIDE DEF s, t
<1>2. /\ s \in Seq(Characters) /\ Len(s) = m + k /\ t \in Seq(Characters) /\ Len(t) = m + n
      /\ \A i \in 1 .. m : s[i] = a[i] /\ t[i] = a[i]
      /\ \A i \in 1 .. k : s[m + i] = b[i]
      /\ \A i \in 1 .. n : t[m + i] = c[i]
    BY <1>1, Zenon DEF Holds, Text
<1>3. \A i \in 1 .. m + k : s[i] = t[i]
    <2> TAKE i \in 1 .. m + k
    <2>1. CASE i <= m
        <3>1. i \in 1 .. m
            BY <1>0, <2>1, SMT
        <3> QED BY <1>2, <3>1, Zenon
    <2>2. CASE ~(i <= m)
        <3> DEFINE j == i - m
        <3>1. j \in 1 .. k /\ j \in 1 .. n /\ i = m + j
            BY <1>0, <2>2, SMT
        <3> HIDE DEF j
        <3>2. s[m + j] = b[j] /\ t[m + j] = c[j] /\ b[j] = c[j]
            BY <1>0, <1>2, <3>1, Zenon
        <3> QED BY <3>1, <3>2
    <2> QED BY <2>1, <2>2
<1>4. \A i \in 1 .. m + k : t[i] \in Characters
    <2>1. \A i \in 1 .. m + k : i \in 1 .. Len(t)
        BY <1>0, <1>2, SMT
    <2> QED BY <1>2, <2>1, ElementOfSeq, Zenon
<1>5. /\ r \in Seq(Characters) /\ Len(r) = (IF 1 <= m + k THEN m + k - 1 + 1 ELSE 0)
      /\ \A i \in 1 .. m + k - 1 + 1 : r[i] = t[1 + i - 1]
    <2>1. 1 \in Int /\ m + k \in Int
        BY <1>0, SMT
    <2> QED BY <1>0, <1>4, <2>1, SubSeqProperties, SMTT(30)
<1> HIDE DEF r
<1>6. r \in Seq(Characters) /\ Len(r) = m + k /\ \A i \in 1 .. m + k : r[i] = t[i]
    BY <1>0, <1>5, SMT
<1>7. s = r
    <2>1. Len(s) = Len(r) /\ \A i \in 1 .. Len(s) : s[i] = r[i]
        BY <1>0, <1>2, <1>3, <1>6, SMT
    <2> QED BY <1>2, <1>6, <2>1, SeqEqual, Zenon
<1> QED BY <1>7, Zenon DEF r, s, t, Cuts

\* Today's number is that of today's date.
CalendarInv == Valid(date) /\ day = DaysTo(date)

\* Hours, minutes and seconds make up the seconds of a day.
LEMMA TimeOfDay ==
    ASSUME NEW x \in Nat
    PROVE  LET h == x \div 3600
               mi == (x % 3600) \div 60
               s == x % 60
           IN h \in Nat /\ mi \in Nat /\ s \in Nat /\ mi < 60 /\ s < 60 /\ 3600 * h + 60 * mi + s = x
<1> DEFINE h == x \div 3600
           r == x % 3600
<1>1. h \in Nat /\ r \in Nat /\ r < 3600 /\ x = 3600 * h + r
    BY SMT
<1> HIDE DEF h, r
<1>2. r \div 60 \in Nat /\ r \div 60 < 60 /\ r % 60 \in Nat /\ r % 60 < 60 /\ 60 * (r \div 60) + (r % 60) = r
    BY <1>1, SMT
<1>3. x % 60 = r % 60
    BY <1>1, SMT
<1> QED BY <1>1, <1>2, <1>3, SMT DEF h, r

\* What a timestamp says when it is formatted on a day of the calendar.
LEMMA Formatted ==
    ASSUME CalendarInv, NEW t \in Times
    PROVE  LET at == [day |-> day, sec |-> t.sec, frac |-> t.frac]
               s == to_fix_timestamp_ns(at)
           IN /\ [y |-> 100 * Two(s, 1) + Two(s, 3), m |-> Two(s, 5), d |-> Two(s, 7)] = date
              /\ Two(s, 13) < 60 /\ Two(s, 16) < 60
              /\ 3600 * Two(s, 10) + 60 * Two(s, 13) + Two(s, 16) = t.sec
              /\ 1000000 * Three(s, 19) + 1000 * Three(s, 22) + Three(s, 25) = t.frac
              /\ to_fix_timestamp_us(at) = SubSeq(s, 1, 24)
              /\ to_fix_timestamp(at) = SubSeq(s, 1, 21)
<1> DEFINE at == [day |-> day, sec |-> t.sec, frac |-> t.frac]
           u == to_utc_components(at)
           d9 == write_digits(9, t.frac)
           d6 == write_digits(6, t.frac \div 1000)
           d3 == write_digits(3, t.frac \div 1000000)
           s == Stamp(at) \o d9
<1>1. t.sec \in Nat /\ t.frac \in Nat
    BY TelemetryAssumption
<1>2. /\ date.y \in Nat /\ date.m \in Nat /\ date.d \in Nat
      /\ date = [y |-> date.y, m |-> date.m, d |-> date.d]
    BY SMT DEF CalendarInv, Valid, Dates
<1>3. u.date = date
    <2>1. civil_from_days(day) = date
        BY CivilInverts, SMT DEF CalendarInv
    <2> QED BY <2>1, SMT DEF to_utc_components
<1>4. u.h = t.sec \div 3600 /\ u.mi = (t.sec % 3600) \div 60 /\ u.s = t.sec % 60
    BY SMT DEF to_utc_components
<1>5. /\ u.h \in Nat /\ u.mi \in Nat /\ u.s \in Nat /\ u.mi < 60 /\ u.s < 60
      /\ 3600 * u.h + 60 * u.mi + u.s = t.sec
    <2> HIDE DEF u
    <2> QED BY <1>1, <1>4, TimeOfDay, SMT
<1>6. /\ to_fix_timestamp_ns(at) = s /\ to_fix_timestamp_us(at) = Stamp(at) \o d6
      /\ to_fix_timestamp(at) = Stamp(at) \o d3
    BY SMT DEF to_fix_timestamp_ns, to_fix_timestamp_us, to_fix_timestamp
<1>7. Text(d9, 9) /\ Text(d6, 6) /\ Text(d3, 3)
    <2>1. 9 \in Nat /\ 6 \in Nat /\ 3 \in Nat
        BY SMT
    <2> DEFINE a == t.frac \div 1000
               b == t.frac \div 1000000
    <2>2. a \in Nat /\ b \in Nat
        BY <1>1, SMT
    <2> HIDE DEF a, b
    <2>3. Text(write_digits(9, t.frac), 9) /\ Text(write_digits(6, a), 6) /\ Text(write_digits(3, b), 3)
        BY <1>1, <2>1, <2>2, Written, Zenon DEF Text
    <2> QED BY <2>3, SMT DEF a, b
<1>8. /\ \A i \in 1 .. 3 : d3[i] = d9[i]
      /\ \A i \in 1 .. 6 : d6[i] = d9[i]
      /\ t.frac = 1000000 * Three(d9, 1) + 1000 * Three(d9, 4) + Three(d9, 7)
    BY <1>1, Fractions, SMT
<1> HIDE DEF d9, d6, d3
<1>9. /\ Text(Stamp(at), 18) /\ YearAt(Stamp(at), date.y)
      /\ TwoAt(Stamp(at), 5, date.m) /\ TwoAt(Stamp(at), 7, date.d)
      /\ TwoAt(Stamp(at), 10, u.h) /\ TwoAt(Stamp(at), 13, u.mi) /\ TwoAt(Stamp(at), 16, u.s)
    <2>1. u.h \in Nat /\ u.mi \in Nat /\ u.s \in Nat
        BY <1>5, SMT
    <2>2. to_utc_components(at) = u
        BY Zenon
    <2>3. u.date = date /\ date.y \in Nat /\ date.m \in Nat /\ date.d \in Nat
        BY <1>2, <1>3, Zenon
    <2> HIDE DEF u, at
    <2> QED BY <2>1, <2>2, <2>3, StampText, Zenon
<1> HIDE DEF at, u
<1> DEFINE p == Stamp(at)
<1> HIDE DEF p
<1>10. Text(p, 18) /\ s = p \o d9 /\ to_fix_timestamp_us(at) = p \o d6 /\ to_fix_timestamp(at) = p \o d3
    BY <1>6, <1>9, Zenon DEF p
<1>11. Holds(s, p, d9, 18, 9)
    BY <1>7, <1>10, Joined, Zenon DEF p
<1> HIDE DEF s
<1>12. /\ s[1] = p[1] /\ s[2] = p[2] /\ s[3] = p[3] /\ s[4] = p[4] /\ s[5] = p[5] /\ s[6] = p[6]
       /\ s[7] = p[7] /\ s[8] = p[8] /\ s[10] = p[10] /\ s[11] = p[11] /\ s[13] = p[13]
       /\ s[14] = p[14] /\ s[16] = p[16] /\ s[17] = p[17]
    BY <1>11, SMT DEF Holds
<1>13. /\ s[19] = d9[1] /\ s[20] = d9[2] /\ s[21] = d9[3] /\ s[22] = d9[4] /\ s[23] = d9[5]
       /\ s[24] = d9[6] /\ s[25] = d9[7] /\ s[26] = d9[8] /\ s[27] = d9[9]
    BY <1>11, SMT DEF Holds
<1>14. \A i \in Nat, v \in Nat : TwoAt(s, i, v) => Two(s, i) = v
    BY SMT DEF Two, TwoAt
<1>15. /\ YearAt(s, date.y) /\ TwoAt(s, 5, date.m) /\ TwoAt(s, 7, date.d)
       /\ TwoAt(s, 10, u.h) /\ TwoAt(s, 13, u.mi) /\ TwoAt(s, 16, u.s)
    BY <1>9, <1>12, SMT DEF YearAt, TwoAt, p
<1>16. Two(s, 5) = date.m /\ Two(s, 7) = date.d
       /\ Two(s, 10) = u.h /\ Two(s, 13) = u.mi /\ Two(s, 16) = u.s
    BY <1>2, <1>5, <1>14, <1>15, SMT
<1>17. 100 * Two(s, 1) + Two(s, 3) = date.y
    <2> DEFINE y == date.y
    <2> HIDE DEF y
    <2>1. y \in Nat /\ s[1] = y \div 1000 /\ s[2] = (y \div 100) % 10 /\ s[3] = (y \div 10) % 10 /\ s[4] = y % 10
        BY <1>2, <1>15, SMT DEF YearAt, y
    <2>2. Two(s, 1) = 10 * s[1] + s[2] /\ Two(s, 3) = 10 * s[3] + s[4]
        BY SMT DEF Two
    <2>3. 100 * (10 * (y \div 1000) + ((y \div 100) % 10)) + (10 * ((y \div 10) % 10) + (y % 10)) = y
        BY <2>1, SMT
    <2>4. 100 * Two(s, 1) + Two(s, 3) = y
        BY <2>1, <2>2, <2>3, SMT
    <2> QED BY <2>4 DEF y
<1>18. Three(s, 19) = Three(d9, 1) /\ Three(s, 22) = Three(d9, 4) /\ Three(s, 25) = Three(d9, 7)
    BY <1>13, SMT DEF Three, Two
<1>19. p \o d6 = SubSeq(s, 1, 24) /\ p \o d3 = SubSeq(s, 1, 21)
    <2>1. Starts(d6, d9, 6, 9) /\ Starts(d3, d9, 3, 9) /\ Text(p, 18)
        BY <1>7, <1>8, <1>10, SMT DEF Starts
    <2>2. Cuts(p \o d6, p \o d9, 18, 6) /\ Cuts(p \o d3, p \o d9, 18, 3)
        BY <2>1, CutOff, Zenon
    <2> QED BY <1>10, <2>2, SMT DEF Cuts
<1>20. [y |-> 100 * Two(s, 1) + Two(s, 3), m |-> Two(s, 5), d |-> Two(s, 7)] = date
    BY <1>2, <1>16, <1>17, SMT
<1>21. Two(s, 13) < 60 /\ Two(s, 16) < 60
    BY <1>5, <1>16, SMT
<1>22. 3600 * Two(s, 10) + 60 * Two(s, 13) + Two(s, 16) = t.sec
    BY <1>5, <1>16, SMT
<1>23. 1000000 * Three(s, 19) + 1000 * Three(s, 22) + Three(s, 25) = t.frac
    BY <1>8, <1>18, SMT
<1>24. to_fix_timestamp_ns(at) = s
    BY <1>6
<1>25. to_fix_timestamp_us(at) = SubSeq(s, 1, 24) /\ to_fix_timestamp(at) = SubSeq(s, 1, 21)
    BY <1>10, <1>19, SMT
<1> QED BY <1>20, <1>21, <1>22, <1>23, <1>24, <1>25, SMT DEF at

\* Every timestamp, at every precision, says the day and the time it was taken at,
\* on every day from the first of any year on, with no bound on the days.
THEOREM TimestampsAreCivil == Spec => []TimestampIsCivil
<1>1. Init => CalendarInv
    <2> SUFFICES ASSUME Init PROVE CalendarInv
        OBVIOUS
    <2>1. PICK y \in FirstYears : day = DaysBefore(y) /\ date = [y |-> y, m |-> 1, d |-> 1]
        BY SMT DEF Init
    <2>2. y \in Nat /\ y >= 1970
        BY TelemetryAssumption, SMT
    <2>3. DaysIn(y, 1) = 31
        BY SMT DEF DaysIn
    <2>4. Valid(date)
        BY <2>1, <2>2, <2>3, SMT DEF Valid, Dates
    <2> QED BY <2>1, <2>2, <2>4, YearBegins, SMT DEF CalendarInv
<1>2. CalendarInv /\ [Next]_vars => CalendarInv'
    <2> SUFFICES ASSUME CalendarInv, [Next]_vars PROVE CalendarInv'
        OBVIOUS
    <2>1. CASE Midnight
        <3>1. day' = day + 1 /\ date' = Tomorrow(date)
            BY <2>1, Zenon DEF Midnight
        <3> QED BY <3>1, TomorrowIsNext, SMT DEF CalendarInv
    <2>2. CASE ~Midnight
        <3>1. day' = day /\ date' = date
            BY <2>2, Zenon DEF Next, vars, calendar, Advance, SetWall, HrClock_new, Calibrate, Reads,
               ReadTsc0, ReadTsc1, ReadElapsed, ReadTscNow, ReadWall, StartTimer, StopTimer,
               RecordLatency, DropTimer, Track, Update, Scrape
        <3> QED BY <3>1, SMT DEF CalendarInv
    <2> QED BY <2>1, <2>2
<1>3. CalendarInv => TimestampIsCivil
    BY Formatted, SMT DEF TimestampIsCivil
<1> QED BY <1>1, <1>2, <1>3, PTL DEF Spec

-----------------------------------------------------------------------------
(* What a scrape reads                                                     *)

Whats == {"get", "lock", "p50", "p90", "p99", "p999", "count", "sum", "unlock"}
Readings == [of : STRING, what : Whats]
Parts == Seq(Readings) \ {<<>>}

\* The plan is a sequence of parts, and what has been read a sequence.
ScrapeInv == plan \in Seq(Parts) /\ out \in Seq(ToSet(out))

\* The steps of the program that change a metric, and those of the scraper.
MetricStep ==
    \/ \E c \in ToSet(Counters) : (\E n \in 1 .. 2 : inc_by(c, n)) \/ counter_reset(c)
    \/ \E g \in ToSet(Gauges) : gauge_inc(g) \/ gauge_dec(g) \/ gauge_set(g, 2)
    \/ \E h \in ToSet(Histograms) : histogram_reset(h)
    \/ \E h \in ToSet(Histograms) : record(h, tracker.got)

\* A step of the program is one of these, or leaves the metrics and the scrape alone.
LEMMA Steps ==
    ASSUME [Next]_vars
    PROVE  MetricStep \/ snapshot \/ render_prometheus \/ ScrapeStep \/ UNCHANGED mvars
<1>1. CASE RecordLatency
    BY <1>1, Zenon DEF RecordLatency, MetricStep
<1>2. CASE Update
    BY <1>2, Zenon DEF Update, MetricStep
<1>3. CASE Scrape
    BY <1>3, Zenon DEF Scrape
<1>4. CASE ~RecordLatency /\ ~Update /\ ~Scrape
    BY <1>4, Zenon DEF Next, vars, Midnight, Advance, SetWall, HrClock_new, Calibrate, Reads,
       ReadTsc0, ReadTsc1, ReadElapsed, ReadTscNow, ReadWall, StartTimer, StopTimer,
       DropTimer, Track
<1> QED BY <1>1, <1>2, <1>3, <1>4

\* What an update leaves alone.
LEMMA UpdateKeeps ==
    ASSUME MetricStep
    PROVE  UNCHANGED <<locked, plan, out>>
BY Zenon DEF MetricStep, inc_by, counter_reset, SetCounter, gauge_inc, gauge_dec, gauge_set,
   SetGauge, histogram_reset, record

\* A function on the first n numbers is a sequence.
LEMMA FunctionIsSeq ==
    ASSUME NEW S, NEW n \in Nat, NEW f \in [1 .. n -> S]
    PROVE  f \in Seq(S)
BY SeqDef, Zenon

\* The plans are made of parts.
LEMMA PlansOfParts == SnapshotPlan \in Seq(Parts) /\ RenderPlan \in Seq(Parts)
<1>0. /\ \A a \in Readings : <<a>> \in Parts
      /\ \A a, b \in Readings : <<a, b>> \in Parts
      /\ \A a, b, c, d, e, f, g, h \in Readings : <<a, b, c, d, e, f, g, h>> \in Parts
    BY SMT DEF Parts
<1>1. \A n \in STRING : Line(n) \in Parts /\ Summary(n) \in Parts
                        /\ <<Reading(n, "p50"), Reading(n, "p99")>> \in Parts
    <2> TAKE n \in STRING
    <2>1. \A w \in Whats : Reading(n, w) \in Readings
        BY SMT DEF Readings, Reading
    <2>2. /\ "get" \in Whats /\ "lock" \in Whats /\ "unlock" \in Whats /\ "p50" \in Whats
          /\ "p90" \in Whats /\ "p99" \in Whats /\ "p999" \in Whats /\ "count" \in Whats
          /\ "sum" \in Whats
        BY Zenon DEF Whats
    <2>3. /\ Reading(n, "get") \in Readings /\ Reading(n, "lock") \in Readings
          /\ Reading(n, "unlock") \in Readings /\ Reading(n, "p50") \in Readings
          /\ Reading(n, "p90") \in Readings /\ Reading(n, "p99") \in Readings
          /\ Reading(n, "p999") \in Readings /\ Reading(n, "count") \in Readings
          /\ Reading(n, "sum") \in Readings
        BY <2>1, <2>2, Zenon
    <2>4. Line(n) \in Parts
        BY <1>0, <2>3, Zenon DEF Line
    <2>5. Summary(n) \in Parts
        BY <1>0, <2>3, Zenon DEF Summary
    <2>6. <<Reading(n, "p50"), Reading(n, "p99")>> \in Parts
        BY <1>0, <2>3, Zenon
    <2> QED BY <2>4, <2>5, <2>6
<1> DEFINE tail == [i \in 1 .. Len(Histograms) |-> <<Reading(Histograms[i], "p50"), Reading(Histograms[i], "p99")>>]
<1>2. \A s \in Seq(STRING) : Len(s) \in Nat /\ \A i \in 1 .. Len(s) : s[i] \in STRING
    BY LenProperties, ElementOfSeq, Zenon
<1>3. \A s \in Seq(STRING) : Lines(s) \in Seq(Parts)
    <2> TAKE s \in Seq(STRING)
    <2>1. Lines(s) \in [1 .. Len(s) -> Parts]
        BY <1>1, <1>2, Zenon DEF Lines
    <2> QED BY <1>2, <2>1, FunctionIsSeq, Zenon
<1>4. tail \in Seq(Parts)
    <2>1. tail \in [1 .. Len(Histograms) -> Parts]
        BY <1>1, <1>2, MetricsAssumption, Zenon
    <2> HIDE DEF tail
    <2> QED BY <1>2, <2>1, MetricsAssumption, FunctionIsSeq, Zenon
<1>5. SnapshotPlan = (Lines(Counters) \o Lines(Gauges)) \o tail
    BY Zenon DEF SnapshotPlan
<1> HIDE DEF tail
<1>6. SnapshotPlan \in Seq(Parts)
    BY <1>3, <1>4, <1>5, MetricsAssumption, ConcatProperties, Zenon
<1>7. RenderPlan \in Seq(Parts)
    <2>1. RenderPlan \in [1 .. Len(RenderOrder) -> Parts]
        BY <1>1, <1>2, MetricsAssumption, Zenon DEF RenderPlan
    <2> QED BY <1>2, <2>1, MetricsAssumption, FunctionIsSeq, Zenon
<1> QED BY <1>6, <1>7

\* What is due, and what is left of a plan.
LEMMA DueFacts ==
    ASSUME plan \in Seq(Parts), plan # <<>>
    PROVE  AfterDue \in Seq(Parts) /\ Due \in Readings
<1> DEFINE p == Head(plan)
<1>1. p \in Parts /\ p = plan[1] /\ Tail(plan) \in Seq(Parts) /\ Len(plan) \in Nat \ {0}
      /\ Len(Tail(plan)) = Len(plan) - 1 /\ \A i \in 1 .. Len(Tail(plan)) : Tail(plan)[i] = plan[i + 1]
    <2>1. /\ p \in Parts /\ Tail(plan) \in Seq(Parts)
          /\ Len(Tail(plan)) = Len(plan) - 1 /\ \A i \in 1 .. Len(Tail(plan)) : Tail(plan)[i] = plan[i + 1]
        BY HeadTailProperties, Zenon
    <2>2. Len(plan) \in Nat \ {0}
        BY EmptySeq, Zenon
    <2> QED BY <2>1, <2>2
<1>2. p \in Seq(Readings) /\ p # <<>>
    BY <1>1, Zenon DEF Parts
<1> HIDE DEF p
<1>3. Head(p) \in Readings /\ Head(p) = p[1] /\ Tail(p) \in Seq(Readings) /\ Len(p) \in Nat \ {0}
      /\ Len(Tail(p)) = Len(p) - 1 /\ \A i \in 1 .. Len(Tail(p)) : Tail(p)[i] = p[i + 1]
    <2>1. /\ Head(p) \in Readings /\ Tail(p) \in Seq(Readings)
          /\ Len(Tail(p)) = Len(p) - 1 /\ \A i \in 1 .. Len(Tail(p)) : Tail(p)[i] = p[i + 1]
        BY <1>2, HeadTailProperties, Zenon
    <2>2. Len(p) \in Nat \ {0}
        BY <1>2, EmptySeq, Zenon
    <2>3. Head(p) = p[1]
        BY <1>2
    <2> QED BY <2>1, <2>2, <2>3
<1>4. Due = p[1] /\ AfterDue = IF Len(p) = 1 THEN Tail(plan) ELSE [plan EXCEPT ![1] = Tail(p)]
    BY <1>1, <1>3, SMT DEF Due, AfterDue, p
<1>7. CASE Len(p) = 1
    <2>1. AfterDue = Tail(plan)
        BY <1>4, <1>7
    <2> QED BY <1>1, <1>3, <1>4, <2>1, Zenon
<1>8. CASE Len(p) # 1
    <2> DEFINE q == [plan EXCEPT ![1] = Tail(p)]
    <2>1. AfterDue = q
        BY <1>4, <1>8
    <2>2. Tail(p) \in Parts
        <3>1. Len(Tail(p)) # 0
            BY <1>3, <1>8, SMT
        <3> QED BY <1>3, <3>1, EmptySeq, Zenon DEF Parts
    <2>3. /\ q \in Seq(Parts) /\ Len(q) = Len(plan)
          /\ \A j \in 1 .. Len(plan) : q[j] = IF j = 1 THEN Tail(p) ELSE plan[j]
        <3>1. 1 \in 1 .. Len(plan)
            BY <1>1, SMT
        <3> HIDE DEF q
        <3>2. q = [plan EXCEPT ![1] = Tail(p)]
            BY Zenon DEF q
        <3> QED BY <2>2, <3>1, <3>2, ExceptSeq, SMT
    <2> QED BY <1>3, <1>4, <2>1, <2>3, Zenon
<1> QED BY <1>7, <1>8

\* A sequence is one of its own elements.
LEMMA OwnSeq ==
    ASSUME NEW S, NEW o \in Seq(S)
    PROVE  o \in Seq(ToSet(o))
<1>1. Len(o) \in Nat /\ DOMAIN o = 1 .. Len(o) /\ o \in [1 .. Len(o) -> S]
    BY LenProperties, Zenon
<1>2. o \in [1 .. Len(o) -> ToSet(o)]
    BY <1>1, Zenon DEF ToSet
<1> QED BY <1>1, <1>2, FunctionIsSeq, Zenon

\* ScrapeInv is inductive.
LEMMA ScrapeStepInv ==
    ASSUME ScrapeInv, [Next]_vars
    PROVE  ScrapeInv'
<1>1. CASE MetricStep
    BY <1>1, UpdateKeeps, Zenon DEF ScrapeInv, ToSet
<1>2. CASE snapshot \/ render_prometheus
    <2>1. plan' \in {SnapshotPlan, RenderPlan} /\ out' = <<>>
        BY <1>2, Zenon DEF snapshot, render_prometheus, Begin
    <2> QED BY <2>1, PlansOfParts, EmptySeq, Zenon DEF ScrapeInv
<1>3. CASE ScrapeStep
    <2>1. plan # <<>> /\ plan' = AfterDue
        BY <1>3, Zenon DEF ScrapeStep, TakeLock, ReadFigure, ReleaseLock
    <2>2. plan' \in Seq(Parts)
        BY <2>1, DueFacts, Zenon DEF ScrapeInv
    <2>3. CASE ReadFigure
        <3> DEFINE e == [of |-> Due, is |-> Value(Due)]
        <3>1. out' = Append(out, e)
            BY <2>3, Zenon DEF ReadFigure
        <3> HIDE DEF e
        <3>2. out' \in Seq(ToSet(out) \union {e})
            BY <3>1, SeqMonotonic, AppendProperties, Zenon DEF ScrapeInv
        <3>3. out' \in Seq(ToSet(out'))
            BY <3>2, OwnSeq, Zenon
        <3> QED BY <2>2, <3>3, Zenon DEF ScrapeInv, ToSet
    <2>4. CASE ~ReadFigure
        <3>1. out' = out
            BY <1>3, <2>4, Zenon DEF ScrapeStep, TakeLock, ReleaseLock
        <3> QED BY <2>2, <3>1, Zenon DEF ScrapeInv, ToSet
    <2> QED BY <2>3, <2>4
<1>4. CASE UNCHANGED mvars
    BY <1>4, Zenon DEF ScrapeInv, ToSet, mvars
<1> QED BY <1>1, <1>2, <1>3, <1>4, Steps

\* The first state.
LEMMA ScrapeInit == Init => ScrapeInv
BY EmptySeq, Zenon DEF ScrapeInv, Init, MetricsInit

-----------------------------------------------------------------------------
(* The clocks                                                              *)

TscAt(t) == TscStart + Ticks(t)

\* What a clock that counts ticks shows after t nanoseconds.
Shows(t) == (tsc_to_nanos(TscAt(t), clock.freq) + clock.offset) % Modulus

Half == Modulus \div 2

\* How far the system clock can be set forwards with source s.
Room(s) == Half - 1 - WallStart - MaxTime[s]

ClockTypes ==
    /\ pc \in {"off", "tsc0", "tsc1", "elapsed", "tsc_now", "wall", "up"}
    /\ source \in TimestampSource
    /\ now \in Nat /\ moved \in Int /\ steps \in Nat /\ steps <= MaxWallSteps
    /\ cal \in [tsc0 : Nat, tsc1 : Nat, elapsed : Nat, tsc_now : Nat, counted : Nat]
    /\ clock \in [source : TimestampSource, freq : Nat, offset : Nat]
    /\ tracker \in [at : {"idle", "timing", "timed"}, start : Int, began : Nat, got : Nat, true : Nat]

\* The system clock stays within what it may be set forwards to.
WallInv ==
    /\ steps = 0 => moved = 0
    /\ \A s \in Sources : MaxWallSteps * moved <= steps * Room(s)

StageInv ==
    /\ pc = "off" => now = 0 /\ tracker.at = "idle"
    /\ pc # "off" => source \in Sources /\ now <= MaxTime[source] /\ clock.source = source
    /\ pc \notin {"off", "up"} => source = "Tsc"
    /\ tracker.at # "idle" => pc = "up"

\* The readings of the calibration that have been made.
Counting == pc \in {"elapsed", "tsc_now", "wall"} \/ (pc = "up" /\ source = "Tsc")
Timed == pc \in {"tsc_now", "wall"} \/ (pc = "up" /\ source = "Tsc")
Synced == pc = "wall" \/ (pc = "up" /\ source = "Tsc")

Counts == cal.tsc1 - cal.tsc0

CalInv ==
    /\ pc = "tsc1" => cal.counted <= now /\ cal.tsc0 = TscAt(cal.counted)
    /\ Counting =>
          /\ Counts \in Nat /\ Counts < Modulus
          /\ cal.counted * TscHz < Counts * NanosPerSec + NanosPerSec
    /\ pc = "elapsed" => now >= 1 /\ Counts * NanosPerSec <= now * TscHz
    /\ Timed => cal.elapsed >= 1 /\ Counts * NanosPerSec <= cal.elapsed * TscHz
    /\ Synced => TscStart <= cal.tsc_now /\ cal.tsc_now <= TscAt(now)
    /\ pc = "up" /\ source = "Tsc" =>
          /\ clock.freq = calibrate_tsc
          /\ \E wall \in 0 .. Half - 1 :
                clock.offset = (wall - tsc_to_nanos(cal.tsc_now, clock.freq)) % Modulus

TrackerInv ==
    tracker.at = "timing" =>
        /\ tracker.began <= now
        /\ source = "Tsc" =>
              cal.tsc_now <= TscAt(tracker.began) /\ tracker.start = Shows(tracker.began)

ClockInv == ClockTypes /\ WallInv /\ StageInv /\ CalInv /\ TrackerInv /\ LatencyTrue

\* A quotient, and a remainder that is its own.
LEMMA Quotient ==
    ASSUME NEW x \in Nat, NEW d \in Nat \ {0}
    PROVE  /\ x \div d \in Nat /\ d * (x \div d) <= x /\ x < d * (x \div d) + d
           /\ x % d \in Nat /\ x % d < d /\ (x < d => x % d = x)
BY SMT

\* The order of products.
LEMMA Times0 ==
    ASSUME NEW a \in Int, NEW b \in Int, NEW c \in Nat
    PROVE  /\ a <= b => a * c <= b * c
           /\ a * c \in Int /\ b * c \in Int /\ (a + 1) * c = a * c + c
           /\ a - b \in Int /\ (a - b) * c = a * c - b * c /\ a * c = c * a
<1>1. a * c \in Int /\ b * c \in Int /\ (a + 1) * c = a * c + c /\ a * c = c * a
      /\ (a - b) * c = a * c - b * c
    BY SMT
<1>2. ASSUME a <= b PROVE a * c <= b * c
    <2>1. b - a \in Nat /\ (b - a) * c = b * c - a * c
        BY <1>2, SMT
    <2>2. (b - a) * c >= 0
        BY <2>1, SMT
    <2> QED BY <1>1, <2>1, <2>2, SMT
<1> QED BY <1>1, <1>2

\* The counter only grows.
LEMMA TicksFacts ==
    ASSUME NEW t \in Nat
    PROVE  /\ Ticks(t) \in Nat /\ Ticks(t) * NanosPerSec <= t * TscHz
           /\ t * TscHz < Ticks(t) * NanosPerSec + NanosPerSec
           /\ \A s \in Nat : s <= t => Ticks(s) <= Ticks(t)
<1> USE TimestampAssumption, TelemetryAssumption
<1>1. NanosPerSec \in Nat \ {0} /\ TscHz \in Nat \ {0}
    OBVIOUS
<1> DEFINE N == NanosPerSec
           H == TscHz
<1> HIDE TimestampAssumption, TelemetryAssumption
<1>2. \A s \in Nat : Ticks(s) \in Nat /\ Ticks(s) * N <= s * H /\ s * H < Ticks(s) * N + N
    <2> TAKE s \in Nat
    <2> DEFINE x == s * H
    <2>1. x \in Nat
        BY <1>1
    <2>2. Ticks(s) = x \div N
        BY Zenon DEF Ticks
    <2> HIDE DEF x
    <2>3. /\ x \div N \in Nat /\ N * (x \div N) <= x /\ x < N * (x \div N) + N
        BY <1>1, <2>1, Quotient
    <2> HIDE DEF N, H
    <2>4. Ticks(s) \in Nat /\ N * Ticks(s) <= x /\ x < N * Ticks(s) + N
        BY <2>2, <2>3
    <2> QED BY <1>1, <2>1, <2>4, SMT DEF x, N
<1>3. ASSUME NEW s \in Nat, s <= t PROVE Ticks(s) <= Ticks(t)
    <2> DEFINE p == Ticks(s)
               q == Ticks(t)
    <2>1. p \in Nat /\ q \in Nat /\ p * N <= s * H /\ t * H < q * N + N
        BY <1>2
    <2>2. s * H <= t * H /\ s * H \in Int /\ t * H \in Int
        BY <1>1, <1>3, Times0
    <2> HIDE DEF p, q, N, H
    <2>3. N \in Nat /\ N \in Nat \ {0}
        BY <1>1 DEF N
    <2>4. ASSUME q + 1 <= p PROVE FALSE
        <3>1. (q + 1) * N <= p * N /\ (q + 1) * N = q * N + N /\ q * N \in Int /\ p * N \in Int
            BY <2>1, <2>3, <2>4, Times0, SMT
        <3> QED BY <2>1, <2>2, <2>3, <3>1, SMT
    <2>5. p <= q
        BY <2>1, <2>4, SMT
    <2> QED BY <2>5 DEF p, q
<1> QED BY <1>2, <1>3

\* The counter over an interval is off by less than a tick.
LEMMA TicksBetween ==
    ASSUME NEW s \in Nat, NEW t \in Nat, s <= t
    PROVE  LET A == Ticks(t) - Ticks(s) IN
           /\ A \in Nat
           /\ (t - s) * TscHz < A * NanosPerSec + NanosPerSec
           /\ A * NanosPerSec < (t - s) * TscHz + NanosPerSec
<1> DEFINE p == Ticks(s)
           q == Ticks(t)
           N == NanosPerSec
           H == TscHz
<1>1. N \in Nat /\ H \in Nat
    BY TimestampAssumption, TelemetryAssumption
<1>2. /\ p \in Nat /\ q \in Nat /\ p <= q
      /\ p * N <= s * H /\ s * H < p * N + N /\ q * N <= t * H /\ t * H < q * N + N
    BY TicksFacts
<1> HIDE DEF p, q, N, H
<1>3. (t - s) * H = t * H - s * H /\ (q - p) * N = q * N - p * N
      /\ t * H \in Int /\ s * H \in Int /\ q * N \in Int /\ p * N \in Int /\ q - p \in Nat
    <2>1. q - p \in Nat /\ t - s \in Int
        BY <1>2, SMT
    <2> QED BY <1>1, <1>2, <2>1, Times0, SMT
<1>4. (t - s) * H < (q - p) * N + N /\ (q - p) * N < (t - s) * H + N
    BY <1>1, <1>2, <1>3, SMT
<1> QED BY <1>3, <1>4 DEF p, q, N, H

\* Two remainders that differ by a multiple of the modulus are the same.
LEMMA SameRemainder ==
    ASSUME NEW M \in Nat \ {0}, NEW u \in Nat, NEW v \in Nat, u < M, v < M, NEW k \in Int, u = v + k * M
    PROVE  u = v
<1>1. CASE k >= 1
    <2>1. 1 * M <= k * M /\ k * M \in Int
        BY <1>1, Times0, SMT
    <2> QED BY <2>1, SMT
<1>2. CASE k <= -1
    <2>1. k * M <= (-1) * M /\ k * M \in Int
        BY <1>2, Times0, SMT
    <2> QED BY <2>1, SMT
<1>3. CASE k = 0
    BY <1>3, SMT
<1> QED BY <1>1, <1>2, <1>3, SMT

\* A remainder, and how often the modulus was taken off.
LEMMA Remainder ==
    ASSUME NEW M \in Nat \ {0}, NEW x \in Int
    PROVE  \E k \in Int : x % M = x - k * M /\ x % M \in Nat /\ x % M < M
<1>1. x % M \in Nat /\ x % M < M /\ x \div M \in Int /\ x % M = x - M * (x \div M)
    BY SMT
<1>2. M * (x \div M) = (x \div M) * M
    BY <1>1, SMT
<1>3. x % M = x - (x \div M) * M
    BY <1>1, <1>2, Zenon
<1> QED BY <1>1, <1>3, Zenon

\* The time a clock shows, in the wrapping arithmetic of the code: it was set to w when
\* its ticks came to y nanoseconds, which are x now.
Wrapped(M, x, y, w) == ((x % M) + ((w - (y % M)) % M)) % M

\* Wrapping additions and subtractions give what fits.
LEMMA Wraps ==
    ASSUME NEW M \in Nat \ {0}, NEW x \in Nat, NEW y \in Nat, NEW w \in Int,
           NEW r \in Nat, r < M, r = w + x - y
    PROVE  Wrapped(M, x, y, w) = r
<1>0. x \in Int /\ y \in Int
    BY SMT
<1>1. PICK i \in Int : x % M = x - i * M /\ x % M \in Nat /\ x % M < M
    BY <1>0, Remainder, Zenon
<1>2. PICK j \in Int : y % M = y - j * M /\ y % M \in Nat /\ y % M < M
    BY <1>0, Remainder, Zenon
<1> DEFINE a == w - (y % M)
<1>3. a \in Int
    BY <1>2, SMT
<1> HIDE DEF a
<1>4. PICK k \in Int : a % M = a - k * M /\ a % M \in Nat /\ a % M < M
    BY <1>3, Remainder
<1> DEFINE b == (x % M) + (a % M)
<1>5. b \in Int
    BY <1>1, <1>4, SMT
<1> HIDE DEF b
<1>6. PICK l \in Int : b % M = b - l * M /\ b % M \in Nat /\ b % M < M
    BY <1>5, Remainder
<1>7. b % M = r + (j - i - k - l) * M
    <2>1. (j - i - k - l) * M = j * M - i * M - k * M - l * M
        BY SMT
    <2>2. j * M \in Int /\ i * M \in Int /\ k * M \in Int /\ l * M \in Int
        BY SMT
    <2>3. b % M = r - i * M + j * M - k * M - l * M
        <3> DEFINE xm == x % M
                   ym == y % M
                   am == a % M
                   bm == b % M
                   im == i * M
                   jm == j * M
                   km == k * M
                   lm == l * M
        <3>1. /\ xm = x - im /\ ym = y - jm /\ am = a - km /\ bm = b - lm
              /\ im \in Int /\ jm \in Int /\ km \in Int /\ lm \in Int
            BY <1>1, <1>2, <1>4, <1>6, <2>2, Zenon
        <3>2. a = w - ym /\ b = xm + am
            BY Zenon DEF a, b
        <3> HIDE DEF xm, ym, am, bm, im, jm, km, lm
        <3>3. bm = r - im + jm - km - lm
            BY <1>3, <1>5, <3>1, <3>2, SMTT(30)
        <3> QED BY <3>3, Zenon DEF bm, im, jm, km, lm
    <2> QED BY <2>1, <2>2, <2>3, SMT
<1>8. j - i - k - l \in Int
    BY SMT
<1>9. b % M = r
    BY <1>6, <1>7, <1>8, SameRemainder
<1> QED BY <1>9 DEF a, b, Wrapped

\* The nanoseconds between a and b ticks: N for NanosPerSec, f the frequency, x and y
\* the nanoseconds of a and b ticks.
LEMMA NanosBetween ==
    ASSUME NEW N \in Nat \ {0}, NEW f \in Nat \ {0},
           NEW a \in Nat, NEW b \in Nat, NEW x \in Nat, NEW y \in Nat, a <= b,
           f * x <= a * N, a * N < f * x + f, f * y <= b * N, b * N < f * y + f
    PROVE  /\ y - x \in Nat
           /\ (b - a) * N - f < (y - x) * f /\ (y - x) * f < (b - a) * N + f
<1> DEFINE g == y - x
           p == g * f
           q == (b - a) * N
<1>1. g \in Int /\ p \in Int /\ p = f * y - f * x /\ q = b * N - a * N /\ q \in Int
      /\ f * y \in Int /\ f * x \in Int /\ a * N \in Int /\ b * N \in Int
    BY SMT
<1>2. q >= 0
    <2>1. a * N <= b * N
        BY Times0
    <2> QED BY <1>1, <2>1, SMT
<1>3. q - f < p /\ p < q + f
    <2> HIDE DEF p, q, g
    <2> QED BY <1>1, SMT
<1> HIDE DEF g, p, q
<1>4. p = g * f /\ p = f * g
    BY <1>1, SMT DEF p
<1>5. g >= 0
    <2> SUFFICES ASSUME g <= -1 PROVE FALSE
        BY <1>1, SMT
    <2>1. g * f <= (-1) * f
        BY <1>1, Times0, SMT
    <2> QED BY <1>1, <1>2, <1>3, <1>4, <2>1, SMT
<1> QED BY <1>1, <1>3, <1>5, SMT DEF g, p, q

\* How far a latency of g nanoseconds, counted in A ticks, can be off when D passed: H
\* for TscHz.
LEMMA Measured ==
    ASSUME NEW N \in Nat \ {0}, NEW H \in Nat \ {0}, NEW f \in Nat \ {0}, f <= H,
           NEW A \in Nat, NEW D \in Nat, NEW g \in Nat,
           A * N - f < g * f, g * f < A * N + f,
           D * H < A * N + N, A * N < D * H + N,
           NEW G \in Nat, N <= G * H
    PROVE  g + G >= D /\ g * f <= (D + 1) * H + N
<1> DEFINE p == g * f
           q == A * N
<1>1. p \in Int /\ q \in Int /\ D * H \in Int /\ p = f * g /\ q - f < p /\ p < q + f
    BY SMT
<1>2. D * H < q + N /\ q < D * H + N
    OBVIOUS
<1>3. p <= H * g /\ H * g \in Int
    <2>1. f * g <= H * g /\ H * g \in Int
        BY Times0, SMT
    <2> QED BY <1>1, <2>1, SMT
<1> HIDE DEF p, q
<1>4. g + G >= D
    <2> SUFFICES ASSUME g + G + 1 <= D PROVE FALSE
        BY SMT
    <2>1. (g + G + 1) * H <= D * H
        BY Times0, SMT
    <2>2. (g + G + 1) * H = H * g + G * H + H /\ G * H \in Int
        BY SMT
    <2> QED BY <1>1, <1>2, <1>3, <2>1, <2>2, SMT
<1>5. p <= (D + 1) * H + N
    <2>1. (D + 1) * H = D * H + H
        BY SMT
    <2> QED BY <1>1, <1>2, <2>1, SMT
<1> QED BY <1>4, <1>5 DEF p

\* What the frequency adds to it: K ticks counted over c nanoseconds, e elapsed.
LEMMA Calibrated ==
    ASSUME NEW N \in Nat \ {0}, NEW H \in Nat \ {0}, NEW K \in Nat, NEW e \in Nat \ {0}, NEW c \in Nat,
           c * H < K * N + N, K * N <= e * H, NEW f, f = (K * N) \div e,
           NEW g \in Nat, NEW D \in Nat, g * f <= (D + 1) * H + N
    PROVE  /\ f \in Nat /\ f <= H
           /\ (f = 0 => c * H < e + N)
           /\ g * (c * H - e - N) <= e * ((D + 1) * H + N)
<1> DEFINE k == K * N
<1>1. k \in Nat
    BY SMT
<1> HIDE DEF k
<1>2. f \in Nat /\ e * f <= k /\ k < e * f + e
    BY <1>1, Quotient DEF k
<1>3. c * H \in Nat /\ c * H < k + N /\ k <= e * H /\ e * H \in Int /\ e * f \in Int
    <2>1. c * H \in Nat /\ e * H \in Int /\ e * f \in Int
        BY <1>2, SMT
    <2> QED BY <2>1 DEF k
<1>4. f <= H
    <2> SUFFICES ASSUME H + 1 <= f PROVE FALSE
        BY <1>2, SMT
    <2>1. (H + 1) * e <= f * e /\ (H + 1) * e = H * e + e /\ f * e = e * f /\ H * e = e * H
        BY <1>2, Times0, SMT
    <2> QED BY <1>2, <1>3, <2>1, SMT
<1>5. f = 0 => c * H < e + N
    <2> SUFFICES ASSUME f = 0 PROVE c * H < e + N
        OBVIOUS
    <2>1. e * f = 0
        BY SMT
    <2> QED BY <1>1, <1>2, <1>3, <2>1, SMT
<1> DEFINE P == c * H - e - N
           R == (D + 1) * H + N
<1>6. P \in Int /\ P <= e * f /\ R \in Nat
    <2>1. P \in Int /\ R \in Nat
        BY <1>3, SMT
    <2> QED BY <1>1, <1>2, <1>3, <2>1, SMT
<1> HIDE DEF P, R
<1>7. g * P <= g * (e * f)
    <2>1. P * g <= (e * f) * g
        BY <1>3, <1>6, Times0
    <2> QED BY <1>2, <1>3, <1>6, <2>1, SMT
<1>8. g * (e * f) = (g * f) * e
    BY <1>2, SMT
<1>9. (g * f) * e <= R * e
    <2>1. g * f \in Int /\ g * f <= R
        BY <1>2, SMT DEF R
    <2> QED BY <1>6, <2>1, Times0
<1>10. g * P <= e * R
    <2>1. g * P \in Int /\ (g * f) * e \in Int /\ R * e \in Int /\ R * e = e * R
        BY <1>2, <1>6, SMT
    <2> QED BY <1>7, <1>8, <1>9, <2>1, SMT
<1> QED BY <1>2, <1>4, <1>5, <1>10 DEF P, R

\* What is assumed of the clocks.
LEMMA Constants ==
    /\ NanosPerSec \in Nat \ {0} /\ TscHz \in Nat \ {0} /\ Modulus \in Nat \ {0} /\ CalDuration \in Nat \ {0}
    /\ TscStart \in Nat /\ WallStart \in Int /\ MaxWallSteps \in Nat
    /\ Sources \subseteq TimestampSource
    /\ Half \in Nat \ {0} /\ 2 * Half <= Modulus
    /\ \A s \in Sources : MaxTime[s] \in Nat /\ TscStart + Ticks(MaxTime[s]) < Modulus
    /\ \A w \in WallSteps : w \in Int
    /\ \A s \in Sources : \A w \in WallSteps \union {0} :
          WallStart + MaxWallSteps * w + MaxTime[s] < Half
<1>1. /\ NanosPerSec \in Nat \ {0} /\ TscHz \in Nat \ {0} /\ Modulus \in Nat \ {0} /\ CalDuration \in Nat \ {0}
      /\ TscStart \in Nat /\ WallStart \in Int /\ MaxWallSteps \in Nat /\ Modulus >= 2 /\ Sources \subseteq TimestampSource
      /\ \A s \in Sources : MaxTime[s] \in Nat /\ TscStart + Ticks(MaxTime[s]) < Modulus
      /\ \A w \in WallSteps : w \in Int
    BY TelemetryAssumption, TimestampAssumption, SMT
<1>2. Half \in Nat \ {0} /\ 2 * Half <= Modulus
    BY <1>1, SMT DEF Half
<1>3. \A s \in Sources : \A w \in WallSteps \union {0} :
          WallStart + MaxWallSteps * w + MaxTime[s] < Half
    BY TelemetryAssumption, Zenon DEF Half
<1> QED BY <1>1, <1>2, <1>3, Zenon

\* What the system clock shows: the epoch at least.
LEMMA WallShows ==
    ASSUME ClockTypes
    PROVE  LET v == WallStart + now + moved IN
           v \in Int /\ Wall = (IF v > 0 THEN v ELSE 0) /\ Wall \in Nat
<1> DEFINE v == WallStart + now + moved
<1>1. now \in Nat /\ moved \in Int /\ WallStart \in Int
    BY Constants, Zenon DEF ClockTypes
<1>2. v \in Int
    BY <1>1, SMT
<1>3. Wall = Max({0, v})
    BY Zenon DEF Wall
<1> HIDE DEF v
<1>4. Wall = IF v > 0 THEN v ELSE 0
    BY <1>2, <1>3, SMT DEF Max
<1>5. Wall \in Nat
    BY <1>2, <1>4, SMT
<1> QED BY <1>2, <1>4, <1>5 DEF v

\* The system clock stays in the first half.
LEMMA WallFits ==
    ASSUME ClockTypes, WallInv, NEW s \in Sources, now <= MaxTime[s]
    PROVE  Wall \in Nat /\ Wall < Half
<1> DEFINE M == MaxWallSteps
           T == MaxTime[s]
           R == Room(s)
           W == WallStart
<1>1. T \in Nat /\ M \in Nat /\ W \in Int /\ Half \in Nat \ {0}
    BY Constants, Zenon
<1>3. W + M * 0 + T < Half
    BY Constants, Zenon
<1>4. now \in Nat /\ moved \in Int /\ steps \in Nat /\ steps <= M
    BY Zenon DEF ClockTypes
<1>5. (steps = 0 => moved = 0) /\ M * moved <= steps * R
    BY Zenon DEF WallInv
<1>6. R = Half - 1 - W - T
    BY Zenon DEF Room
<1>7. Wall \in Nat /\ Wall = (IF W + now + moved > 0 THEN W + now + moved ELSE 0) /\ now <= T
    BY WallShows, Zenon
<1> HIDE DEF M, T, R, W
<1>8. R \in Nat
    BY <1>1, <1>3, <1>6, SMT
<1>9. moved <= R
    <2>1. CASE steps = 0
        BY <1>1, <1>5, <1>8, <2>1, SMT
    <2>2. CASE steps # 0
        <3>1. M \in Nat \ {0}
            BY <1>1, <1>4, <2>2, SMT
        <3>2. steps * R <= M * R
            BY <1>1, <1>4, <1>8, Times0, SMT
        <3>3. M * R \in Int /\ M * moved \in Int /\ steps * R \in Int
            BY <1>1, <1>4, <1>8, SMT
        <3> SUFFICES ASSUME R + 1 <= moved PROVE FALSE
            BY <1>4, <1>8, SMT
        <3>4. (R + 1) * M <= moved * M
            BY <1>1, <1>4, <1>8, Times0, SMT
        <3>5. (R + 1) * M = M * R + M /\ moved * M = M * moved
            BY <1>1, <1>4, <1>8, SMT
        <3> QED BY <1>5, <3>1, <3>2, <3>3, <3>4, <3>5, SMT
    <2> QED BY <2>1, <2>2
<1>10. Wall \in Nat /\ Wall < Half
    BY <1>1, <1>4, <1>6, <1>7, <1>8, <1>9, SMT
<1> QED BY <1>10

\* Setting the system clock once more keeps it within its bounds.
LEMMA WallSet ==
    ASSUME ClockTypes, WallInv, steps < MaxWallSteps, NEW w \in WallSteps,
           moved' = moved + w, steps' = steps + 1
    PROVE  WallInv' /\ moved' \in Int /\ steps' \in Nat /\ steps' <= MaxWallSteps
<1> DEFINE M == MaxWallSteps
           W == WallStart
<1>1. M \in Nat /\ W \in Int /\ w \in Int /\ Half \in Nat
      /\ moved \in Int /\ steps \in Nat
    <2>1. moved \in Int /\ steps \in Nat
        BY Zenon DEF ClockTypes
    <2> QED BY <2>1, Constants, Zenon
<1> HIDE DEF M, W
<1>4. ASSUME NEW s \in Sources PROVE M * (moved + w) <= (steps + 1) * Room(s)
    <2> DEFINE T == MaxTime[s]
               R == Room(s)
    <2>1. T \in Nat
        BY Constants, Zenon
    <2>2. W + M * w + T < Half
        BY Constants, Zenon DEF M, W
    <2>3. R = Half - 1 - W - T
        BY Zenon DEF Room, W
    <2>4. M * moved <= steps * R
        BY Zenon DEF WallInv, M
    <2> HIDE DEF T, R
    <2>5. M * w \in Int /\ M * moved \in Int /\ R \in Int
        BY <1>1, <2>1, <2>3, SMT
    <2>6. M * (moved + w) = M * moved + M * w /\ (steps + 1) * R = steps * R + R /\ steps * R \in Int
        BY <1>1, <2>5, SMT
    <2>7. M * w <= R
        BY <1>1, <2>1, <2>2, <2>3, <2>5, SMT
    <2>8. M * (moved + w) <= (steps + 1) * R
        BY <2>4, <2>5, <2>6, <2>7, SMT
    <2> QED BY <2>8 DEF R
<1>5. WallInv'
    <2>1. \A s \in Sources : M * moved' <= steps' * Room(s)
        BY <1>4, Zenon
    <2>2. ~(steps' = 0)
        BY <1>1, SMT
    <2> QED BY <2>1, <2>2, Zenon DEF WallInv, Room, M, W
<1>6. moved' \in Int /\ steps' \in Nat /\ steps' <= M
    BY <1>1, SMT DEF M
<1> QED BY <1>5, <1>6 DEF M

\* x nanoseconds are c ticks at a frequency of f.
Nanos(N, f, c, x) == c \in Nat /\ x \in Nat /\ f * x <= c * N /\ c * N < f * x + f

\* A clock was set to w nanoseconds, in the first half, at c ticks, and has not counted
\* the other half at b.
Fits(M, N, f, w, c, b) ==
    /\ M \in Nat \ {0} /\ N \in Nat \ {0} /\ f \in Nat \ {0} /\ w \in Nat
    /\ c <= b /\ 2 * w < M /\ 2 * ((b - c) * N + f) <= M * f

\* What it shows then.
LEMMA Shown ==
    ASSUME NEW M, NEW N, NEW f, NEW w, NEW c, NEW b, NEW x, NEW y,
           Fits(M, N, f, w, c, b), Nanos(N, f, c, x), Nanos(N, f, b, y)
    PROVE  Wrapped(M, y, x, w) = w + (y - x)
<1>0. /\ M \in Nat \ {0} /\ N \in Nat \ {0} /\ f \in Nat \ {0} /\ w \in Nat /\ c \in Nat /\ b \in Nat
      /\ c <= b /\ 2 * w < M /\ 2 * ((b - c) * N + f) <= M * f
    BY DEF Fits, Nanos
<1>1. x \in Nat /\ f * x <= c * N /\ c * N < f * x + f /\ y \in Nat /\ f * y <= b * N /\ b * N < f * y + f
    BY DEF Nanos
<1> DEFINE g == y - x
           q == (b - c) * N
<1>2. g \in Nat /\ g * f < q + f
    BY <1>0, <1>1, NanosBetween
<1>3. q \in Int
    BY <1>0, SMT
<1>4. 2 * (q + f) <= M * f
    BY <1>0
<1> HIDE DEF g, q
<1>5. 2 * g < M
    <2> SUFFICES ASSUME M <= 2 * g PROVE FALSE
        BY <1>0, <1>2, SMT
    <2>1. M * f <= (2 * g) * f
        BY <1>0, <1>2, Times0, SMT
    <2>2. (2 * g) * f = 2 * (g * f) /\ g * f \in Int /\ M * f \in Int
        BY <1>0, <1>2, SMT
    <2> QED BY <1>0, <1>2, <1>3, <1>4, <2>1, <2>2, SMT
<1> DEFINE r == w + (y - x)
<1>6. r \in Nat /\ r < M /\ r = w + y - x /\ w \in Int
    BY <1>0, <1>1, <1>2, <1>5, SMT DEF g
<1> HIDE DEF r
<1>7. Wrapped(M, y, x, w) = r
    BY <1>0, <1>1, <1>6, Wraps
<1> QED BY <1>7, Zenon DEF r

\* The types of what a clock shows.
LEMMA ShownTypes ==
    ASSUME ClockInv
    PROVE  /\ read_tsc = TscAt(now) /\ TscAt(now) \in Nat /\ TscStart <= TscAt(now)
           /\ Wall \in Int
           /\ \A t \in Nat : Shows(t) \in Nat
           /\ pc = "up" => HrClock_now(clock, read_tsc, Wall) = IF source = "Tsc" THEN Shows(now) ELSE Wall
<1>1. now \in Nat /\ moved \in Int /\ clock.freq \in Nat /\ clock.offset \in Nat
    BY SMT DEF ClockInv, ClockTypes
<1>2. read_tsc = TscAt(now)
    BY Zenon DEF read_tsc, TscAt
<1>3. \A t \in Nat : TscAt(t) \in Nat /\ TscStart <= TscAt(t)
    <2> TAKE t \in Nat
    <2>1. Ticks(t) \in Nat /\ TscStart \in Nat
        BY TicksFacts, Constants, Zenon
    <2> QED BY <2>1, SMT DEF TscAt
<1>4. Wall \in Int
    BY WallShows, SMT DEF ClockInv
<1>5. \A t \in Nat : Shows(t) \in Nat
    <2> TAKE t \in Nat
    <2> DEFINE n == tsc_to_nanos(TscAt(t), clock.freq)
    <2>1. n \in Nat
        <3> DEFINE x == TscAt(t) * NanosPerSec
                   f == clock.freq
        <3>1. x \in Nat
            <4> DEFINE y == TscAt(t)
            <4>1. y \in Nat
                BY <1>3
            <4> HIDE DEF y
            <4>2. y * NanosPerSec \in Nat
                BY <4>1, Constants, SMT
            <4> QED BY <4>2, Zenon DEF y
        <3>2. n = IF f = 0 THEN 0 ELSE (x \div f) % Modulus
            BY Zenon DEF tsc_to_nanos
        <3>3. f \in Nat /\ Modulus \in Nat \ {0}
            BY <1>1, Constants, Zenon
        <3> HIDE DEF x, f, n
        <3>4. f # 0 => x \div f \in Nat
            BY <3>1, <3>3, Quotient
        <3>5. f # 0 => (x \div f) % Modulus \in Nat
            BY <3>3, <3>4, Quotient
        <3> QED BY <3>2, <3>5, SMT
    <2>2. Shows(t) = (n + clock.offset) % Modulus
        BY Zenon DEF Shows
    <2> HIDE DEF n
    <2>3. n + clock.offset \in Nat /\ Modulus \in Nat \ {0}
        BY <1>1, <2>1, Constants, SMT
    <2> QED BY <2>2, <2>3, Quotient
<1>6. pc = "up" => HrClock_now(clock, read_tsc, Wall) = IF source = "Tsc" THEN Shows(now) ELSE Wall
    <2> SUFFICES ASSUME pc = "up" PROVE HrClock_now(clock, read_tsc, Wall) = IF source = "Tsc" THEN Shows(now) ELSE Wall
        OBVIOUS
    <2>1. clock.source = source
        BY Zenon DEF ClockInv, StageInv
    <2> QED BY <1>2, <2>1, Zenon DEF HrClock_now, HrTimestamp_now, Shows
<1> QED BY <1>1, <1>2, <1>3, <1>4, <1>5, <1>6

\* A latency measured with the counter.
LEMMA TscLatency ==
    ASSUME ClockInv, tracker.at = "timing", source = "Tsc"
    PROVE  LET got == elapsed_ns(Shows(now), tracker.start)
               D == now - tracker.began
           IN /\ got \in Nat /\ D \in Nat
              /\ \/ /\ got + Granule >= D
                    /\ got * (cal.counted * TscHz - cal.elapsed - NanosPerSec)
                          <= cal.elapsed * ((D + 1) * TscHz + NanosPerSec)
                 \/ /\ cal.counted * TscHz < cal.elapsed + NanosPerSec
                    /\ got = 0
                 \/ Overrun(now)
<1> DEFINE N == NanosPerSec
           H == TscHz
           M == Modulus
           f == clock.freq
           D == now - tracker.began
           a == TscAt(tracker.began)
           b == TscAt(now)
           c == cal.tsc_now
           e == cal.elapsed
           K == Counts
           got == elapsed_ns(Shows(now), tracker.start)
<1>1. N \in Nat \ {0} /\ H \in Nat \ {0} /\ M \in Nat \ {0} /\ TscStart \in Nat
    BY Constants, Zenon
<1>2. /\ pc = "up" /\ "Tsc" \in Sources /\ now <= MaxTime["Tsc"] /\ MaxTime["Tsc"] \in Nat
      /\ now \in Nat /\ tracker.began \in Nat /\ cal.tsc_now \in Nat /\ cal.counted \in Nat /\ cal.elapsed \in Nat
      /\ clock.freq \in Nat
    <2>1. pc = "up" /\ "Tsc" \in Sources /\ now <= MaxTime["Tsc"]
        BY Zenon DEF ClockInv, StageInv
    <2>2. now \in Nat /\ tracker.began \in Nat /\ cal.tsc_now \in Nat /\ cal.counted \in Nat /\ cal.elapsed \in Nat
          /\ clock.freq \in Nat
        BY SMT DEF ClockInv, ClockTypes
    <2> QED BY <2>1, <2>2, Constants, Zenon
<1>3. /\ K \in Nat /\ K < M /\ cal.counted * H < K * N + N /\ e >= 1 /\ K * N <= e * H
      /\ TscStart <= c /\ f = calibrate_tsc
    BY <1>2, Zenon DEF ClockInv, CalInv, Counting, Timed, Synced
<1>4. tracker.began <= now /\ c <= a /\ tracker.start = Shows(tracker.began)
    BY Zenon DEF ClockInv, TrackerInv
<1>5. /\ a \in Nat /\ b \in Nat /\ a <= b /\ D \in Nat
      /\ D * H < (b - a) * N + N /\ (b - a) * N < D * H + N
    <2>1. /\ Ticks(now) \in Nat /\ Ticks(tracker.began) \in Nat /\ Ticks(tracker.began) <= Ticks(now)
        BY <1>2, <1>4, TicksFacts, Zenon
    <2>2. /\ D * H < (Ticks(now) - Ticks(tracker.began)) * N + N
          /\ (Ticks(now) - Ticks(tracker.began)) * N < D * H + N
        BY <1>2, <1>4, TicksBetween, Zenon
    <2>3. b - a = Ticks(now) - Ticks(tracker.began) /\ a \in Nat /\ b \in Nat /\ a <= b /\ D \in Nat
        BY <1>1, <1>2, <1>4, <2>1, SMT DEF TscAt
    <2> HIDE DEF a, b, D
    <2> QED BY <2>2, <2>3, Zenon
<1>6. f = (K * N) \div e
    <2>1. K % M = K
        BY <1>1, <1>3, Quotient, Zenon
    <2>2. calibrate_tsc = IF e = 0 THEN N ELSE ((K % M) * N) \div e
        BY Zenon DEF calibrate_tsc, Frequency, Counts
    <2>3. e # 0
        BY <1>2, <1>3, SMT
    <2> QED BY <1>3, <2>1, <2>2, <2>3, Zenon
<1>7. \A t \in Nat : Shows(t) = ((IF f = 0 THEN 0 ELSE ((TscAt(t) * N) \div f) % M) + clock.offset) % M
    BY Zenon DEF Shows, tsc_to_nanos
<1>8. PICK wall \in 0 .. Half - 1 : clock.offset = (wall - tsc_to_nanos(c, f)) % M
    BY <1>2, Zenon DEF ClockInv, CalInv
<1>9. e \in Nat \ {0} /\ K * N <= e * H /\ cal.counted * H < K * N + N /\ cal.counted \in Nat
    <2>1. e \in Nat \ {0}
        BY <1>2, <1>3, SMT
    <2> QED BY <1>2, <1>3, <2>1, Zenon
<1> DEFINE k0 == cal.counted
           n == Ticks(now)
<1>10. wall \in Nat /\ 2 * wall < M
    <2>1. Half \in Nat /\ 2 * Half <= M
        BY Constants, Zenon
    <2> HIDE DEF M
    <2> QED BY <1>1, <2>1, SMT
<1>11. got \in Nat
    <2> DEFINE u == Shows(now)
               v == Shows(tracker.began)
    <2>1. u \in Nat /\ v \in Nat
        BY <1>2, ShownTypes, Zenon
    <2>2. got = IF u > v THEN u - v ELSE 0
        BY <1>4, Zenon DEF elapsed_ns
    <2> HIDE DEF u, v, got
    <2> QED BY <2>1, <2>2, SMT
<1>12. n \in Nat /\ b = TscStart + n
    BY <1>2, TicksFacts, Zenon DEF TscAt
<1>13. ASSUME f # 0, ~Overrun(now) PROVE 2 * (n * N + f) <= M * f
    <2>1. f > 0 /\ f \in Nat
        BY <1>2, <1>13, SMT
    <2>2. ~(2 * (n * N + f) > M * f)
        BY <1>13, <2>1, Zenon DEF Overrun
    <2> HIDE DEF n, N, f, M
    <2> QED BY <1>1, <1>12, <2>1, <2>2, SMT
<1> HIDE DEF K, c, e, f, N, H, M, k0, n
<1>14. CASE f = 0
    <2>1. Shows(now) = Shows(tracker.began)
        BY <1>2, <1>7, <1>14, Zenon
    <2>2. got = 0
        <3> DEFINE v == Shows(now)
        <3>1. got = IF v > v THEN v - v ELSE 0
            BY <1>4, <2>1, Zenon DEF elapsed_ns
        <3>2. v \in Int
            <4>1. clock.offset \in Nat
                BY SMT DEF ClockInv, ClockTypes
            <4>2. v = (0 + clock.offset) % M
                BY <1>2, <1>7, <1>14, Zenon
            <4> HIDE DEF v
            <4> QED BY <1>1, <4>1, <4>2, SMT
        <3> HIDE DEF v, got
        <3> QED BY <3>1, <3>2, SMT
    <2>3. k0 * H < e + N
        <3>1. 0 \in Nat /\ 0 * f <= (D + 1) * H + N
            <4> HIDE DEF D
            <4> QED BY <1>1, <1>5, <1>14, SMT
        <3>2. k0 \in Nat /\ k0 * H < K * N + N
            BY <1>9, Zenon DEF k0
        <3> QED BY <1>1, <1>3, <1>5, <1>6, <1>9, <1>14, <3>1, <3>2, Calibrated, Zenon
    <2>4. got \in Nat /\ D \in Nat
        BY <1>5, <2>2
    <2> QED BY <2>2, <2>3, <2>4, Zenon DEF N, H, e, k0
<1>15. CASE f # 0 /\ ~Overrun(now)
    <2> DEFINE x == (a * N) \div f
               y == (b * N) \div f
               z == (c * N) \div f
               g == y - x
    <2>1. f \in Nat \ {0} /\ c \in Nat /\ wall \in Nat
        BY <1>2, <1>10, <1>15, SMT DEF f, c
    <2>2. clock.offset = (wall - (z % M)) % M
        BY <1>8, <1>15, Zenon DEF tsc_to_nanos, N, M
    <2>3. Shows(now) = ((y % M) + clock.offset) % M /\ Shows(tracker.began) = ((x % M) + clock.offset) % M
        BY <1>2, <1>7, <1>15, Zenon
    <2>4. c <= b /\ 2 * ((b - c) * N + f) <= M * f /\ 2 * ((a - c) * N + f) <= M * f
        <3>1. TscStart <= c /\ c <= a /\ a <= b /\ a \in Nat /\ b \in Nat
            BY <1>3, <1>4, <1>5, Zenon
        <3>2. 2 * (n * N + f) <= M * f
            BY <1>13, <1>15
        <3> HIDE DEF a, b
        <3>3. b - c \in Int /\ a - c \in Int /\ b - c <= n /\ a - c <= n /\ c <= b
            BY <1>1, <1>12, <2>1, <3>1, SMT
        <3>4. (b - c) * N <= n * N /\ (a - c) * N <= n * N /\ n * N \in Int
              /\ (b - c) * N \in Int /\ (a - c) * N \in Int
            BY <1>1, <1>12, <3>3, Times0, SMT
        <3>5. M * f \in Int
            BY <1>1, <2>1, SMT
        <3> DEFINE u == (b - c) * N
                   v == (a - c) * N
                   w == n * N
                   m0 == M * f
        <3>6. u \in Int /\ v \in Int /\ w \in Int /\ m0 \in Int /\ u <= w /\ v <= w /\ 2 * (w + f) <= m0
            BY <3>2, <3>4, <3>5
        <3> HIDE DEF u, v, w, m0
        <3>7. 2 * (u + f) <= m0 /\ 2 * (v + f) <= m0
            BY <2>1, <3>6, SMT
        <3> QED BY <3>3, <3>7 DEF u, v, m0
    <2>5. Nanos(N, f, a, x) /\ Nanos(N, f, b, y) /\ Nanos(N, f, c, z)
        <3>1. a * N \in Nat /\ b * N \in Nat /\ c * N \in Nat /\ a \in Nat /\ b \in Nat
            <4> HIDE DEF a, b
            <4> QED BY <1>1, <1>5, <2>1, SMT
        <3> QED BY <2>1, <3>1, Quotient, Zenon DEF Nanos
    <2>6. Wrapped(M, y, z, wall) = wall + (y - z) /\ Wrapped(M, x, z, wall) = wall + (x - z)
        <3>1. c <= a /\ c <= b
            BY <1>4, <1>5, <2>4, Zenon
        <3>2. Fits(M, N, f, wall, c, a) /\ Fits(M, N, f, wall, c, b)
            BY <1>1, <1>10, <2>1, <2>4, <3>1, Zenon DEF Fits
        <3> HIDE DEF a, b, x, y, z
        <3> QED BY <2>5, <3>2, Shown
    <2>7. /\ y - x \in Nat /\ (b - a) * N - f < (y - x) * f /\ (y - x) * f < (b - a) * N + f
        <3> HIDE DEF x, y, a, b
        <3> QED BY <1>1, <1>5, <2>1, <2>5, NanosBetween DEF Nanos
    <2>8. got = g
        <3> DEFINE u == Shows(now)
                   v == Shows(tracker.began)
        <3>1. u = wall + (y - z) /\ v = wall + (x - z)
            BY <2>2, <2>3, <2>6, Zenon DEF Wrapped
        <3>2. got = IF u > v THEN u - v ELSE 0
            BY <1>4, Zenon DEF elapsed_ns
        <3> HIDE DEF u, v, got, x, y, z
        <3> QED BY <2>1, <2>5, <2>7, <3>1, <3>2, SMT DEF Nanos
    <2>9. Granule \in Nat /\ N <= Granule * H
        <3> DEFINE s == N + H - 1
        <3>1. s \in Nat
            BY <1>1, SMT
        <3>2. Granule = s \div H
            BY Zenon DEF Granule, N, H
        <3> HIDE DEF s
        <3>3. s \div H \in Nat /\ s < H * (s \div H) + H
            BY <1>1, <3>1, Quotient
        <3>4. H * (s \div H) = (s \div H) * H /\ (s \div H) * H \in Int
            BY <1>1, <3>3, SMT
        <3>5. N <= (s \div H) * H
            BY <1>1, <3>1, <3>3, <3>4, SMT DEF s
        <3> QED BY <3>2, <3>3, <3>5
    <2>10. f <= H
        <3>1. 0 \in Nat /\ 0 * f <= (0 + 1) * H + N
            BY <1>1, <2>1, SMT
        <3>2. k0 \in Nat /\ k0 * H < K * N + N
            BY <1>9, Zenon DEF k0
        <3> QED BY <1>1, <1>3, <1>6, <1>9, <3>1, <3>2, Calibrated, Zenon
    <2>11. g + Granule >= D /\ g * f <= (D + 1) * H + N
        <3> DEFINE A == b - a
        <3>1. A \in Nat
            <4> HIDE DEF a, b
            <4> QED BY <1>5, SMT
        <3>2. g \in Nat /\ A * N - f < g * f /\ g * f < A * N + f /\ D * H < A * N + N /\ A * N < D * H + N
            BY <1>5, <2>7, Zenon
        <3> HIDE DEF A, g, D
        <3> QED BY <1>1, <1>5, <2>1, <2>9, <2>10, <3>1, <3>2, Measured
    <2>12. g * (k0 * H - e - N) <= e * ((D + 1) * H + N)
        <3>1. k0 \in Nat /\ k0 * H < K * N + N /\ g \in Nat
            BY <1>9, <2>7, Zenon DEF k0
        <3> HIDE DEF g, D
        <3> QED BY <1>1, <1>3, <1>5, <1>6, <1>9, <2>11, <3>1, Calibrated, Zenon
    <2>13. got \in Nat /\ got + Granule >= D /\ got * (k0 * H - e - N) <= e * ((D + 1) * H + N)
        BY <2>7, <2>8, <2>11, <2>12, Zenon
    <2> QED BY <1>5, <2>13, Zenon DEF N, H, e, k0
<1>16. CASE Overrun(now)
    BY <1>5, <1>11, <1>16, Zenon
<1> QED BY <1>14, <1>15, <1>16

\* The first state.
LEMMA ClockInit == Init => ClockInv
<1> SUFFICES ASSUME Init PROVE ClockInv
    OBVIOUS
<1>1. /\ pc = "off" /\ source = "System" /\ now = 0 /\ moved = 0 /\ steps = 0
      /\ cal = NoReadings /\ clock = NoClock /\ tracker = NoTracker
    BY Zenon DEF Init
<1>2. tracker.at = "idle"
    BY <1>1, Zenon DEF NoTracker
<1>3. ClockTypes
    <2>1. steps <= MaxWallSteps /\ now \in Nat /\ moved \in Int /\ steps \in Nat
        BY <1>1, Constants, SMT
    <2>2. /\ NoReadings \in [tsc0 : Nat, tsc1 : Nat, elapsed : Nat, tsc_now : Nat, counted : Nat]
          /\ NoClock \in [source : TimestampSource, freq : Nat, offset : Nat]
          /\ NoTracker \in [at : {"idle", "timing", "timed"}, start : Int, began : Nat, got : Nat, true : Nat]
        BY SMT DEF NoReadings, NoClock, NoTracker, TimestampSource
    <2>3. pc \in {"off", "tsc0", "tsc1", "elapsed", "tsc_now", "wall", "up"} /\ source \in TimestampSource
        BY <1>1, Zenon DEF TimestampSource
    <2> QED BY <1>1, <2>1, <2>2, <2>3, Zenon DEF ClockTypes
<1>4. WallInv
    <2>1. ASSUME NEW s \in Sources
          PROVE  MaxWallSteps * 0 <= 0 * Room(s)
        <3>1. Room(s) \in Int
            BY Constants, SMT DEF Room
        <3> QED BY <3>1, Constants, SMT
    <2> QED BY <1>1, <2>1, Zenon DEF WallInv
<1>5. StageInv /\ TrackerInv /\ LatencyTrue
    BY <1>1, <1>2, Zenon DEF StageInv, TrackerInv, LatencyTrue
<1>6. CalInv
    BY <1>1, Zenon DEF CalInv, Counting, Timed, Synced
<1> QED BY <1>3, <1>4, <1>5, <1>6 DEF ClockInv

\* Nothing about the clocks changes.
LEMMA ClockStill ==
    ASSUME ClockInv, UNCHANGED <<time, process>>
    PROVE  ClockInv'
<1>1. /\ now' = now /\ moved' = moved /\ steps' = steps
      /\ pc' = pc /\ source' = source /\ cal' = cal /\ clock' = clock /\ tracker' = tracker
    BY Zenon DEF time, process
<1>2. ClockTypes' /\ StageInv'
    BY <1>1, Zenon DEF ClockInv, ClockTypes, StageInv
<1>3. WallInv'
    BY <1>1, Zenon DEF ClockInv, WallInv, Room
<1>4. CalInv'
    BY <1>1, Zenon DEF ClockInv, CalInv, Counting, Timed, Synced, Counts, TscAt, Ticks, calibrate_tsc
<1>5. TrackerInv'
    BY <1>1, Zenon DEF ClockInv, TrackerInv, TscAt, Ticks, Shows
<1>6. LatencyTrue'
    BY <1>1, Zenon DEF ClockInv, LatencyTrue, Granule, Overrun, Ticks
<1> QED BY <1>2, <1>3, <1>4, <1>5, <1>6 DEF ClockInv

\* A nanosecond passes.
LEMMA ClockAdvance ==
    ASSUME ClockInv, Advance
    PROVE  ClockInv'
<1>1. /\ now' = now + 1 /\ moved' = moved /\ steps' = steps /\ pc # "off" /\ now < MaxTime[source]
      /\ pc' = pc /\ source' = source /\ cal' = cal /\ clock' = clock /\ tracker' = tracker
    BY Zenon DEF Advance, process, Running
<1>2. now \in Nat /\ now' \in Nat
    <2>1. now \in Nat
        BY Zenon DEF ClockInv, ClockTypes
    <2> QED BY <1>1, <2>1, SMT
<1>3. TscAt(now) \in Nat /\ TscAt(now') \in Nat /\ TscAt(now) <= TscAt(now')
    <2>1. Ticks(now) \in Nat /\ Ticks(now') \in Nat /\ Ticks(now) <= Ticks(now') /\ TscStart \in Nat
        <3>1. now <= now'
            BY <1>1, <1>2, SMT
        <3> QED BY <1>2, <3>1, TicksFacts, Constants, Zenon
    <2> QED BY <2>1, SMT DEF TscAt
<1>4. ClockTypes'
    BY <1>1, <1>2, Zenon DEF ClockInv, ClockTypes
<1>5. WallInv'
    BY <1>1, Zenon DEF ClockInv, WallInv, Room
<1>6. StageInv'
    <2>1. source \in Sources /\ clock.source = source
        BY <1>1, Zenon DEF ClockInv, StageInv
    <2>2. now' <= MaxTime[source]
        <3>1. MaxTime[source] \in Nat
            BY <2>1, Constants, Zenon
        <3> QED BY <1>1, <1>2, <3>1, SMT
    <2> QED BY <1>1, <2>1, <2>2, Zenon DEF ClockInv, StageInv
<1>7. CalInv'
    <2>1. cal.counted \in Nat /\ cal.tsc_now \in Nat
        BY SMT DEF ClockInv, ClockTypes
    <2>2. cal.counted <= now => cal.counted <= now'
        BY <1>1, <1>2, <2>1, SMT
    <2>3. cal.tsc_now <= TscAt(now) => cal.tsc_now <= TscAt(now')
        BY <1>3, <2>1, SMT
    <2>4. ASSUME pc = "elapsed" PROVE now' >= 1 /\ Counts * NanosPerSec <= now' * TscHz
        <3>1. Counts * NanosPerSec <= now * TscHz /\ Counts \in Nat
            BY <2>4, Zenon DEF ClockInv, CalInv, Counting
        <3> DEFINE k == Counts * NanosPerSec
                   a == now * TscHz
                   b == now' * TscHz
        <3>2. k \in Int
            <4> DEFINE c == Counts
            <4>1. c \in Nat
                BY <3>1
            <4> HIDE DEF c
            <4>2. c * NanosPerSec \in Int
                BY <4>1, Constants, SMT
            <4> QED BY <4>2, Zenon DEF c
        <3>3. a \in Int /\ b \in Int /\ a <= b
            <4>1. now \in Int /\ now' \in Int /\ now <= now' /\ TscHz \in Nat
                BY <1>1, <1>2, Constants, SMT
            <4> QED BY <4>1, Times0, Zenon
        <3>4. k <= a
            BY <3>1
        <3> HIDE DEF k, a, b
        <3>5. k <= b /\ now' >= 1
            BY <1>1, <1>2, <3>2, <3>3, <3>4, SMT
        <3> QED BY <3>5 DEF k, b
    <2>5. TscAt(now') = TscAt(now)'
        BY Zenon DEF TscAt, Ticks
    <2> QED BY <1>1, <2>2, <2>3, <2>4, Zenon
            DEF ClockInv, CalInv, Counting, Timed, Synced, Counts, TscAt, Ticks, calibrate_tsc
<1>8. TrackerInv'
    <2>1. tracker.began \in Nat
        BY SMT DEF ClockInv, ClockTypes
    <2>2. tracker.began <= now => tracker.began <= now'
        BY <1>1, <1>2, <2>1, SMT
    <2> QED BY <1>1, <2>2, Zenon DEF ClockInv, TrackerInv, TscAt, Ticks, Shows
<1>9. LatencyTrue'
    BY <1>1, Zenon DEF ClockInv, LatencyTrue, Granule, Overrun, Ticks
<1> QED BY <1>4, <1>5, <1>6, <1>7, <1>8, <1>9 DEF ClockInv

\* The system clock is set.
LEMMA ClockSet ==
    ASSUME ClockInv, NEW w \in WallSteps, SetWall(w)
    PROVE  ClockInv'
<1>1. /\ now' = now /\ moved' = moved + w /\ steps' = steps + 1 /\ steps < MaxWallSteps /\ pc # "off"
      /\ pc' = pc /\ source' = source /\ cal' = cal /\ clock' = clock /\ tracker' = tracker
    BY Zenon DEF SetWall, Running, process
<1>2. WallInv' /\ moved' \in Int /\ steps' \in Nat /\ steps' <= MaxWallSteps
    BY <1>1, WallSet, Zenon DEF ClockInv
<1>5. ClockTypes'
    BY <1>1, <1>2, Zenon DEF ClockInv, ClockTypes
<1>6. StageInv'
    BY <1>1, Zenon DEF ClockInv, StageInv
<1>7. CalInv'
    BY <1>1, Zenon DEF ClockInv, CalInv, Counting, Timed, Synced, Counts, TscAt, Ticks, calibrate_tsc
<1>8. TrackerInv'
    BY <1>1, Zenon DEF ClockInv, TrackerInv, TscAt, Ticks, Shows
<1>9. LatencyTrue'
    BY <1>1, Zenon DEF ClockInv, LatencyTrue, Granule, Overrun, Ticks
<1> QED BY <1>2, <1>5, <1>6, <1>7, <1>8, <1>9 DEF ClockInv

\* The program starts.
LEMMA ClockStarts ==
    ASSUME ClockInv, HrClock_new
    PROVE  ClockInv'
<1>1. /\ pc = "off" /\ source' \in Sources /\ clock' = NewClock(source', 0, 0, 0)
      /\ pc' = (IF source' = "Tsc" THEN "tsc0" ELSE "up")
      /\ now' = now /\ moved' = moved /\ steps' = steps /\ cal' = cal /\ tracker' = tracker
    BY Zenon DEF HrClock_new, time
<1>2. tracker.at = "idle" /\ now = 0
    BY <1>1, Zenon DEF ClockInv, StageInv
<1>3. source' \in TimestampSource
    BY <1>1, Constants, Zenon
<1>4. clock' \in [source : TimestampSource, freq : Nat, offset : Nat] /\ clock'.source = source'
    <2> DEFINE o == IF source' = "Tsc" THEN (0 - tsc_to_nanos(0, 0)) % Modulus ELSE 0
    <2>1. tsc_to_nanos(0, 0) = 0
        BY Zenon DEF tsc_to_nanos
    <2>2. (0 - 0) % Modulus \in Nat
        BY Constants, SMT
    <2>3. o \in Nat
        BY <2>1, <2>2, SMT
    <2>4. clock' = [source |-> source', freq |-> 0, offset |-> o]
        BY <1>1, Zenon DEF NewClock
    <2> HIDE DEF o
    <2> QED BY <1>3, <2>3, <2>4, SMT
<1>5. ClockTypes'
    BY <1>1, <1>3, <1>4, Zenon DEF ClockInv, ClockTypes
<1>6. WallInv'
    BY <1>1, Zenon DEF ClockInv, WallInv, Room
<1>7. StageInv'
    <2>1. MaxTime[source'] \in Nat
        BY <1>1, Constants, Zenon
    <2>2. now' <= MaxTime[source']
        BY <1>1, <1>2, <2>1, SMT
    <2>3. pc' # "off" /\ (pc' # "up" => source' = "Tsc") /\ tracker'.at = "idle"
        BY <1>1, <1>2, Zenon
    <2> QED BY <1>1, <1>4, <2>2, <2>3, Zenon DEF StageInv
<1>8. CalInv'
    <2>1. pc' \in {"tsc0", "up"} /\ (pc' = "up" => source' # "Tsc")
        BY <1>1, Zenon
    <2> QED BY <2>1, Zenon DEF CalInv, Counting, Timed, Synced
<1>9. TrackerInv' /\ LatencyTrue'
    BY <1>1, <1>2, Zenon DEF TrackerInv, LatencyTrue
<1> QED BY <1>5, <1>6, <1>7, <1>8, <1>9 DEF ClockInv

\* A reading of the calibration leaves all but CalInv alone.
LEMMA ClockReads ==
    ASSUME ClockInv, pc \in {"tsc0", "tsc1", "elapsed", "tsc_now", "wall"},
           pc' \in {"tsc1", "elapsed", "tsc_now", "wall", "up"},
           UNCHANGED <<time, source, tracker>>, CalInv',
           cal' \in [tsc0 : Nat, tsc1 : Nat, elapsed : Nat, tsc_now : Nat, counted : Nat],
           clock' \in [source : TimestampSource, freq : Nat, offset : Nat], clock'.source = source
    PROVE  ClockInv'
<1>1. now' = now /\ moved' = moved /\ steps' = steps /\ source' = source /\ tracker' = tracker
    BY Zenon DEF time
<1>2. pc # "off" /\ pc # "up" /\ pc' # "off"
    BY Zenon
<1>3. tracker.at = "idle" /\ source = "Tsc"
    BY <1>2, Zenon DEF ClockInv, StageInv
<1>4. ClockTypes'
    <2>1. pc' \in {"off", "tsc0", "tsc1", "elapsed", "tsc_now", "wall", "up"}
        BY Zenon
    <2> QED BY <1>1, <2>1, Zenon DEF ClockInv, ClockTypes
<1>5. WallInv'
    BY <1>1, Zenon DEF ClockInv, WallInv, Room
<1>6. StageInv'
    BY <1>1, <1>2, <1>3, Zenon DEF ClockInv, StageInv
<1>7. TrackerInv' /\ LatencyTrue'
    BY <1>1, <1>3, Zenon DEF TrackerInv, LatencyTrue
<1> QED BY <1>4, <1>5, <1>6, <1>7 DEF ClockInv

\* Two readings are noted.
LEMMA TwoReadings ==
    ASSUME NEW c \in [tsc0 : Nat, tsc1 : Nat, elapsed : Nat, tsc_now : Nat, counted : Nat],
           NEW x \in Nat, NEW n \in Nat
    PROVE  LET c0 == [c EXCEPT !.tsc0 = x, !.counted = n]
               c1 == [c EXCEPT !.tsc1 = x, !.counted = n]
           IN /\ c0 \in [tsc0 : Nat, tsc1 : Nat, elapsed : Nat, tsc_now : Nat, counted : Nat]
              /\ c0.tsc0 = x /\ c0.counted = n
              /\ c1 \in [tsc0 : Nat, tsc1 : Nat, elapsed : Nat, tsc_now : Nat, counted : Nat]
              /\ c1.tsc0 = c.tsc0 /\ c1.tsc1 = x /\ c1.counted = n
<1> DEFINE R == [tsc0 : Nat, tsc1 : Nat, elapsed : Nat, tsc_now : Nat, counted : Nat]
           d0 == [c EXCEPT !.tsc0 = x]
           d1 == [c EXCEPT !.tsc1 = x]
<1>1. d0 \in R /\ d0.tsc0 = x /\ d1 \in R /\ d1.tsc0 = c.tsc0 /\ d1.tsc1 = x
    BY SMT
<1>2. ASSUME NEW d \in R
      PROVE  LET e == [d EXCEPT !.counted = n]
             IN e \in R /\ e.counted = n /\ e.tsc0 = d.tsc0 /\ e.tsc1 = d.tsc1
    BY SMT
<1>3. /\ [c EXCEPT !.tsc0 = x, !.counted = n] = [d0 EXCEPT !.counted = n]
      /\ [c EXCEPT !.tsc1 = x, !.counted = n] = [d1 EXCEPT !.counted = n]
    BY Zenon
<1> HIDE DEF d0, d1, R
<1> QED BY <1>1, <1>2, <1>3 DEF R

\* The readings of HrClock::new in turn.
LEMMA ClockCalibrates ==
    ASSUME ClockInv, Calibrate
    PROVE  ClockInv'
<1>1. /\ cal \in [tsc0 : Nat, tsc1 : Nat, elapsed : Nat, tsc_now : Nat, counted : Nat]
      /\ clock \in [source : TimestampSource, freq : Nat, offset : Nat]
      /\ now \in Nat
    BY Zenon DEF ClockInv, ClockTypes
<1>2. read_tsc = TscAt(now) /\ TscAt(now) \in Nat /\ TscStart <= TscAt(now)
    BY ShownTypes, Zenon
<1>3. ASSUME pc # "off", pc # "up" PROVE clock.source = source /\ source = "Tsc" /\ source \in Sources /\ now <= MaxTime[source]
    BY <1>3, Zenon DEF ClockInv, StageInv
<1>4. CASE ReadTsc0
    <2>1. /\ pc = "tsc0" /\ pc' = "tsc1" /\ UNCHANGED <<time, source, clock, tracker>>
          /\ cal' = [cal EXCEPT !.tsc0 = read_tsc, !.counted = now]
        BY <1>4, Zenon DEF ReadTsc0, Reads
    <2>2. /\ cal' \in [tsc0 : Nat, tsc1 : Nat, elapsed : Nat, tsc_now : Nat, counted : Nat]
          /\ cal'.tsc0 = TscAt(now) /\ cal'.counted = now
        BY <1>1, <1>2, <2>1, TwoReadings, Zenon
    <2>3. CalInv'
        <3>1. cal'.counted <= now' /\ cal'.tsc0 = TscAt(cal'.counted)
            <4>1. now' = now /\ now <= now
                BY <1>1, <2>1, SMT DEF time
            <4> QED BY <2>2, <4>1, Zenon
        <3> QED BY <2>1, <3>1, Zenon DEF CalInv, Counting, Timed, Synced, TscAt, Ticks
    <2> QED BY <1>1, <1>3, <2>1, <2>2, <2>3, ClockReads, Zenon
<1>5. CASE ReadTsc1
    <2>1. /\ pc = "tsc1" /\ pc' = "elapsed" /\ UNCHANGED <<time, source, clock, tracker>> /\ now >= CalDuration
          /\ cal' = [cal EXCEPT !.tsc1 = read_tsc, !.counted = now - @]
        BY <1>5, Zenon DEF ReadTsc1, Reads
    <2>2. cal.counted <= now /\ cal.tsc0 = TscAt(cal.counted)
        BY <2>1, Zenon DEF ClockInv, CalInv
    <2> DEFINE c == cal.counted
               K == Ticks(now) - Ticks(c)
    <2>3. c \in Nat
        BY <1>1, SMT
    <2>4. /\ cal' \in [tsc0 : Nat, tsc1 : Nat, elapsed : Nat, tsc_now : Nat, counted : Nat]
          /\ cal'.tsc0 = cal.tsc0 /\ cal'.tsc1 = TscAt(now) /\ cal'.counted = now - c
        <3>1. now - c \in Nat
            BY <1>1, <2>2, <2>3, SMT
        <3>2. cal' = [cal EXCEPT !.tsc1 = read_tsc, !.counted = now - c]
            BY <1>1, <2>1, Zenon
        <3> QED BY <1>1, <1>2, <3>1, <3>2, TwoReadings, Zenon
    <2>5. /\ K \in Nat /\ Ticks(now) \in Nat /\ Ticks(c) \in Nat
          /\ (now - c) * TscHz < K * NanosPerSec + NanosPerSec
        BY <1>1, <2>2, <2>3, TicksFacts, TicksBetween
    <2>6. cal'.tsc1 - cal'.tsc0 = K
        <3>1. cal'.tsc1 = TscStart + Ticks(now) /\ cal'.tsc0 = TscStart + Ticks(c) /\ TscStart \in Nat
            BY <2>2, <2>4, Constants, Zenon DEF TscAt
        <3> QED BY <2>5, <3>1, SMT
    <2>7. K < Modulus
        <3> DEFINE q == Ticks(MaxTime[source])
        <3>1. TscStart + q < Modulus /\ MaxTime[source] \in Nat /\ Modulus \in Nat /\ TscStart \in Nat
            BY <1>3, <2>1, Constants, Zenon
        <3>2. Ticks(now) <= q /\ q \in Nat
            BY <1>1, <1>3, <2>1, <3>1, TicksFacts, Zenon
        <3> HIDE DEF q
        <3> QED BY <2>5, <3>1, <3>2, SMT
    <2>8. now >= 1 /\ K * NanosPerSec <= now * TscHz
        <3>1. now >= 1
            BY <1>1, <2>1, Constants, SMT
        <3> DEFINE q == Ticks(now)
                   k == q * NanosPerSec
                   x == now * TscHz
                   y == K * NanosPerSec
        <3>2. k <= x
            BY <1>1, TicksFacts, Zenon
        <3>3. y <= k /\ y \in Int /\ k \in Int
            <4>1. K <= q /\ K \in Int /\ q \in Int /\ NanosPerSec \in Nat
                BY <2>5, Constants, SMT
            <4> HIDE DEF K, q
            <4> QED BY <4>1, Times0, Zenon
        <3>4. x \in Int
            BY <1>1, Constants, SMT
        <3> HIDE DEF k, x, y
        <3>5. y <= x
            BY <3>2, <3>3, <3>4, SMT
        <3> QED BY <3>1, <3>5 DEF x, y
    <2>9. CalInv'
        <3>1. Counts' = K /\ now' = now
            BY <2>1, <2>6, Zenon DEF Counts, time
        <3> HIDE DEF K
        <3> QED BY <2>1, <2>4, <2>5, <2>7, <2>8, <3>1, Zenon DEF CalInv, Counting, Timed, Synced, c
    <2> QED BY <1>1, <1>3, <2>1, <2>4, <2>9, ClockReads, Zenon
<1>6. CASE ReadElapsed
    <2>1. /\ pc = "elapsed" /\ pc' = "tsc_now" /\ UNCHANGED <<time, source, clock, tracker>>
          /\ cal' = [cal EXCEPT !.elapsed = now]
        BY <1>6, Zenon DEF ReadElapsed, Reads
    <2>2. /\ cal' \in [tsc0 : Nat, tsc1 : Nat, elapsed : Nat, tsc_now : Nat, counted : Nat]
          /\ cal'.tsc0 = cal.tsc0 /\ cal'.tsc1 = cal.tsc1 /\ cal'.counted = cal.counted /\ cal'.elapsed = now
        BY <1>1, <2>1, SMT
    <2>3. Counts' = Counts
        BY <2>2, Zenon DEF Counts
    <2>4. CalInv'
        BY <2>1, <2>2, <2>3, Zenon DEF ClockInv, CalInv, Counting, Timed, Synced
    <2> QED BY <1>1, <1>3, <2>1, <2>2, <2>4, ClockReads, Zenon
<1>7. CASE ReadTscNow
    <2>1. /\ pc = "tsc_now" /\ pc' = "wall" /\ UNCHANGED <<time, source, clock, tracker>>
          /\ cal' = [cal EXCEPT !.tsc_now = read_tsc]
        BY <1>7, Zenon DEF ReadTscNow, Reads
    <2>2. /\ cal' \in [tsc0 : Nat, tsc1 : Nat, elapsed : Nat, tsc_now : Nat, counted : Nat]
          /\ cal'.tsc0 = cal.tsc0 /\ cal'.tsc1 = cal.tsc1 /\ cal'.counted = cal.counted
          /\ cal'.elapsed = cal.elapsed /\ cal'.tsc_now = TscAt(now)
        BY <1>1, <1>2, <2>1, SMT
    <2>3. Counts' = Counts
        BY <2>2, Zenon DEF Counts
    <2>4. TscStart <= cal'.tsc_now /\ cal'.tsc_now <= TscAt(now')
        <3>1. TscAt(now) <= TscAt(now) /\ now' = now
            BY <1>2, <2>1, SMT DEF time
        <3> QED BY <1>2, <2>2, <3>1, Zenon
    <2>5. CalInv'
        BY <2>1, <2>2, <2>3, <2>4, Zenon DEF ClockInv, CalInv, Counting, Timed, Synced, TscAt, Ticks
    <2> QED BY <1>1, <1>3, <2>1, <2>2, <2>5, ClockReads, Zenon
<1>8. CASE ReadWall
    <2>1. /\ pc = "wall" /\ pc' = "up" /\ UNCHANGED <<time, source, cal, tracker>>
          /\ clock' = NewClock(source, calibrate_tsc, cal.tsc_now, Wall)
        BY <1>8, Zenon DEF ReadWall
    <2>2. source = "Tsc" /\ source \in Sources /\ now <= MaxTime[source]
        BY <1>3, <2>1, Zenon
    <2> DEFINE f == calibrate_tsc
               x == tsc_to_nanos(cal.tsc_now, f)
    <2>3. Wall \in Nat /\ Wall < Half
        BY <2>2, WallFits, Zenon DEF ClockInv
    <2>4. f \in Nat
        <3>1. Counts \in Nat /\ cal.elapsed >= 1
            BY <2>1, Zenon DEF ClockInv, CalInv, Counting, Timed
        <3> DEFINE K == Counts % Modulus
                   e == cal.elapsed
                   P == K * NanosPerSec
        <3>2. e \in Nat \ {0}
            BY <1>1, <3>1, SMT
        <3>3. K \in Nat
            BY <3>1, Constants, Quotient
        <3>4. P \in Nat
            <4> HIDE DEF K
            <4> QED BY <3>3, Constants, SMT
        <3>5. f = P \div e
            BY <3>2, Zenon DEF calibrate_tsc, Frequency, Counts
        <3> HIDE DEF P, e, f
        <3> QED BY <3>2, <3>4, <3>5, Quotient
    <2>5. x \in Nat
        <3> DEFINE y == cal.tsc_now * NanosPerSec
        <3>1. y \in Nat
            BY <1>1, Constants, SMT
        <3>2. x = IF f = 0 THEN 0 ELSE (y \div f) % Modulus
            BY Zenon DEF tsc_to_nanos
        <3> HIDE DEF y, x, f
        <3>3. f # 0 => y \div f \in Nat
            BY <2>4, <3>1, Quotient
        <3>4. f # 0 => (y \div f) % Modulus \in Nat
            BY <3>3, Constants, Quotient
        <3> QED BY <3>2, <3>4, SMT
    <2>6. (Wall - x) % Modulus \in Nat
        <3> HIDE DEF x
        <3> QED BY <2>3, <2>5, Constants, SMT
    <2>7. clock' = [source |-> source, freq |-> f, offset |-> (Wall - x) % Modulus]
        BY <2>1, <2>2, Zenon DEF NewClock
    <2>8. /\ clock' \in [source : TimestampSource, freq : Nat, offset : Nat] /\ clock'.source = source
          /\ clock'.freq = f /\ clock'.offset = (Wall - x) % Modulus
        <3>1. source \in TimestampSource
            BY Zenon DEF ClockInv, ClockTypes
        <3> DEFINE o == (Wall - x) % Modulus
        <3> HIDE DEF f, o
        <3> QED BY <2>4, <2>6, <2>7, <3>1, SMT DEF o
    <2>9. CalInv'
        <3>1. Wall \in 0 .. Half - 1
            BY <2>3, Constants, SMT
        <3>2. \E wall \in 0 .. Half - 1 :
                 clock'.offset = (wall - tsc_to_nanos(cal.tsc_now, clock'.freq)) % Modulus
            BY <2>8, <3>1, Zenon
        <3>3. calibrate_tsc' = calibrate_tsc /\ Counts' = Counts
            BY <2>1, Zenon DEF calibrate_tsc, Counts
        <3>4. now' = now
            BY <2>1, Zenon DEF time
        <3> QED BY <2>1, <2>8, <3>2, <3>3, <3>4, Zenon DEF ClockInv, CalInv, Counting, Timed, Synced, TscAt, Ticks
    <2> QED BY <1>1, <2>1, <2>8, <2>9, ClockReads, Zenon
<1> QED BY <1>4, <1>5, <1>6, <1>7, <1>8, Zenon DEF Calibrate

\* A timer starts, stops, or is done with: all but the tracker stays.
LEMMA ClockTracks ==
    ASSUME ClockInv, UNCHANGED <<time, pc, source, cal, clock>>, pc = "up",
           tracker' \in [at : {"idle", "timing", "timed"}, start : Int, began : Nat, got : Nat, true : Nat],
           TrackerInv', LatencyTrue'
    PROVE  ClockInv'
<1>1. /\ now' = now /\ moved' = moved /\ steps' = steps
      /\ pc' = pc /\ source' = source /\ cal' = cal /\ clock' = clock
    BY Zenon DEF time
<1>2. ClockTypes'
    BY <1>1, Zenon DEF ClockInv, ClockTypes
<1>3. WallInv'
    BY <1>1, Zenon DEF ClockInv, WallInv, Room
<1>4. StageInv'
    BY <1>1, Zenon DEF ClockInv, StageInv
<1>5. CalInv'
    BY <1>1, Zenon DEF ClockInv, CalInv, Counting, Timed, Synced, Counts, TscAt, Ticks, calibrate_tsc
<1> QED BY <1>2, <1>3, <1>4, <1>5 DEF ClockInv

\* LatencyTracker::start and stop.
LEMMA ClockTimer ==
    ASSUME ClockInv, StartTimer \/ StopTimer \/ RecordLatency \/ DropTimer
    PROVE  ClockInv'
<1> DEFINE T == [at : {"idle", "timing", "timed"}, start : Int, began : Nat, got : Nat, true : Nat]
           at == HrClock_now(clock, read_tsc, Wall)
<1>1. tracker \in T /\ now \in Nat
    BY Zenon DEF ClockInv, ClockTypes
<1>2. tracker.at # "idle" => pc = "up"
    BY Zenon DEF ClockInv, StageInv
<1>3. /\ Wall \in Int /\ Shows(now) \in Nat /\ TscStart <= TscAt(now)
      /\ pc = "up" => at = IF source = "Tsc" THEN Shows(now) ELSE Wall
    BY <1>1, ShownTypes, Zenon
<1>4. NoTracker \in T /\ NoTracker.at = "idle"
    BY SMT DEF NoTracker
<1>5. CASE StartTimer
    <2>1. /\ pc = "up" /\ UNCHANGED <<time, pc, source, cal, clock>>
          /\ tracker' = [NoTracker EXCEPT !.at = "timing", !.start = at, !.began = now]
        BY <1>5, Zenon DEF StartTimer, Track
    <2>2. at = IF source = "Tsc" THEN Shows(now) ELSE Wall
        BY <1>3, <2>1, Zenon
    <2>3. at \in Int
        <3> HIDE DEF at
        <3> QED BY <1>3, <2>2, SMT
    <2>4. tracker' = [at |-> "timing", start |-> at, began |-> now, got |-> 0, true |-> 0]
        <3> HIDE DEF at
        <3> DEFINE t1 == [NoTracker EXCEPT !.at = "timing"]
                   t2 == [t1 EXCEPT !.start = at]
        <3>1. tracker' = [t2 EXCEPT !.began = now]
            BY <2>1, Zenon
        <3>2. t1 = [at |-> "timing", start |-> 0, began |-> 0, got |-> 0, true |-> 0]
            BY SMT DEF NoTracker
        <3> HIDE DEF t1
        <3>3. t2 = [at |-> "timing", start |-> at, began |-> 0, got |-> 0, true |-> 0]
            BY <3>2, SMT
        <3> HIDE DEF t2
        <3> QED BY <3>1, <3>3, SMT
    <2>5. tracker' \in T /\ tracker'.at = "timing" /\ tracker'.start = at /\ tracker'.began = now
        <3> HIDE DEF at
        <3> QED BY <1>1, <2>3, <2>4, SMT
    <2>6. LatencyTrue'
        BY <2>5, Zenon DEF LatencyTrue
    <2>7. TrackerInv'
        <3>1. now' = now /\ moved' = moved /\ source' = source /\ cal' = cal /\ clock' = clock
            BY <2>1, Zenon DEF time
        <3>2. now <= now
            BY <1>1, SMT
        <3>3. source = "Tsc" => cal.tsc_now <= TscAt(now)
            BY <2>1, Zenon DEF ClockInv, CalInv, Synced
        <3>4. source = "Tsc" => at = Shows(now)
            BY <2>2, Zenon
        <3> HIDE DEF at
        <3> QED BY <2>5, <3>1, <3>2, <3>3, <3>4, Zenon DEF TrackerInv, TscAt, Ticks, Shows
    <2> QED BY <2>1, <2>5, <2>6, <2>7, ClockTracks, Zenon
<1>6. CASE StopTimer
    <2> DEFINE D == now - tracker.began
               got == elapsed_ns(at, tracker.start)
    <2>1. /\ tracker.at = "timing" /\ UNCHANGED <<time, pc, source, cal, clock>>
          /\ tracker' = [tracker EXCEPT !.at = "timed", !.true = D, !.got = got]
        BY <1>6, Zenon DEF StopTimer, Track
    <2>2. pc = "up" /\ at = IF source = "Tsc" THEN Shows(now) ELSE Wall
        BY <1>2, <1>3, <2>1, Zenon
    <2>3. /\ got \in Nat /\ D \in Nat
          /\ source = "Tsc" =>
                \/ /\ got + Granule >= D
                   /\ got * (cal.counted * TscHz - cal.elapsed - NanosPerSec)
                         <= cal.elapsed * ((D + 1) * TscHz + NanosPerSec)
                \/ /\ cal.counted * TscHz < cal.elapsed + NanosPerSec
                   /\ got = 0
                \/ Overrun(now)
        <3>1. CASE source = "Tsc"
            <4>1. at = Shows(now)
                BY <2>2, <3>1, Zenon
            <4> HIDE DEF at
            <4> QED BY <2>1, <3>1, <4>1, TscLatency
        <3>2. CASE source # "Tsc"
            <4>1. at \in Int /\ tracker.start \in Int /\ tracker.began \in Nat /\ tracker.began <= now
                <5>1. at = Wall
                    BY <2>2, <3>2, Zenon
                <5>2. tracker.start \in Int /\ tracker.began \in Nat
                    BY <1>1, SMT
                <5> QED BY <1>3, <2>1, <5>1, <5>2, Zenon DEF ClockInv, TrackerInv
            <4> HIDE DEF at
            <4> QED BY <1>1, <3>2, <4>1, SMT DEF elapsed_ns
        <3> QED BY <3>1, <3>2, Zenon
    <2> HIDE DEF D, got
    <2>4. /\ tracker' \in T /\ tracker'.at = "timed" /\ tracker'.true = D /\ tracker'.got = got
          /\ tracker'.began = tracker.began
        <3>1. tracker' = [at |-> "timed", start |-> tracker.start, began |-> tracker.began,
                          got |-> got, true |-> D]
            <4> DEFINE t1 == [tracker EXCEPT !.at = "timed"]
                       t2 == [t1 EXCEPT !.true = D]
            <4>1. tracker' = [t2 EXCEPT !.got = got]
                BY <2>1, Zenon
            <4>2. t1 = [at |-> "timed", start |-> tracker.start, began |-> tracker.began,
                        got |-> tracker.got, true |-> tracker.true]
                BY <1>1, SMT
            <4> HIDE DEF t1
            <4>3. t2 = [at |-> "timed", start |-> tracker.start, began |-> tracker.began,
                        got |-> tracker.got, true |-> D]
                BY <4>2, SMT
            <4> HIDE DEF t2
            <4> QED BY <4>1, <4>3, SMT
        <3>2. tracker.start \in Int /\ tracker.began \in Nat
            BY <1>1, SMT
        <3> QED BY <2>3, <3>1, <3>2, SMT
    <2>5. TrackerInv'
        BY <2>4, Zenon DEF TrackerInv
    <2>6. LatencyTrue'
        <3>1. tracker'.began + tracker'.true = now
            <4>1. tracker.began \in Nat
                BY <1>1, SMT
            <4> QED BY <1>1, <2>4, <4>1, SMT DEF D
        <3> QED BY <2>1, <2>3, <2>4, <3>1, Zenon DEF LatencyTrue, Granule, Overrun, Ticks
    <2> QED BY <2>1, <2>2, <2>4, <2>5, <2>6, ClockTracks, Zenon
<1>7. CASE RecordLatency \/ DropTimer
    <2>1. tracker.at = "timed" /\ tracker' = NoTracker /\ UNCHANGED <<time, pc, source, cal, clock>>
        BY <1>7, Zenon DEF RecordLatency, DropTimer, Track
    <2>2. TrackerInv' /\ LatencyTrue'
        BY <1>4, <2>1, Zenon DEF TrackerInv, LatencyTrue
    <2> QED BY <1>2, <1>4, <2>1, <2>2, ClockTracks, Zenon
<1> QED BY <1>5, <1>6, <1>7

\* Every step.
LEMMA ClockNext == ClockInv /\ [Next]_vars => ClockInv'
<1> SUFFICES ASSUME ClockInv, [Next]_vars PROVE ClockInv'
    OBVIOUS
<1>1. CASE Midnight \/ Update \/ Scrape \/ UNCHANGED vars
    <2>1. UNCHANGED <<time, process>>
        BY <1>1, Zenon DEF Midnight, Update, Scrape, vars
    <2> QED BY <2>1, ClockStill
<1>2. CASE Advance
    BY <1>2, ClockAdvance
<1>3. CASE \E s \in WallSteps : SetWall(s)
    BY <1>3, ClockSet
<1>4. CASE HrClock_new
    BY <1>4, ClockStarts
<1>5. CASE Calibrate
    BY <1>5, ClockCalibrates
<1>6. CASE StartTimer \/ StopTimer \/ RecordLatency \/ DropTimer
    BY <1>6, ClockTimer
<1> QED BY <1>1, <1>2, <1>3, <1>4, <1>5, <1>6, Zenon DEF Next

\* A latency measured with the counter is the time that passed, but for the error that
\* the calibration explains (HrClock::new, HrClock::now and LatencyTracker), whatever
\* the frequency, the calibration period, the delays between the readings and the
\* moments at which the system clock is set, before the epoch too.
THEOREM LatenciesTrue == Spec => []LatencyTrue
<1>1. ClockInv => LatencyTrue
    BY DEF ClockInv
<1> QED BY <1>1, ClockInit, ClockNext, PTL DEF Spec

-----------------------------------------------------------------------------
(* The figures of a histogram                                              *)

Hists == [0 .. High -> Nat]

\* t holds the running totals of w up to n.
Sums(t, w, n) == t \in Hists /\ t[0] = w[0] /\ \A v \in 1 .. n : t[v] = t[v - 1] + w[v]

\* There are running totals, and Totals gives them.
LEMMA TotalsSum ==
    ASSUME NEW w \in Hists
    PROVE  Sums(Totals(w), w, High)
<1>0. High \in Nat
    BY MetricsAssumption
<1> DEFINE B == {n \in Nat : n <= High /\ ~\E t : Sums(t, w, n)}
<1>1. \E t : Sums(t, w, High)
    <2>1. SUFFICES ASSUME B # {} PROVE FALSE
        BY <1>0, SMT
    <2>2. PICK n \in B : \A m \in B : n <= m
        <3>1. B \subseteq Nat
            BY Zenon
        <3> HIDE DEF B
        <3> QED BY <2>1, <3>1, Least, Zenon
    <2>3. n \in Nat /\ n <= High /\ ~\E t : Sums(t, w, n)
        OBVIOUS
    <2>4. CASE n = 0
        <3> DEFINE t == [v \in 0 .. High |-> w[0]]
        <3>1. w[0] \in Nat /\ 0 \in 0 .. High
            BY <1>0, SMT DEF Hists
        <3>2. Sums(t, w, 0)
            BY <3>1, SMT DEF Sums, Hists
        <3> QED BY <2>3, <2>4, <3>2, Zenon
    <2>5. CASE n # 0
        <3>1. n - 1 \in Nat /\ n - 1 <= High /\ ~(n <= n - 1)
            BY <1>0, <2>3, <2>5, SMT
        <3>2. PICK t : Sums(t, w, n - 1)
            BY <2>2, <3>1, Zenon
        <3> DEFINE u == [t EXCEPT ![n] = t[n - 1] + w[n]]
        <3>3. /\ t \in [0 .. High -> Nat] /\ t[0] = w[0] /\ \A v \in 1 .. n - 1 : t[v] = t[v - 1] + w[v]
              /\ w \in [0 .. High -> Nat]
            BY <3>2, Zenon DEF Sums, Hists
        <3>4. n \in 0 .. High /\ n - 1 \in 0 .. High /\ t[n - 1] \in Nat /\ w[n] \in Nat
            BY <1>0, <2>3, <2>5, <3>3, SMT
        <3>5. u \in [0 .. High -> Nat] /\ u[n] = t[n - 1] + w[n] /\ \A v \in 0 .. High : v # n => u[v] = t[v]
            BY <3>3, <3>4, SMT
        <3> HIDE DEF u
        <3>6. u[0] = w[0]
            BY <1>0, <2>3, <2>5, <3>3, <3>5, SMT
        <3>7. ASSUME NEW v \in 1 .. n PROVE u[v] = u[v - 1] + w[v]
            <4>1. v \in 0 .. High /\ v - 1 \in 0 .. High /\ v - 1 # n /\ (v # n => v \in 1 .. n - 1)
                BY <1>0, <2>3, <3>7, SMT
            <4>2. u[v - 1] = t[v - 1]
                BY <3>5, <4>1, Zenon
            <4>3. CASE v = n
                BY <3>5, <4>2, <4>3
            <4>4. CASE v # n
                BY <3>3, <3>5, <4>1, <4>2, <4>4, Zenon
            <4> QED BY <4>3, <4>4
        <3>8. Sums(u, w, n)
            BY <3>5, <3>6, <3>7, Zenon DEF Sums, Hists
        <3> QED BY <2>3, <3>8, Zenon
    <2> QED BY <2>4, <2>5
<1>2. PICK t : Sums(t, w, High)
    BY <1>1
<1> DEFINE Is(f) == f = [v \in 0 .. High |-> IF v = 0 THEN w[0] ELSE f[v - 1] + w[v]]
<1>3. t \in [0 .. High -> Nat] /\ t[0] = w[0] /\ \A v \in 1 .. High : t[v] = t[v - 1] + w[v]
    BY <1>2, Zenon DEF Sums, Hists
<1>4. Is(t)
    <2>1. \A v \in 0 .. High : t[v] = IF v = 0 THEN w[0] ELSE t[v - 1] + w[v]
        BY <1>0, <1>3, SMT
    <2> QED BY <1>3, <2>1, SMT
<1> DEFINE f == CHOOSE x : Is(x)
<1>5. Is(f)
    <2> HIDE DEF Is
    <2> QED BY <1>4, Zenon
<1>6. Totals(w) = f
    BY Zenon DEF Totals
<1> HIDE DEF f
<1>7. f[0] = w[0] /\ (\A v \in 1 .. High : f[v] = f[v - 1] + w[v]) /\ DOMAIN f = 0 .. High
      /\ f = [v \in 0 .. High |-> f[v]]
    BY <1>0, <1>5, SMT
<1> DEFINE C == {v \in Nat : v <= High /\ f[v] \notin Nat}
<1>8. C = {}
    <2>1. SUFFICES ASSUME C # {} PROVE FALSE
        OBVIOUS
    <2>2. PICK n \in C : \A m \in C : n <= m
        <3>1. C \subseteq Nat
            BY Zenon
        <3> HIDE DEF C
        <3> QED BY <2>1, <3>1, Least, Zenon
    <2>3. n \in Nat /\ n <= High /\ f[n] \notin Nat
        OBVIOUS
    <2>4. n # 0
        BY <1>0, <1>7, <2>3, SMT DEF Hists
    <2>5. n - 1 \in Nat /\ n - 1 <= High /\ ~(n <= n - 1) /\ n \in 1 .. High /\ n \in 0 .. High
        BY <1>0, <2>3, <2>4, SMT
    <2>6. f[n - 1] \in Nat
        BY <2>2, <2>5, Zenon
    <2>7. f[n] = f[n - 1] + w[n] /\ w[n] \in Nat
        BY <1>7, <2>5, Zenon DEF Hists
    <2> QED BY <2>3, <2>6, <2>7, SMT
<1>9. \A v \in 0 .. High : f[v] \in Nat
    BY <1>0, <1>8, SMT
<1>10. f \in Hists
    BY <1>7, <1>9, Zenon DEF Hists
<1> QED BY <1>6, <1>7, <1>10, Zenon DEF Sums

\* What holds of p and passes from each number to the next holds from p to n.
LEMMA Upwards ==
    ASSUME NEW p \in Nat, NEW n \in Nat, NEW T, p \in T,
           \A v \in Nat : p <= v /\ v < n /\ v \in T => v + 1 \in T
    PROVE  \A v \in Nat : p <= v /\ v <= n => v \in T
<1> DEFINE B == {v \in Nat : p <= v /\ v <= n /\ v \notin T}
<1> SUFFICES ASSUME B # {} PROVE FALSE
    BY Zenon
<1>1. PICK v \in B : \A m \in B : v <= m
    <2>1. B \subseteq Nat
        BY Zenon
    <2> HIDE DEF B
    <2> QED BY <2>1, Least, Zenon
<1>2. v \in Nat /\ p <= v /\ v <= n /\ v \notin T
    OBVIOUS
<1>3. v # p
    BY <1>2, Zenon
<1>4. v - 1 \in Nat /\ p <= v - 1 /\ v - 1 < n /\ v - 1 <= n /\ ~(v <= v - 1) /\ (v - 1) + 1 = v
    BY <1>2, <1>3, SMT
<1>5. v - 1 \in T
    BY <1>1, <1>4, Zenon
<1> QED BY <1>2, <1>4, <1>5, Zenon

\* Beyond p, the values add at most High for each that is counted.
LEMMA TotalsBeyond ==
    ASSUME NEW h \in Hists, NEW g \in Hists, \A v \in 0 .. High : g[v] = v * h[v],
           NEW C, NEW S, Sums(C, h, High), Sums(S, g, High), NEW p \in 0 .. High
    PROVE  \A q \in 0 .. High : p <= q =>
              C[p] <= C[q] /\ S[p] <= S[q] /\ S[q] - S[p] <= High * (C[q] - C[p])
<1>0. /\ High \in Nat /\ p \in Nat /\ p <= High
      /\ \A v \in 0 .. High : h[v] \in Nat /\ g[v] \in Nat /\ C[v] \in Nat /\ S[v] \in Nat
      /\ \A v \in 1 .. High : C[v] = C[v - 1] + h[v] /\ S[v] = S[v - 1] + g[v]
    <2>1. High \in Nat /\ p \in Nat /\ p <= High
        BY MetricsAssumption, SMT
    <2>2. C \in Hists /\ S \in Hists
        BY Zenon DEF Sums
    <2> QED BY <2>1, <2>2, Zenon DEF Sums, Hists
<1> DEFINE P(v) == C[p] <= C[v] /\ S[p] <= S[v] /\ S[v] - S[p] <= High * (C[v] - C[p])
           T == {v \in Nat : P(v)}
<1>1. p \in T
    BY <1>0, SMT
<1>2. ASSUME NEW v \in Nat, p <= v, v < High, v \in T PROVE v + 1 \in T
    <2>1. v \in 0 .. High /\ v + 1 \in 0 .. High /\ v + 1 \in 1 .. High /\ (v + 1) - 1 = v
        BY <1>0, <1>2, SMT
    <2> DEFINE x == h[v + 1]
               y == g[v + 1]
               c == C[v]
               s == S[v]
               a == C[p]
               b == S[p]
    <2>2. x \in Nat /\ y \in Nat /\ c \in Nat /\ s \in Nat /\ a \in Nat /\ b \in Nat /\ v + 1 \in Nat
          /\ v + 1 \in Int /\ High \in Int
        BY <1>0, <2>1, SMT
    <2>3. C[v + 1] = c + x /\ S[v + 1] = s + y
        <3>1. C[v + 1] = C[(v + 1) - 1] + h[v + 1] /\ S[v + 1] = S[(v + 1) - 1] + g[v + 1]
            BY <1>0, <2>1, Zenon
        <3> QED BY <2>1, <3>1, Zenon
    <2>4. y = (v + 1) * x
        BY <2>1, Zenon
    <2>5. a <= c /\ b <= s /\ s - b <= High * (c - a)
        BY <1>2, Zenon
    <2> HIDE DEF x, y, c, s, a, b
    <2>6. y <= High * x
        <3>1. v + 1 <= High
            BY <1>0, <1>2, SMT
        <3>2. (v + 1) * x <= High * x
            BY <2>2, <3>1, Times0, Zenon
        <3> QED BY <2>4, <3>2, Zenon
    <2> DEFINE k == High * (c - a)
               l == High * x
               m == High * (c + x - a)
    <2>7. k \in Int /\ l \in Int /\ m = k + l
        BY <1>0, <2>2, SMT
    <2>8. s - b <= k /\ y <= l
        BY <2>5, <2>6
    <2> HIDE DEF k, l, m
    <2>9. a <= c + x /\ b <= s + y /\ s + y - b <= m
        BY <2>2, <2>5, <2>7, <2>8, SMT
    <2>10. P(v + 1)
        <3>1. C[p] = a /\ S[p] = b /\ m = High * (c + x - a)
            BY Zenon DEF a, b, m
        <3>2. C[p] <= C[v + 1]
            BY <2>3, <2>9, <3>1, Zenon
        <3>3. S[p] <= S[v + 1]
            BY <2>3, <2>9, <3>1, Zenon
        <3>4. S[v + 1] - S[p] <= High * (C[v + 1] - C[p])
            <4>1. S[v + 1] - S[p] = s + y - b /\ C[v + 1] - C[p] = c + x - a
                BY <2>2, <2>3, <3>1, SMT
            <4>2. High * (C[v + 1] - C[p]) = m
                BY <3>1, <4>1
            <4> QED BY <2>9, <4>1, <4>2
        <3> QED BY <3>2, <3>3, <3>4, Zenon
    <2> QED BY <2>2, <2>10, Zenon
<1>3. \A v \in Nat : p <= v /\ v <= High => v \in T
    <2> HIDE DEF T
    <2> QED BY <1>0, <1>1, <1>2, Upwards, Zenon
<1>4. \A q \in 0 .. High : q \in Nat /\ q <= High
    BY <1>0, SMT
<1> QED BY <1>3, <1>4, Zenon

\* Up to q, they add at most q for each.
LEMMA TotalsBelow ==
    ASSUME NEW h \in Hists, NEW g \in Hists, \A v \in 0 .. High : g[v] = v * h[v],
           NEW C, NEW S, Sums(C, h, High), Sums(S, g, High)
    PROVE  \A q \in 0 .. High : S[q] <= q * C[q]
<1>0. /\ High \in Nat
      /\ \A v \in 0 .. High : h[v] \in Nat /\ g[v] \in Nat /\ C[v] \in Nat /\ S[v] \in Nat
      /\ \A v \in 1 .. High : C[v] = C[v - 1] + h[v] /\ S[v] = S[v - 1] + g[v]
      /\ S[0] = g[0]
    <2>1. High \in Nat
        BY MetricsAssumption
    <2>2. C \in Hists /\ S \in Hists
        BY Zenon DEF Sums
    <2> QED BY <2>1, <2>2, Zenon DEF Sums, Hists
<1> DEFINE T == {v \in Nat : S[v] <= v * C[v]}
<1>1. 0 \in T
    <2>1. 0 \in 0 .. High
        BY <1>0, SMT
    <2>2. S[0] = 0 * h[0] /\ h[0] \in Nat /\ C[0] \in Nat
        BY <1>0, <2>1, Zenon
    <2> QED BY <2>2, SMT
<1>2. ASSUME NEW v \in Nat, 0 <= v, v < High, v \in T PROVE v + 1 \in T
    <2>1. v \in 0 .. High /\ v + 1 \in 0 .. High /\ v + 1 \in 1 .. High /\ (v + 1) - 1 = v
        BY <1>0, <1>2, SMT
    <2> DEFINE x == h[v + 1]
               y == g[v + 1]
               c == C[v]
               s == S[v]
    <2>2. x \in Nat /\ y \in Nat /\ c \in Nat /\ s \in Nat /\ v + 1 \in Nat
        BY <1>0, <2>1, SMT
    <2>3. C[v + 1] = c + x /\ S[v + 1] = s + y
        <3>1. C[v + 1] = C[(v + 1) - 1] + h[v + 1] /\ S[v + 1] = S[(v + 1) - 1] + g[v + 1]
            BY <1>0, <2>1, Zenon
        <3> QED BY <2>1, <3>1, Zenon
    <2>4. y = (v + 1) * x
        BY <2>1, Zenon
    <2>5. s <= v * c
        BY <1>2, Zenon
    <2> HIDE DEF x, y, c, s
    <2> DEFINE k == v * c
               l == (v + 1) * x
               m == (v + 1) * (c + x)
    <2>6. k \in Int /\ l \in Int /\ m = k + c + l
        BY <2>2, SMT
    <2>7. s <= k /\ y = l
        BY <2>4, <2>5
    <2> HIDE DEF k, l, m
    <2>8. s + y <= m
        BY <2>2, <2>6, <2>7, SMT
    <2>9. S[v + 1] <= (v + 1) * C[v + 1]
        BY <2>3, <2>8, Zenon DEF m
    <2> QED BY <2>2, <2>9, Zenon
<1>3. \A v \in Nat : 0 <= v /\ v <= High => v \in T
    <2> HIDE DEF T
    <2> QED BY <1>0, <1>1, <1>2, Upwards, Zenon
<1>4. \A q \in 0 .. High : q \in Nat /\ 0 <= q /\ q <= High
    BY <1>0, SMT
<1> QED BY <1>3, <1>4, Zenon

\* The ranks of the quantiles among n values.
LEMMA Ranks ==
    ASSUME NEW n \in Nat, n # 0, NEW q \in Nat, q <= 999
    PROVE  /\ Rank(q, n) \in Nat /\ 1 <= Rank(q, n) /\ Rank(q, n) <= n
           /\ \A r \in Nat : r <= q => Rank(r, n) <= Rank(q, n)
           /\ q = 999 => n - Rank(q, n) <= n \div 1000
<1>1. ASSUME NEW x \in Int PROVE Max({1, x}) = IF x > 1 THEN x ELSE 1
    BY SMT DEF Max
<1> DEFINE Cut(x) == (x + 999) \div 1000
           Least1(x) == IF x > 1 THEN x ELSE 1
<1>2. ASSUME NEW r \in Nat PROVE r * n \in Nat /\ Rank(r, n) = Least1(Cut(r * n))
    <2> DEFINE y == r * n
               z == (y + 999) \div 1000
    <2>1. y \in Nat
        BY SMT
    <2>2. z \in Int
        <3> HIDE DEF y
        <3> QED BY <2>1, SMT
    <2>3. Rank(r, n) = Max({1, z})
        BY SMT DEF Rank
    <2>4. Cut(r * n) = z
        OBVIOUS
    <2> HIDE DEF y, z, Cut
    <2> QED BY <1>1, <2>1, <2>2, <2>3, <2>4, Zenon DEF y
<1> HIDE DEF Cut, Least1
<1> DEFINE x == q * n
<1>4. x \in Nat /\ x <= 999 * n
    <2>1. q * n <= 999 * n
        <3>1. q \in Int /\ 999 \in Int /\ n \in Nat
            BY SMT
        <3> QED BY <3>1, Times0
    <2> QED BY <1>2, <2>1
<1>5. Rank(q, n) = IF (x + 999) \div 1000 > 1 THEN (x + 999) \div 1000 ELSE 1
    BY <1>2 DEF Cut, Least1
<1>6. ASSUME NEW r \in Nat, r <= q PROVE Rank(r, n) <= Rank(q, n)
    <2> DEFINE y == r * n
    <2>1. y \in Nat /\ y <= x
        <3>1. r \in Int /\ q \in Int
            BY SMT
        <3>2. r * n <= q * n
            BY <1>6, <3>1, Times0, Zenon
        <3> QED BY <1>2, <3>2
    <2>2. Rank(r, n) = IF (y + 999) \div 1000 > 1 THEN (y + 999) \div 1000 ELSE 1
        BY <1>2 DEF Cut, Least1
    <2> HIDE DEF x, y
    <2>3. (y + 999) \div 1000 <= (x + 999) \div 1000
        BY <1>4, <2>1, SMT
    <2>4. (y + 999) \div 1000 \in Int /\ (x + 999) \div 1000 \in Int
        BY <1>4, <2>1, SMT
    <2> QED BY <1>5, <2>2, <2>3, <2>4, SMT
<1>7. q = 999 => x = 999 * n
    OBVIOUS
<1> HIDE DEF x
<1>8. Rank(q, n) \in Nat /\ 1 <= Rank(q, n) /\ Rank(q, n) <= n
    BY <1>4, <1>5, SMT
<1>9. q = 999 => n - Rank(q, n) <= n \div 1000
    BY <1>4, <1>5, <1>7, SMT
<1> QED BY <1>6, <1>8, <1>9

\* value_at_percentile gives the least value of that rank.
LEMMA Percentile ==
    ASSUME NEW h \in Hists, Len0(h) # 0, NEW q \in Nat, q <= 999
    PROVE  LET C == Totals(h)
               p == value_at_percentile(h, q)
           IN /\ p \in 0 .. High /\ C[p] >= Rank(q, Len0(h))
              /\ \A v \in 0 .. High : C[v] >= Rank(q, Len0(h)) => p <= v
<1> DEFINE C == Totals(h)
           n == Len0(h)
           k == Rank(q, n)
           B == {v \in 0 .. High : C[v] >= k}
           p == value_at_percentile(h, q)
<1>1. High \in Nat /\ C \in Hists /\ n = C[High]
    BY TotalsSum, MetricsAssumption, Zenon DEF Sums, Len0
<1>2. n \in Nat /\ High \in 0 .. High
    <2> HIDE DEF C
    <2> QED BY <1>1, SMT DEF Hists
<1>3. k \in Nat /\ k <= n
    BY <1>2, Ranks
<1>4. p = Min(B)
    BY Zenon DEF value_at_percentile
<1> HIDE DEF C, n, k, p
<1>5. High \in B
    BY <1>1, <1>2, <1>3, SMT
<1>6. B \subseteq Nat
    BY <1>1, SMT
<1> DEFINE P(x) == x \in B /\ \A y \in B : x <= y
<1>7. \E x : P(x)
    BY <1>5, <1>6, Least, Zenon
<1>8. p = CHOOSE x \in B : \A y \in B : x <= y
    BY <1>4, Zenon DEF Min
<1>9. P(p)
    BY <1>7, <1>8, Zenon
<1> QED BY <1>9, Zenon DEF C, n, k, p

\* The figures of one histogram belong together.
Agree(p50, p90, p99, p999, count, sum) ==
    /\ p50 <= p90 /\ p90 <= p99 /\ p99 <= p999 /\ p999 <= sum
    /\ sum <= count * p999 + (count \div 1000) * High

\* The figures of a histogram agree.
LEMMA FiguresAgree ==
    ASSUME NEW h \in Hists
    PROVE  Agree(Figure(h, "p50"), Figure(h, "p90"), Figure(h, "p99"), Figure(h, "p999"),
                 Figure(h, "count"), Figure(h, "sum"))
<1> DEFINE P(q) == value_at_percentile(h, q)
           g == [v \in 0 .. High |-> v * h[v]]
           C == Totals(h)
           S == Totals(g)
           n == C[High]
           s == S[High]
           f == n \div 1000
<1>1. /\ Figure(h, "p50") = P(500) /\ Figure(h, "p90") = P(900) /\ Figure(h, "p99") = P(990)
      /\ Figure(h, "p999") = P(999) /\ Figure(h, "count") = n /\ Figure(h, "sum") = s
    <2>1. Quantile["p50"] = 500 /\ Quantile["p90"] = 900 /\ Quantile["p99"] = 990 /\ Quantile["p999"] = 999
        BY SMT DEF Quantile
    <2> QED BY <2>1, SMT DEF Figure, Len0, SumOf
<1>2. Len0(h) = n
    BY Zenon DEF Len0
<1>3. High \in Nat /\ \A v \in 0 .. High : h[v] \in Nat
    BY MetricsAssumption, Zenon DEF Hists
<1>4. g \in Hists /\ \A v \in 0 .. High : g[v] = v * h[v]
    <2>1. \A v \in 0 .. High : v * h[v] \in Nat
        <3> TAKE v \in 0 .. High
        <3>1. v \in Nat /\ h[v] \in Nat
            BY <1>3, SMT
        <3> QED BY <3>1, SMT
    <2> QED BY <2>1, Zenon DEF Hists
<1>5. Sums(C, h, High) /\ Sums(S, g, High)
    BY <1>4, TotalsSum, Zenon
<1> HIDE DEF g, C, S
<1>6. /\ \A v \in 0 .. High : C[v] \in Nat /\ S[v] \in Nat
      /\ \A v \in 1 .. High : C[v] = C[v - 1] + h[v] /\ S[v] = S[v - 1] + g[v]
      /\ High \in 0 .. High
    <2>1. C \in Hists /\ S \in Hists
        BY <1>5, Zenon DEF Sums
    <2>2. High \in 0 .. High
        BY <1>3, SMT
    <2> QED BY <1>5, <2>1, <2>2, Zenon DEF Sums, Hists
<1>7. \A q \in 0 .. High : S[q] <= q * C[q]
    BY <1>4, <1>5, TotalsBelow, Zenon
<1>8. n \in Nat /\ s \in Nat
    BY <1>6, Zenon
<1>9. CASE n = 0
    <2>1. \A q : P(q) = 0
        BY <1>2, <1>9, Zenon DEF value_at_percentile
    <2>2. s <= High * n
        BY <1>6, <1>7, Zenon
    <2> HIDE DEF n, s, P
    <2>3. s = 0
        BY <1>3, <1>8, <1>9, <2>2, SMT
    <2>4. Agree(0, 0, 0, 0, 0, 0)
        BY <1>3, SMT DEF Agree
    <2> QED BY <1>1, <1>9, <2>1, <2>3, <2>4, SMT
<1>10. CASE n # 0
    <2> DEFINE K(q) == Rank(q, n)
    <2>1. ASSUME NEW q \in Nat, q <= 999
          PROVE  P(q) \in 0 .. High /\ C[P(q)] >= K(q) /\ \A v \in 0 .. High : C[v] >= K(q) => P(q) <= v
        BY <1>2, <1>10, <2>1, Percentile DEF C
    <2>2. ASSUME NEW q \in Nat, q <= 999
          PROVE  K(q) \in Nat /\ 1 <= K(q) /\ K(q) <= n /\ \A r \in Nat : r <= q => K(r) <= K(q)
        BY <1>8, <1>10, <2>2, Ranks
    <2>3. K(999) \in Nat /\ 1 <= K(999) /\ n - K(999) <= f
        <3>1. 999 \in Nat /\ 999 <= 999
            BY SMT
        <3>2. \A q \in Nat : q <= 999 => K(q) \in Nat /\ 1 <= K(q) /\ (q = 999 => n - K(q) <= f)
            <4> HIDE DEF n
            <4> SUFFICES ASSUME NEW q \in Nat, q <= 999
                         PROVE  K(q) \in Nat /\ 1 <= K(q) /\ (q = 999 => n - K(q) <= f)
                OBVIOUS
            <4>1. K(q) \in Nat /\ 1 <= K(q)
                BY <2>2
            <4>2. q = 999 => n - Rank(q, n) <= n \div 1000
                BY <1>8, <1>10, Ranks
            <4> QED BY <4>1, <4>2
        <3> HIDE DEF K, f, n
        <3> QED BY <3>1, <3>2, SMT
    <2> HIDE DEF P, K
    <2>4. ASSUME NEW q \in Nat, NEW r \in Nat, r <= q, q <= 999 PROVE P(r) <= P(q)
        <3>1. r <= 999
            BY <2>4, SMT
        <3>2. P(q) \in 0 .. High /\ C[P(q)] >= K(q) /\ K(r) <= K(q) /\ K(r) \in Nat /\ K(q) \in Nat
            BY <2>1, <2>2, <2>4, <3>1
        <3>3. C[P(q)] \in Nat
            BY <1>6, <3>2, Zenon
        <3>4. C[P(q)] >= K(r)
            BY <3>2, <3>3, SMT
        <3> QED BY <2>1, <3>1, <3>2, <3>4
    <2> DEFINE p == P(999)
    <2>5. p \in 0 .. High /\ C[p] >= K(999) /\ \A v \in 0 .. High : C[v] >= K(999) => p <= v
        <3>1. 999 \in Nat /\ 999 <= 999
            BY SMT
        <3> QED BY <2>1, <3>1
    <2> DEFINE k == K(999)
    <2>6. k \in Nat /\ 1 <= k /\ n - k <= f /\ p \in 0 .. High /\ C[p] >= k
          /\ \A v \in 0 .. High : C[v] >= k => p <= v
        BY <2>3, <2>5
    <2>7. P(500) <= P(900) /\ P(900) <= P(990) /\ P(990) <= p
        BY <2>4
    <2> HIDE DEF p, k
    <2>8. C[p] \in Nat /\ S[p] \in Nat /\ p \in Nat /\ p <= High
        BY <1>3, <1>6, <2>6, SMT
    <2>9. C[p] <= n /\ S[p] <= s /\ s - S[p] <= High * (n - C[p])
        BY <1>4, <1>5, <1>6, <2>6, <2>8, TotalsBeyond, Zenon
    <2> HIDE DEF n, s, f
    <2>10. p <= s
        <3>1. CASE p = 0
            BY <1>8, <3>1, SMT
        <3>2. CASE p # 0
            <4>1. p \in 1 .. High /\ p - 1 \in 0 .. High /\ ~(p <= p - 1)
                BY <1>3, <2>8, <3>2, SMT
            <4> DEFINE c == C[p - 1]
                       x == h[p]
                       y == S[p - 1]
            <4>2. c \in Nat /\ y \in Nat /\ x \in Nat /\ C[p] = c + x /\ S[p] = y + p * x
                BY <1>3, <1>4, <1>6, <2>6, <4>1, Zenon
            <4>3. ~(c >= k)
                BY <2>6, <4>1, Zenon
            <4> HIDE DEF c, x, y
            <4>4. x >= 1
                BY <2>6, <4>2, <4>3, SMT
            <4>5. 1 * p <= x * p /\ x * p \in Int /\ x * p = p * x
                <5>1. 1 \in Int /\ x \in Int
                    BY <4>2, SMT
                <5> QED BY <2>8, <4>4, <5>1, Times0, Zenon
            <4> DEFINE z == p * x
            <4>6. p <= z /\ z \in Int /\ S[p] = y + z
                BY <2>8, <4>2, <4>5, SMT
            <4> HIDE DEF z
            <4> QED BY <1>8, <2>8, <2>9, <4>2, <4>6, SMT
        <3> QED BY <3>1, <3>2
    <2>11. s <= n * p + f * High
        <3>1. f \in Nat
            BY <1>8, SMT DEF f
        <3> DEFINE c == C[p]
                   d == n - c
        <3>2. d \in Nat /\ d <= f
            <4>1. c \in Nat /\ c <= n /\ c >= k
                BY <2>6, <2>8, <2>9
            <4> HIDE DEF c
            <4> QED BY <1>8, <2>6, <3>1, <4>1, SMT
        <3>3. S[p] <= p * c
            BY <1>7, <2>6, Zenon
        <3>4. c \in Nat /\ c <= n /\ s - S[p] <= High * d
            BY <2>8, <2>9
        <3> HIDE DEF c, d
        <3>5. c * p <= n * p /\ c * p = p * c /\ c * p \in Int /\ n * p \in Int
            <4>1. c \in Int /\ n \in Int
                BY <1>8, <3>4, SMT
            <4> QED BY <2>8, <3>4, <4>1, Times0, Zenon
        <3>6. d * High <= f * High /\ d * High = High * d /\ d * High \in Int /\ f * High \in Int
            <4>1. d \in Int /\ f \in Int
                BY <3>1, <3>2, SMT
            <4> QED BY <1>3, <3>2, <4>1, Times0, Zenon
        <3> DEFINE a == p * c
                   b == n * p
                   i == High * d
                   j == f * High
        <3>7. a <= b /\ a \in Int /\ b \in Int /\ i <= j /\ i \in Int /\ j \in Int
              /\ S[p] <= a /\ s - S[p] <= i
            BY <3>3, <3>4, <3>5, <3>6, Zenon
        <3> HIDE DEF a, b, i, j
        <3>8. s <= b + j
            BY <1>8, <2>8, <3>7, SMT
        <3> QED BY <3>8, Zenon DEF b, j
    <2>12. Agree(P(500), P(900), P(990), p, n, s)
        BY <2>7, <2>10, <2>11 DEF Agree, f
    <2> QED BY <1>1, <2>12 DEF p, n, s
<1> QED BY <1>9, <1>10

-----------------------------------------------------------------------------
(* What render_prometheus() writes                                         *)

\* What is left of a summary from its j-th reading on.
Rest(h, j) == [l \in 1 .. 9 - j |-> Summary(h)[j + l - 1]]

\* Each part of the plan is about one metric, and no other part is.
OfOneMetric ==
    /\ \A i \in 1 .. Len(plan) : \A l \in 1 .. Len(plan[i]) : plan[i][l].of = plan[i][1].of
    /\ \A i, k \in 1 .. Len(plan) : plan[i][1].of = plan[k][1].of => i = k

None(h) == \A e \in ToSet(out) : e.of.of # h

\* All figures of h that are out are those of g.
From(h, g) == \A e \in ToSet(out) : e.of.of = h => e.is = Figure(g, e.of.what)

\* The readings of h before the j-th are out.
HasRead(h, j) == \A l \in 2 .. 7 : l < j => \E e \in ToSet(out) : e.of = Summary(h)[l]

Ahead(h) == None(h) /\ \E i \in 1 .. Len(plan) : plan[i] = Summary(h)

Under(h, j) ==
    /\ plan # <<>> /\ plan[1] = Rest(h, j)
    /\ h \in locked /\ From(h, hist[h]) /\ HasRead(h, j)
    /\ j < 8 => \A e \in ToSet(out) : e.of # Reading(h, "sum")

Passed(h) ==
    /\ \A i \in 1 .. Len(plan) : plan[i][1].of # h
    /\ None(h) \/ \E g \in Hists : From(h, g) /\ HasRead(h, 8)

\* A summary has not been begun, is being written under its lock, or is over.
Rendering ==
    OfOneMetric /\ \A h \in ToSet(Histograms) : Ahead(h) \/ (\E j \in 2 .. 8 : Under(h, j)) \/ Passed(h)

\* No sum is read: a snapshot.
NoSum ==
    /\ \A i \in 1 .. Len(plan) : \A l \in 1 .. Len(plan[i]) : plan[i][l].what # "sum"
    /\ \A e \in ToSet(out) : e.of.what # "sum"

RenderInv == hist \in [ToSet(Histograms) -> Hists] /\ (NoSum \/ Rendering)

\* The readings of a summary.
LEMMA SummaryFacts ==
    ASSUME NEW h \in STRING
    PROVE  /\ Summary(h) \in Parts /\ Len(Summary(h)) = 8
           /\ Summary(h)[1] = Reading(h, "lock") /\ Summary(h)[7] = Reading(h, "sum")
           /\ Summary(h)[8] = Reading(h, "unlock")
           /\ Summary(h)[2] = Reading(h, "p50") /\ Summary(h)[3] = Reading(h, "p90")
           /\ Summary(h)[4] = Reading(h, "p99") /\ Summary(h)[5] = Reading(h, "p999")
           /\ Summary(h)[6] = Reading(h, "count")
BY SMT DEF Summary, Reading, Parts, Readings, Whats

\* What a reading of a summary is of, and what it asks for.
LEMMA SummaryWhats ==
    ASSUME NEW h \in STRING, NEW j \in 1 .. 8
    PROVE  /\ Summary(h)[j].of = h
           /\ Summary(h)[j].what = "lock" <=> j = 1
           /\ Summary(h)[j].what = "unlock" <=> j = 8
           /\ Summary(h)[j].what = "sum" <=> j = 7
           /\ Summary(h)[j].what # "get"
<1>1. \A w : Reading(h, w).of = h /\ Reading(h, w).what = w
    BY Zenon DEF Reading
<1>2. j = 1 \/ j = 2 \/ j = 3 \/ j = 4 \/ j = 5 \/ j = 6 \/ j = 7 \/ j = 8
    BY SMT
<1> QED BY <1>1, <1>2, SummaryFacts, SMT

\* The parts of a plan after a reading.
LEMMA AfterFacts ==
    ASSUME plan \in Seq(Parts), plan # <<>>
    PROVE  LET p == plan[1] IN
           /\ p \in Seq(Readings) /\ Len(p) \in Nat \ {0} /\ Len(plan) \in Nat \ {0} /\ Due = p[1]
           /\ Len(p) = 1 => /\ Len(AfterDue) = Len(plan) - 1
                            /\ \A i \in 1 .. Len(plan) - 1 : AfterDue[i] = plan[i + 1]
           /\ Len(p) # 1 => /\ Len(AfterDue) = Len(plan)
                            /\ AfterDue[1] = Tail(p)
                            /\ \A i \in 2 .. Len(plan) : AfterDue[i] = plan[i]
           /\ Len(Tail(p)) = Len(p) - 1
           /\ \A l \in 1 .. Len(p) - 1 : Tail(p)[l] = p[l + 1]
<1> DEFINE p == plan[1]
<1>1. /\ p \in Parts /\ Tail(plan) \in Seq(Parts) /\ Len(plan) \in Nat \ {0}
      /\ Len(Tail(plan)) = Len(plan) - 1 /\ \A i \in 1 .. Len(Tail(plan)) : Tail(plan)[i] = plan[i + 1]
      /\ Head(plan) = p
    <2>1. /\ Head(plan) \in Parts /\ Tail(plan) \in Seq(Parts)
          /\ Len(Tail(plan)) = Len(plan) - 1 /\ \A i \in 1 .. Len(Tail(plan)) : Tail(plan)[i] = plan[i + 1]
        BY HeadTailProperties, Zenon
    <2>2. Len(plan) \in Nat \ {0}
        BY EmptySeq, Zenon
    <2>3. Head(plan) = p
        OBVIOUS
    <2> QED BY <2>1, <2>2, <2>3
<1>2. p \in Seq(Readings) /\ p # <<>>
    BY <1>1, Zenon DEF Parts
<1> HIDE DEF p
<1>3. Head(p) = p[1] /\ Len(p) \in Nat \ {0}
      /\ Len(Tail(p)) = Len(p) - 1 /\ \A i \in 1 .. Len(Tail(p)) : Tail(p)[i] = p[i + 1]
    <2>1. Len(Tail(p)) = Len(p) - 1 /\ \A i \in 1 .. Len(Tail(p)) : Tail(p)[i] = p[i + 1]
        BY <1>2, HeadTailProperties, Zenon
    <2>2. Len(p) \in Nat \ {0}
        BY <1>2, EmptySeq, Zenon
    <2>3. Head(p) = p[1]
        BY <1>2
    <2> QED BY <2>1, <2>2, <2>3
<1>4. Due = p[1] /\ AfterDue = IF Len(p) = 1 THEN Tail(plan) ELSE [plan EXCEPT ![1] = Tail(p)]
    BY <1>1, <1>3, SMT DEF Due, AfterDue, p
<1>5. Len(p) = 1 => Len(AfterDue) = Len(plan) - 1 /\ \A i \in 1 .. Len(plan) - 1 : AfterDue[i] = plan[i + 1]
    BY <1>1, <1>4, Zenon
<1>6. ASSUME Len(p) # 1
      PROVE  Len(AfterDue) = Len(plan) /\ AfterDue[1] = Tail(p) /\ \A i \in 2 .. Len(plan) : AfterDue[i] = plan[i]
    <2>1. Tail(p) \in Parts
        <3>1. Len(Tail(p)) # 0
            BY <1>3, <1>6, SMT
        <3>2. Tail(p) \in Seq(Readings)
            BY <1>2, HeadTailProperties, Zenon
        <3> QED BY <3>1, <3>2, EmptySeq, Zenon DEF Parts
    <2>2. 1 \in 1 .. Len(plan) /\ \A i \in 2 .. Len(plan) : i \in 1 .. Len(plan) /\ i # 1
        BY <1>1, SMT
    <2>3. /\ Len(AfterDue) = Len(plan)
          /\ \A j \in 1 .. Len(plan) : AfterDue[j] = IF j = 1 THEN Tail(p) ELSE plan[j]
        <3>1. AfterDue = [plan EXCEPT ![1] = Tail(p)]
            BY <1>4, <1>6
        <3> QED BY <2>1, <2>2, <3>1, ExceptSeq, SMT
    <2> QED BY <2>2, <2>3, Zenon
<1> QED BY <1>1, <1>2, <1>3, <1>4, <1>5, <1>6, Zenon DEF p

\* What a step of the scraper writes.
LEMMA Writes ==
    ASSUME NEW E, out \in Seq(E), ScrapeStep
    PROVE  /\ plan # <<>> /\ plan' = AfterDue /\ UNCHANGED <<counter, gauge, hist>>
           /\ IF Due.what \in {"lock", "unlock"}
              THEN ToSet(out)' = ToSet(out)
              ELSE ToSet(out)' = ToSet(out) \union {[of |-> Due, is |-> Value(Due)]}
           /\ Due.what = "lock" => locked' = locked \union {Due.of}
           /\ Due.what = "unlock" => locked' = locked \ {Due.of}
           /\ Due.what \notin {"lock", "unlock"} => locked' = locked
<1>1. CASE ReadFigure
    <2> DEFINE e == [of |-> Due, is |-> Value(Due)]
    <2>1. out' = Append(out, e) /\ Due.what \notin {"lock", "unlock"} /\ plan # <<>> /\ plan' = AfterDue
          /\ UNCHANGED <<counter, gauge, hist, locked>>
        BY <1>1, Zenon DEF ReadFigure
    <2>2. ToSet(Append(out, e)) = ToSet(out) \union {e}
        <3> HIDE DEF e
        <3> DEFINE F == E \union {e}
        <3>1. out \in Seq(F) /\ e \in F
            BY SeqMonotonic, Zenon
        <3> HIDE DEF F
        <3> DEFINE t == Append(out, e)
        <3>2. t \in Seq(F) /\ Len(t) = Len(out) + 1 /\ (\A i \in 1 .. Len(out) : t[i] = out[i])
              /\ t[Len(out) + 1] = e
            BY <3>1, AppendProperties
        <3> HIDE DEF t
        <3>3. Len(out) \in Nat /\ DOMAIN out = 1 .. Len(out) /\ DOMAIN t = 1 .. Len(t)
            BY <3>1, <3>2, LenProperties
        <3>4. \A i : i \in 1 .. Len(t) <=> i \in 1 .. Len(out) \/ i = Len(out) + 1
            BY <3>2, <3>3, SMT
        <3>6. ASSUME NEW x \in ToSet(t) PROVE x \in ToSet(out) \/ x = e
            <4>1. PICK i \in DOMAIN t : x = t[i]
                BY <3>6, Zenon DEF ToSet
            <4>2. i \in 1 .. Len(out) \/ i = Len(out) + 1
                BY <3>3, <3>4, <4>1, Zenon
            <4>3. CASE i \in 1 .. Len(out)
                BY <3>2, <3>3, <4>1, <4>3, Zenon DEF ToSet
            <4>4. CASE i = Len(out) + 1
                BY <3>2, <4>1, <4>4, Zenon
            <4> QED BY <4>2, <4>3, <4>4
        <3>7. ToSet(out) \subseteq ToSet(t) /\ e \in ToSet(t)
            <4>1. \A i \in DOMAIN t : t[i] \in ToSet(t)
                BY Zenon DEF ToSet
            <4>2. e \in ToSet(t)
                <5>1. Len(out) + 1 \in DOMAIN t
                    BY <3>2, <3>3, SMT
                <5> QED BY <3>2, <4>1, <5>1, Zenon
            <4>3. ASSUME NEW x \in ToSet(out) PROVE x \in ToSet(t)
                <5>1. PICK i \in 1 .. Len(out) : x = out[i]
                    BY <3>3, <4>3, Zenon DEF ToSet
                <5>2. i \in DOMAIN t /\ x = t[i]
                    BY <3>2, <3>3, <5>1, SMT
                <5> QED BY <4>1, <5>2, Zenon
            <4> QED BY <4>2, <4>3, Zenon
        <3> QED BY <3>6, <3>7, Zenon DEF t
    <2>3. ToSet(out)' = ToSet(out')
        BY Zenon DEF ToSet
    <2> QED BY <2>1, <2>2, <2>3, Zenon
<1>2. CASE TakeLock
    <2>1. Due.what = "lock" /\ out' = out /\ plan # <<>> /\ plan' = AfterDue /\ locked' = locked \union {Due.of}
          /\ UNCHANGED <<counter, gauge, hist>>
        BY <1>2, Zenon DEF TakeLock
    <2> QED BY <2>1, Zenon DEF ToSet
<1>3. CASE ReleaseLock
    <2>1. Due.what = "unlock" /\ out' = out /\ plan # <<>> /\ plan' = AfterDue /\ locked' = locked \ {Due.of}
          /\ UNCHANGED <<counter, gauge, hist>>
        BY <1>3, Zenon DEF ReleaseLock
    <2> QED BY <2>1, Zenon DEF ToSet
<1> QED BY <1>1, <1>2, <1>3, Zenon DEF ScrapeStep

\* A reading leads on to the rest of its part, or to the next part.
Shift == IF Len(plan[1]) = 1 THEN 1 ELSE 0

\* The parts that are left are about the metrics they were about.
LEMMA PlanMoves ==
    ASSUME plan \in Seq(Parts), plan # <<>>, plan' = AfterDue
    PROVE  /\ \A k \in 1 .. Len(plan') :
                 /\ k + Shift \in 1 .. Len(plan) /\ (k + Shift # 1 => plan'[k] = plan[k + Shift])
                 /\ k + Shift = 1 =>
                       /\ Len(plan'[k]) = Len(plan[1]) - 1 /\ Len(plan[1]) >= 2
                       /\ \A l \in 1 .. Len(plan[1]) - 1 : plan'[k][l] = plan[1][l + 1]
           /\ \A i \in 2 .. Len(plan) : i - Shift \in 1 .. Len(plan') /\ plan'[i - Shift] = plan[i]
<1> DEFINE p == plan[1]
           n == Len(p)
           N == Len(plan)
           a == AfterDue
<1>1. /\ n \in Nat \ {0} /\ N \in Nat \ {0}
      /\ n = 1 => Len(a) = N - 1 /\ \A i \in 1 .. N - 1 : a[i] = plan[i + 1]
      /\ n # 1 => Len(a) = N /\ a[1] = Tail(p) /\ \A i \in 2 .. N : a[i] = plan[i]
      /\ Len(Tail(p)) = n - 1 /\ \A l \in 1 .. n - 1 : Tail(p)[l] = p[l + 1]
    BY AfterFacts, Zenon
<1>2. plan' = a /\ Shift = IF n = 1 THEN 1 ELSE 0
    BY Zenon DEF Shift
<1> HIDE DEF p, n, N, a
<1>3. CASE n = 1
    <2>1. Shift = 1 /\ Len(a) = N - 1 /\ \A i \in 1 .. N - 1 : a[i] = plan[i + 1]
        BY <1>1, <1>2, <1>3, Zenon
    <2>2. \A k \in 1 .. Len(a) : k + 1 \in 1 .. N /\ k + 1 # 1 /\ a[k] = plan[k + 1]
        BY <1>1, <2>1, SMT
    <2>3. \A i \in 2 .. N : i - 1 \in 1 .. Len(a) /\ a[i - 1] = plan[i]
        <3> TAKE i \in 2 .. N
        <3>1. i - 1 \in 1 .. N - 1 /\ (i - 1) + 1 = i
            BY <1>1, SMT
        <3> QED BY <2>1, <3>1, Zenon
    <2> QED BY <1>2, <2>1, <2>2, <2>3, Zenon DEF N
<1>4. CASE n # 1
    <2>1. Shift = 0 /\ Len(a) = N /\ a[1] = Tail(p) /\ \A i \in 2 .. N : a[i] = plan[i]
        BY <1>1, <1>2, <1>4, Zenon
    <2>2. n >= 2
        BY <1>1, <1>4, SMT
    <2>3. ASSUME NEW k \in 1 .. Len(a)
          PROVE  /\ k + 0 \in 1 .. N /\ (k + 0 # 1 => a[k] = plan[k + 0])
                 /\ k + 0 = 1 => Len(a[k]) = n - 1 /\ n >= 2 /\ \A l \in 1 .. n - 1 : a[k][l] = p[l + 1]
        <3>1. k + 0 = k /\ k \in 1 .. N /\ (k # 1 => k \in 2 .. N)
            BY <1>1, <2>1, SMT
        <3>2. k # 1 => a[k] = plan[k]
            BY <2>1, <3>1, Zenon
        <3>3. k = 1 => Len(a[k]) = n - 1 /\ n >= 2 /\ \A l \in 1 .. n - 1 : a[k][l] = p[l + 1]
            BY <1>1, <2>1, <2>2, Zenon
        <3> QED BY <3>1, <3>2, <3>3, Zenon
    <2>4. \A i \in 2 .. N : i - 0 \in 1 .. Len(a) /\ a[i - 0] = plan[i]
        <3> TAKE i \in 2 .. N
        <3>1. i - 0 = i /\ i \in 1 .. N
            BY <1>1, SMT
        <3> QED BY <2>1, <3>1, Zenon
    <2>5. \A k \in 1 .. Len(plan') :
             /\ k + Shift \in 1 .. N /\ (k + Shift # 1 => plan'[k] = plan[k + Shift])
             /\ k + Shift = 1 =>
                   Len(plan'[k]) = n - 1 /\ n >= 2 /\ \A l \in 1 .. n - 1 : plan'[k][l] = p[l + 1]
        <3>1. plan' = a /\ Shift = 0
            BY <1>2, <2>1
        <3> QED BY <2>3, <3>1
    <2>6. \A i \in 2 .. N : i - Shift \in 1 .. Len(plan') /\ plan'[i - Shift] = plan[i]
        <3>1. plan' = a /\ Shift = 0
            BY <1>2, <2>1
        <3> QED BY <2>4, <3>1
    <2> QED BY <2>5, <2>6 DEF N, n, p
<1> QED BY <1>3, <1>4

\* The same, while each part is about one metric of its own.
LEMMA PartsMove ==
    ASSUME plan \in Seq(Parts), plan # <<>>, plan' = AfterDue, OfOneMetric
    PROVE  /\ \A k \in 1 .. Len(plan') : k + Shift \in 1 .. Len(plan) /\ plan'[k][1].of = plan[k + Shift][1].of
           /\ OfOneMetric'
<1> DEFINE N == Len(plan)
           M == Len(plan')
<1>0. N \in Nat \ {0} /\ Len(plan[1]) \in Nat
    BY AfterFacts, Zenon
<1>1. Shift \in Int
    BY SMT DEF Shift
<1>2. ASSUME NEW k \in 1 .. M
      PROVE  /\ k + Shift \in 1 .. N /\ plan'[k][1].of = plan[k + Shift][1].of
             /\ \A l \in 1 .. Len(plan'[k]) : plan'[k][l].of = plan[k + Shift][1].of
    <2>1. k + Shift \in 1 .. N
        BY <1>2, PlanMoves, Zenon
    <2>2. CASE k + Shift # 1
        <3>1. plan'[k] = plan[k + Shift]
            BY <1>2, <2>2, PlanMoves, Zenon
        <3> QED BY <2>1, <3>1, Zenon DEF OfOneMetric
    <2>3. CASE k + Shift = 1
        <3> DEFINE n == Len(plan[1])
        <3>1. Len(plan'[k]) = n - 1 /\ n >= 2 /\ \A l \in 1 .. n - 1 : plan'[k][l] = plan[1][l + 1]
            BY <1>2, <2>3, PlanMoves, Zenon
        <3>2. n \in Nat /\ 1 \in 1 .. N
            BY <1>0, SMT
        <3>3. \A m \in 1 .. n : plan[1][m].of = plan[1][1].of
            BY <3>2, Zenon DEF OfOneMetric
        <3> HIDE DEF n
        <3>4. 1 \in 1 .. n - 1 /\ \A l \in 1 .. n - 1 : l + 1 \in 1 .. n
            BY <3>1, <3>2, SMT
        <3>5. \A l \in 1 .. n - 1 : plan'[k][l].of = plan[1][1].of
            BY <3>1, <3>3, <3>4, Zenon
        <3> QED BY <2>1, <2>3, <3>1, <3>4, <3>5, Zenon
    <2> QED BY <2>2, <2>3
<1>3. \A i \in 1 .. M : \A l \in 1 .. Len(plan'[i]) : plan'[i][l].of = plan'[i][1].of
    BY <1>2, Zenon
<1>4. ASSUME NEW i \in 1 .. M, NEW k \in 1 .. M, plan'[i][1].of = plan'[k][1].of PROVE i = k
    <2>1. i + Shift = k + Shift
        <3>1. \A x, y \in 1 .. N : plan[x][1].of = plan[y][1].of => x = y
            BY Zenon DEF OfOneMetric
        <3>2. i + Shift \in 1 .. N /\ k + Shift \in 1 .. N /\ plan[i + Shift][1].of = plan[k + Shift][1].of
            <4>1. i + Shift \in 1 .. N /\ plan'[i][1].of = plan[i + Shift][1].of
                BY <1>2, Zenon
            <4>2. k + Shift \in 1 .. N /\ plan'[k][1].of = plan[k + Shift][1].of
                BY <1>2, Zenon
            <4> QED BY <1>4, <4>1, <4>2, Zenon
        <3> QED BY <3>1, <3>2, Zenon
    <2>2. i \in Int /\ k \in Int
        BY SMT
    <2> QED BY <1>1, <2>1, <2>2, SMT
<1>5. OfOneMetric'
    BY <1>3, <1>4, Zenon DEF OfOneMetric
<1> QED BY <1>2, <1>5, Zenon

Equals(s, f, n) == f = [l \in 1 .. n |-> f[l]] /\ \A l \in 1 .. n : s[l] = f[l]

\* A sequence is known by its length and its elements.
LEMMA SameSeq ==
    ASSUME NEW S, NEW s \in Seq(S), NEW n \in Nat, Len(s) = n, NEW f, Equals(s, f, n)
    PROVE  s = f
<1>0. f = [l \in 1 .. n |-> f[l]] /\ \A l \in 1 .. n : s[l] = f[l]
    BY Zenon DEF Equals
<1>1. DOMAIN s = 1 .. n /\ s = [l \in 1 .. n |-> s[l]]
    BY LenProperties
<1> QED BY <1>0, <1>1, Zenon

\* What is left of a summary.
LEMMA RestFacts ==
    ASSUME NEW h \in STRING, NEW j \in 1 .. 8
    PROVE  /\ Len(Rest(h, j)) = 9 - j /\ Rest(h, j)[1] = Summary(h)[j]
           /\ Rest(h, j) = [l \in 1 .. 9 - j |-> Rest(h, j)[l]]
           /\ \A l \in 1 .. 9 - j : Rest(h, j)[l] = Summary(h)[j + l - 1]
           /\ Rest(h, 1) = Summary(h)
<1>1. 9 - j \in Nat /\ 1 \in 1 .. 9 - j /\ j + 1 - 1 = j
    BY SMT
<1>2. \A l \in 1 .. 9 - j : Rest(h, j)[l] = Summary(h)[j + l - 1]
    BY Zenon DEF Rest
<1>3. Rest(h, j)[1] = Summary(h)[j]
    <2>1. Rest(h, j)[1] = Summary(h)[j + 1 - 1]
        BY <1>1, <1>2, Zenon
    <2> QED BY <1>1, <2>1, Zenon
<1>4. Rest(h, j) = [l \in 1 .. 9 - j |-> Rest(h, j)[l]]
    BY Zenon DEF Rest
<1>5. Len(Rest(h, j)) = 9 - j
    <2> DEFINE n == 9 - j
    <2>1. n \in Nat /\ DOMAIN Rest(h, j) = 1 .. n
        BY <1>1, Zenon DEF Rest
    <2> HIDE DEF n
    <2>2. Len(Rest(h, j)) = n
        BY <1>4, <2>1, SMT DEF n
    <2> QED BY <2>2 DEF n
<1>6. Rest(h, 1) = Summary(h)
    <2>1. Summary(h) \in Seq(Readings) /\ Len(Summary(h)) = 8
        BY SummaryFacts, Zenon DEF Parts
    <2>2. \A l \in 1 .. 8 : Summary(h)[1 + l - 1] = Summary(h)[l]
        <3> TAKE l \in 1 .. 8
        <3>1. 1 + l - 1 = l
            BY SMT
        <3> QED BY <3>1, Zenon
    <2>3. Rest(h, 1) = [l \in 1 .. 8 |-> Summary(h)[1 + l - 1]]
        <3>1. 9 - 1 = 8
            BY SMT
        <3> QED BY <3>1, Zenon DEF Rest
    <2>4. Rest(h, 1) = [l \in 1 .. 8 |-> Rest(h, 1)[l]] /\ \A l \in 1 .. 8 : Summary(h)[l] = Rest(h, 1)[l]
        BY <2>2, <2>3, Zenon
    <2>5. 8 \in Nat
        BY SMT
    <2>6. Equals(Summary(h), Rest(h, 1), 8)
        BY <2>4, Zenon DEF Equals
    <2> DEFINE s == Summary(h)
               f == Rest(h, 1)
               n == 8
    <2>7. s \in Seq(Readings) /\ n \in Nat /\ Len(s) = n /\ Equals(s, f, n)
        BY <2>1, <2>5, <2>6, Zenon
    <2> HIDE DEF s, f, n
    <2>8. s = f
        BY <2>7, SameSeq, Zenon
    <2> QED BY <2>8, Zenon DEF s, f
<1> QED BY <1>2, <1>3, <1>4, <1>5, <1>6

\* The next reading of a summary.
LEMMA RestMoves ==
    ASSUME NEW h \in STRING, NEW j \in 1 .. 7, plan \in Seq(Parts), plan # <<>>, plan' = AfterDue,
           plan[1] = Rest(h, j)
    PROVE  plan' # <<>> /\ plan'[1] = Rest(h, j + 1)
<1>0. j \in 1 .. 8 /\ j + 1 \in 1 .. 8 /\ 9 - j # 1 /\ 9 - (j + 1) = 8 - j /\ 8 - j \in Nat
      /\ (9 - j) - 1 = 8 - j
    BY SMT
<1> DEFINE p == plan[1]
           t == Tail(p)
<1>1. Len(p) = 9 - j /\ \A l \in 1 .. 9 - j : p[l] = Summary(h)[j + l - 1]
    <2>1. Len(Rest(h, j)) = 9 - j /\ \A l \in 1 .. 9 - j : Rest(h, j)[l] = Summary(h)[j + l - 1]
        BY <1>0, RestFacts
    <2> QED BY <2>1, Zenon
<1>2. /\ Len(AfterDue) = Len(plan) /\ AfterDue[1] = t /\ Len(plan) \in Nat \ {0}
      /\ Len(t) = Len(p) - 1 /\ \A l \in 1 .. Len(p) - 1 : t[l] = p[l + 1]
    BY <1>0, <1>1, AfterFacts, Zenon
<1>3. plan' # <<>> /\ plan'[1] = t
    <2>1. Len(plan') # 0
        BY <1>2
    <2>2. Len(<<>>) = 0
        BY SMT
    <2> QED BY <1>2, <2>1, <2>2, Zenon
<1>4. t \in Seq(Readings)
    <2>1. plan' \in Seq(Parts)
        BY DueFacts, Zenon
    <2>2. plan'[1] \in Parts
        <3>1. 1 \in 1 .. Len(plan')
            BY <1>2, SMT
        <3> QED BY <2>1, <3>1, ElementOfSeq, Zenon
    <2> QED BY <1>3, <2>2, Zenon DEF Parts
<1> HIDE DEF t, p
<1> DEFINE r == Rest(h, j + 1)
<1>5. r = [l \in 1 .. 8 - j |-> r[l]] /\ \A l \in 1 .. 8 - j : r[l] = Summary(h)[(j + 1) + l - 1]
    <2>1. r = [l \in 1 .. 9 - (j + 1) |-> r[l]] /\ \A l \in 1 .. 9 - (j + 1) : r[l] = Summary(h)[(j + 1) + l - 1]
        BY <1>0, RestFacts, Zenon
    <2> HIDE DEF r
    <2> QED BY <1>0, <2>1, Zenon
<1> HIDE DEF r
<1>6. ASSUME NEW l \in 1 .. 8 - j PROVE t[l] = r[l]
    <2>1. l \in 1 .. (9 - j) - 1 /\ l + 1 \in 1 .. 9 - j /\ j + (l + 1) - 1 = (j + 1) + l - 1
        BY <1>6, SMT
    <2>2. t[l] = p[l + 1]
        BY <1>1, <1>2, <2>1, Zenon
    <2>3. p[l + 1] = Summary(h)[j + (l + 1) - 1]
        BY <1>1, <2>1, Zenon
    <2>4. r[l] = Summary(h)[(j + 1) + l - 1]
        BY <1>5, <1>6, Zenon
    <2> QED BY <2>1, <2>2, <2>3, <2>4, Zenon
<1>7. Len(t) = 8 - j
    BY <1>0, <1>1, <1>2, Zenon
<1>8. t = r
    <2>1. Equals(t, r, 8 - j)
        BY <1>5, <1>6, Zenon DEF Equals
    <2> DEFINE n == 8 - j
    <2>2. n \in Nat /\ Len(t) = n /\ Equals(t, r, n)
        BY <1>0, <1>7, <2>1, Zenon
    <2> HIDE DEF n
    <2> QED BY <1>4, <2>2, SameSeq, Zenon
<1> QED BY <1>3, <1>8, Zenon DEF r

\* A reading leaves the other metrics where they are.
LEMMA OthersStay ==
    ASSUME ScrapeInv, ScrapeStep, OfOneMetric, NEW h \in STRING, h # Due.of
    PROVE  /\ Ahead(h) => Ahead(h)'
           /\ \A j \in 1 .. 8 : ~Under(h, j)
           /\ Passed(h) => Passed(h)'
<1> DEFINE e0 == [of |-> Due, is |-> Value(Due)]
<1>1. plan \in Seq(Parts) /\ out \in Seq(ToSet(out))
    BY Zenon DEF ScrapeInv
<1>2. plan # <<>> /\ plan' = AfterDue /\ hist' = hist
      /\ (ToSet(out)' = ToSet(out) \/ ToSet(out)' = ToSet(out) \union {e0})
    BY <1>1, Writes, Zenon
<1>3. /\ \A e : e \in ToSet(out) => e \in ToSet(out)'
      /\ \A e : e \in ToSet(out)' /\ e.of.of = h => e \in ToSet(out)
    <2>1. e0.of = Due
        BY Zenon
    <2> HIDE DEF e0
    <2> QED BY <1>2, <2>1, Zenon
<1>4. Due = plan[1][1] /\ Len(plan) \in Nat \ {0}
    BY <1>1, <1>2, AfterFacts, Zenon
<1>5. None(h) => None(h)'
    BY <1>3, Zenon DEF None
<1>6. \A g : From(h, g) => From(h, g)'
    BY <1>3, Zenon DEF From
<1>7. HasRead(h, 8) => HasRead(h, 8)'
    BY <1>3, Zenon DEF HasRead, Summary, Reading
<1>8. ASSUME Ahead(h) PROVE Ahead(h)'
    <2>1. PICK i \in 1 .. Len(plan) : plan[i] = Summary(h)
        BY <1>8, Zenon DEF Ahead
    <2>2. plan[i][1].of = h
        <3>1. 1 \in 1 .. 8
            BY SMT
        <3>2. Summary(h)[1].of = h
            BY <3>1, SummaryWhats, Zenon
        <3> QED BY <2>1, <3>2, Zenon
    <2>3. i # 1
        BY <1>4, <2>2, Zenon
    <2>4. i \in 2 .. Len(plan)
        BY <1>4, <2>1, <2>3, SMT
    <2>5. i - Shift \in 1 .. Len(plan') /\ plan'[i - Shift] = Summary(h)
        BY <1>1, <1>2, <2>1, <2>4, PlanMoves, Zenon
    <2>6. \E k \in 1 .. Len(plan') : plan'[k] = Summary(h)
        BY <2>5, Zenon
    <2> QED BY <1>5, <1>8, <2>6, Zenon DEF Ahead, Summary, Reading
<1>9. ASSUME NEW j \in 1 .. 8, Under(h, j) PROVE FALSE
    <2>1. plan[1] = Rest(h, j)
        BY <1>9, Zenon DEF Under
    <2>2. Rest(h, j)[1].of = h
        <3>1. Rest(h, j)[1] = Summary(h)[j]
            BY RestFacts, Zenon
        <3>2. Summary(h)[j].of = h
            BY SummaryWhats, Zenon
        <3> QED BY <3>1, <3>2, Zenon
    <2> QED BY <1>4, <2>1, <2>2, Zenon
<1>10. ASSUME Passed(h) PROVE Passed(h)'
    <2>1. \A k \in 1 .. Len(plan') : plan'[k][1].of # h
        <3> SUFFICES ASSUME NEW k \in 1 .. Len(plan') PROVE plan'[k][1].of # h
            OBVIOUS
        <3>1. k + Shift \in 1 .. Len(plan) /\ plan'[k][1].of = plan[k + Shift][1].of
            BY <1>1, <1>2, PartsMove, Zenon
        <3>2. plan[k + Shift][1].of # h
            BY <1>10, <3>1, Zenon DEF Passed
        <3> QED BY <3>1, <3>2, Zenon
    <2>2. CASE None(h)
        BY <1>5, <2>1, <2>2, Zenon DEF Passed
    <2>3. CASE ~None(h)
        <3>1. PICK g \in Hists : From(h, g) /\ HasRead(h, 8)
            BY <1>10, <2>3, Zenon DEF Passed
        <3>2. From(h, g)' /\ HasRead(h, 8)'
            BY <1>6, <1>7, <3>1, Zenon
        <3> QED BY <2>1, <3>2, Zenon DEF Passed, Hists, From
    <2> QED BY <2>2, <2>3
<1> QED BY <1>8, <1>9, <1>10

\* A reading moves its own summary on.
LEMMA OwnMoves ==
    ASSUME ScrapeInv, ScrapeStep, OfOneMetric, hist \in [ToSet(Histograms) -> Hists],
           NEW h \in ToSet(Histograms), h \in STRING, h = Due.of
    PROVE  /\ Ahead(h) => Under(h, 2)'
           /\ \A j \in 2 .. 7 : Under(h, j) => Under(h, j + 1)'
           /\ Under(h, 8) => Passed(h)'
           /\ ~Passed(h)
<1> DEFINE e0 == [of |-> Due, is |-> Value(Due)]
<1>1. plan \in Seq(Parts) /\ out \in Seq(ToSet(out))
    BY Zenon DEF ScrapeInv
<1>2. /\ plan # <<>> /\ plan' = AfterDue /\ hist' = hist
      /\ IF Due.what \in {"lock", "unlock"} THEN ToSet(out)' = ToSet(out) ELSE ToSet(out)' = ToSet(out) \union {e0}
      /\ Due.what = "lock" => locked' = locked \union {Due.of}
      /\ Due.what \notin {"lock", "unlock"} => locked' = locked
    BY <1>1, Writes, Zenon
<1>3. Due = plan[1][1] /\ Len(plan) \in Nat \ {0} /\ Len(plan[1]) \in Nat
    BY <1>1, <1>2, AfterFacts, Zenon
<1>4. 1 \in 1 .. Len(plan)
    BY <1>3, SMT
<1>5. ~Passed(h)
    BY <1>3, <1>4, Zenon DEF Passed
<1>6. ASSUME Ahead(h) PROVE Under(h, 2)'
    <2>1. PICK i \in 1 .. Len(plan) : plan[i] = Summary(h)
        BY <1>6, Zenon DEF Ahead
    <2>2. Summary(h)[1].of = h /\ Summary(h)[1].what = "lock" /\ 1 \in 1 .. 7 /\ 1 \in 1 .. 8 /\ 1 + 1 = 2
        <3>1. 1 \in 1 .. 7 /\ 1 \in 1 .. 8 /\ 1 + 1 = 2
            BY SMT
        <3>2. Summary(h)[1].of = h /\ (Summary(h)[1].what = "lock" <=> 1 = 1)
            BY <3>1, SummaryWhats
        <3> QED BY <3>1, <3>2, Zenon
    <2>3. i = 1
        BY <1>3, <1>4, <2>1, <2>2, Zenon DEF OfOneMetric
    <2>4. plan[1] = Rest(h, 1)
        BY <2>1, <2>2, <2>3, RestFacts, Zenon
    <2>5. plan' # <<>> /\ plan'[1] = Rest(h, 2)
        <3>1. plan' # <<>> /\ plan'[1] = Rest(h, 1 + 1)
            BY <1>1, <1>2, <2>2, <2>4, RestMoves, Zenon
        <3> QED BY <2>2, <3>1, Zenon
    <2>6. Due.what = "lock"
        BY <1>3, <2>1, <2>2, <2>3, Zenon
    <2>7. ToSet(out)' = ToSet(out) /\ h \in locked'
        BY <1>2, <2>6, Zenon
    <2>8. \A e \in ToSet(out) : e.of.of # h
        BY <1>6, Zenon DEF Ahead, None
    <2>9. From(h, hist[h])'
        BY <2>7, <2>8, Zenon DEF From
    <2>10. HasRead(h, 2)'
        <3>1. \A l \in 2 .. 7 : ~(l < 2)
            BY SMT
        <3> QED BY <3>1, Zenon DEF HasRead
    <2>11. \A e \in ToSet(out)' : e.of # Reading(h, "sum")
        <3>1. Reading(h, "sum").of = h
            BY Zenon DEF Reading
        <3> QED BY <2>7, <2>8, <3>1, Zenon
    <2>12. Rest(h, 2)' = Rest(h, 2) /\ Reading(h, "sum")' = Reading(h, "sum")
        BY Zenon DEF Rest, Summary, Reading
    <2> QED BY <2>5, <2>7, <2>9, <2>10, <2>11, <2>12, Zenon DEF Under
<1>7. ASSUME NEW j \in 2 .. 7, Under(h, j) PROVE Under(h, j + 1)'
    <2>1. /\ plan[1] = Rest(h, j) /\ h \in locked /\ From(h, hist[h]) /\ HasRead(h, j)
          /\ j < 8 => \A e \in ToSet(out) : e.of # Reading(h, "sum")
        BY <1>7, Zenon DEF Under
    <2>2. j \in 1 .. 7 /\ j \in 1 .. 8 /\ j < 8 /\ j # 1 /\ j # 8 /\ j \in 2 .. 7
        BY SMT
    <2>3. plan' # <<>> /\ plan'[1] = Rest(h, j + 1)
        BY <1>1, <1>2, <2>1, <2>2, RestMoves, Zenon
    <2>4. Due = Summary(h)[j]
        <3>1. Rest(h, j)[1] = Summary(h)[j]
            BY <2>2, RestFacts
        <3> QED BY <1>3, <2>1, <3>1, Zenon
    <2>5. Due.what # "lock" /\ Due.what # "unlock" /\ Due.what # "get" /\ (Due.what = "sum" <=> j = 7)
        <3>1. /\ Summary(h)[j].what = "lock" <=> j = 1
              /\ Summary(h)[j].what = "unlock" <=> j = 8
              /\ Summary(h)[j].what = "sum" <=> j = 7
              /\ Summary(h)[j].what # "get"
            BY <2>2, SummaryWhats
        <3> QED BY <2>2, <2>4, <3>1, Zenon
    <2>6. ToSet(out)' = ToSet(out) \union {e0} /\ locked' = locked
        BY <1>2, <2>5, Zenon
    <2>7. e0.of = Due /\ e0.is = Figure(hist[h], Due.what)
        BY <2>5, Zenon DEF Value
    <2> HIDE DEF e0
    <2>8. From(h, hist[h])'
        BY <1>2, <2>1, <2>6, <2>7, Zenon DEF From
    <2>9. HasRead(h, j + 1)'
        <3>1. ASSUME NEW l \in 2 .. 7, l < j + 1 PROVE \E e \in ToSet(out)' : e.of = Summary(h)[l]
            <4>1. l < j \/ l = j
                BY <2>2, <3>1, SMT
            <4>2. CASE l < j
                BY <2>1, <2>6, <3>1, <4>2, Zenon DEF HasRead
            <4>3. CASE l = j
                BY <2>4, <2>6, <2>7, <4>3, Zenon
            <4> QED BY <4>1, <4>2, <4>3
        <3> QED BY <3>1, Zenon DEF HasRead, Summary, Reading
    <2>10. ASSUME j + 1 < 8 PROVE \A e \in ToSet(out)' : e.of # Reading(h, "sum")
        <3>1. j # 7
            BY <2>2, <2>10, SMT
        <3>2. Reading(h, "sum").what = "sum"
            BY Zenon DEF Reading
        <3> QED BY <2>1, <2>2, <2>5, <2>6, <2>7, <3>1, <3>2, Zenon
    <2>11. Rest(h, j + 1)' = Rest(h, j + 1) /\ Reading(h, "sum")' = Reading(h, "sum")
        BY Zenon DEF Rest, Summary, Reading
    <2> QED BY <2>1, <2>3, <2>6, <2>8, <2>9, <2>10, <2>11, Zenon DEF Under
<1>8. ASSUME Under(h, 8) PROVE Passed(h)'
    <2>1. plan[1] = Rest(h, 8) /\ From(h, hist[h]) /\ HasRead(h, 8)
        BY <1>8, Zenon DEF Under
    <2>2. Summary(h)[8].what = "unlock" /\ 8 \in 1 .. 8 /\ 9 - 8 = 1
        <3>1. 8 \in 1 .. 8 /\ 9 - 8 = 1
            BY SMT
        <3>2. Summary(h)[8].what = "unlock" <=> 8 = 8
            BY <3>1, SummaryWhats
        <3> QED BY <3>1, <3>2, Zenon
    <2>3. Len(plan[1]) = 1 /\ Due = Summary(h)[8]
        <3>1. Len(Rest(h, 8)) = 9 - 8 /\ Rest(h, 8)[1] = Summary(h)[8]
            BY <2>2, RestFacts
        <3>2. Len(Rest(h, 8)) = 1
            BY <2>2, <3>1
        <3> QED BY <1>3, <2>1, <3>1, <3>2, Zenon
    <2>4. Shift = 1
        BY <2>3, Zenon DEF Shift
    <2>5. ToSet(out)' = ToSet(out)
        BY <1>2, <2>2, <2>3, Zenon
    <2>6. ASSUME NEW k \in 1 .. Len(plan'), plan'[k][1].of = h PROVE FALSE
        <3>1. k + Shift \in 1 .. Len(plan) /\ plan'[k][1].of = plan[k + Shift][1].of
            BY <1>1, <1>2, PartsMove, Zenon
        <3>2. k + Shift # 1
            BY <2>4, SMT
        <3> QED BY <1>3, <1>4, <2>6, <3>1, <3>2, Zenon DEF OfOneMetric
    <2>7. hist[h] \in Hists
        BY Zenon
    <2>8. From(h, hist[h]) => \E g \in Hists : From(h, g)' /\ HasRead(h, 8)'
        <3>1. \A g : From(h, g) => From(h, g)'
            BY <2>5, Zenon DEF From
        <3>2. HasRead(h, 8)'
            BY <2>1, <2>5, Zenon DEF HasRead, Summary, Reading
        <3> QED BY <2>7, <3>1, <3>2, Zenon
    <2> QED BY <2>1, <2>6, <2>8, Zenon DEF Passed, Hists, From
<1> QED BY <1>5, <1>6, <1>7, <1>8

\* An update leaves a histogram that is locked alone.
LEMMA LockedStay ==
    ASSUME MetricStep, tracker.got \in Nat, hist \in [ToSet(Histograms) -> Hists]
    PROVE  hist' \in [ToSet(Histograms) -> Hists] /\ \A h \in locked \cap ToSet(Histograms) : hist'[h] = hist[h]
<1> DEFINE H == ToSet(Histograms)
<1>0. High \in Nat
    BY MetricsAssumption
<1>1. CASE hist' = hist
    BY <1>1, Zenon
<1>4. ASSUME NEW h \in H, NEW g \in Hists, hist' = [hist EXCEPT ![h] = g], h \notin locked
      PROVE  hist' \in [H -> Hists] /\ \A k \in locked \cap H : hist'[k] = hist[k]
    <2>1. hist' \in [H -> Hists]
        <3> HIDE DEF H
        <3>1. hist \in [H -> Hists]
            BY DEF H
        <3> QED BY <1>4, <3>1, SMT
    <2>2. ASSUME NEW k \in locked \cap H PROVE hist'[k] = hist[k]
        <3>1. k # h
            BY <1>4, <2>2, Zenon
        <3>2. k \in DOMAIN hist
            BY <2>2, Zenon
        <3> QED BY <1>4, <3>1, <3>2, Zenon
    <2> QED BY <2>1, <2>2
<1>2. ASSUME NEW h \in H, histogram_reset(h)
      PROVE  hist' \in [H -> Hists] /\ \A k \in locked \cap H : hist'[k] = hist[k]
    <2>1. hist' = [hist EXCEPT ![h] = Empty] /\ h \notin locked
        BY <1>2, Zenon DEF histogram_reset, Unlocked
    <2>2. Empty \in Hists
        BY SMT DEF Empty, Hists
    <2> HIDE DEF H
    <2> QED BY <1>4, <2>1, <2>2, Zenon
<1>3. ASSUME NEW h \in H, record(h, tracker.got)
      PROVE  hist' \in [H -> Hists] /\ \A k \in locked \cap H : hist'[k] = hist[k]
    <2> DEFINE v == Min({tracker.got, High})
               g == [hist[h] EXCEPT ![v] = @ + 1]
    <2>1. hist' = [hist EXCEPT ![h] = g] /\ h \notin locked
        BY <1>3, Zenon DEF record, Unlocked
    <2>2. v \in 0 .. High
        <3> DEFINE a == tracker.got
        <3>1. a \in Nat
            OBVIOUS
        <3> HIDE DEF a
        <3>2. Min({a, High}) = IF a <= High THEN a ELSE High
            BY <1>0, <3>1, SMT DEF Min
        <3>3. v = IF a <= High THEN a ELSE High
            BY <3>2, Zenon DEF a
        <3> HIDE DEF v
        <3> QED BY <1>0, <3>1, <3>3, SMT
    <2>3. g \in Hists
        <3>1. hist[h] \in [0 .. High -> Nat]
            BY Zenon DEF Hists
        <3> HIDE DEF v
        <3> QED BY <2>2, <3>1, SMT DEF Hists
    <2> HIDE DEF H, g
    <2> QED BY <1>4, <2>1, <2>3, Zenon
<1> QED BY <1>1, <1>2, <1>3, Zenon DEF MetricStep, inc_by, counter_reset, SetCounter, gauge_inc, gauge_dec,
        gauge_set, SetGauge

\* snapshot() reads no sum.
LEMMA SnapshotNoSum ==
    \A i \in 1 .. Len(SnapshotPlan) : \A l \in 1 .. Len(SnapshotPlan[i]) : SnapshotPlan[i][l].what # "sum"
<1> DEFINE Q == {p \in Seq(Readings) : \A l \in 1 .. Len(p) : p[l].what # "sum"}
<1>1. \A n \in STRING : Line(n) \in Q /\ <<Reading(n, "p50"), Reading(n, "p99")>> \in Q
    <2> TAKE n \in STRING
    <2>1. Line(n) \in Q
        BY SMT DEF Line, Reading, Readings, Whats
    <2>2. <<Reading(n, "p50"), Reading(n, "p99")>> \in Q
        BY SMT DEF Reading, Readings, Whats
    <2> QED BY <2>1, <2>2
<1> DEFINE tail == [i \in 1 .. Len(Histograms) |-> <<Reading(Histograms[i], "p50"), Reading(Histograms[i], "p99")>>]
<1> HIDE DEF Q
<1>2. \A s \in Seq(STRING) : Len(s) \in Nat /\ \A i \in 1 .. Len(s) : s[i] \in STRING
    BY LenProperties, ElementOfSeq, Zenon
<1>3. \A s \in Seq(STRING) : Lines(s) \in Seq(Q)
    <2> TAKE s \in Seq(STRING)
    <2>1. Lines(s) \in [1 .. Len(s) -> Q]
        BY <1>1, <1>2, Zenon DEF Lines
    <2> QED BY <1>2, <2>1, FunctionIsSeq, Zenon
<1>4. tail \in Seq(Q)
    <2>1. tail \in [1 .. Len(Histograms) -> Q]
        BY <1>1, <1>2, MetricsAssumption, Zenon
    <2> HIDE DEF tail
    <2> QED BY <1>2, <2>1, MetricsAssumption, FunctionIsSeq, Zenon
<1>5. SnapshotPlan = (Lines(Counters) \o Lines(Gauges)) \o tail
    BY Zenon DEF SnapshotPlan
<1> HIDE DEF tail
<1>6. SnapshotPlan \in Seq(Q)
    BY <1>3, <1>4, <1>5, MetricsAssumption, ConcatProperties, Zenon
<1>7. \A i \in 1 .. Len(SnapshotPlan) : SnapshotPlan[i] \in Q
    BY <1>6, ElementOfSeq, Zenon
<1> QED BY <1>7, Zenon DEF Q

\* The histograms have names.
LEMMA HistogramNames == ToSet(Histograms) \subseteq STRING
<1> SUFFICES ASSUME NEW h \in ToSet(Histograms) PROVE h \in STRING
    OBVIOUS
<1>1. Histograms \in Seq(STRING)
    BY MetricsAssumption
<1>2. PICK i \in DOMAIN Histograms : h = Histograms[i]
    BY Zenon DEF ToSet
<1>3. DOMAIN Histograms = 1 .. Len(Histograms)
    BY <1>1, LenProperties, Zenon
<1> QED BY <1>1, <1>2, <1>3, ElementOfSeq, Zenon

\* A rendering begins with every summary ahead of it.
LEMMA RenderBegins ==
    ASSUME plan' = RenderPlan, out' = <<>>
    PROVE  Rendering'
<1> DEFINE N == Len(RenderOrder)
           R == RenderPlan
<1>1. RenderOrder \in Seq(STRING) /\ N \in Nat /\ \A i \in 1 .. N : RenderOrder[i] \in STRING
    BY MetricsAssumption, LenProperties, ElementOfSeq, Zenon
<1>2. Len(R) = N /\ \A i \in 1 .. N : R[i] = IF RenderOrder[i] \in ToSet(Histograms)
                                             THEN Summary(RenderOrder[i]) ELSE Line(RenderOrder[i])
    <2>1. R = [i \in 1 .. N |-> IF RenderOrder[i] \in ToSet(Histograms)
                                 THEN Summary(RenderOrder[i]) ELSE Line(RenderOrder[i])]
        BY Zenon DEF RenderPlan
    <2>2. DOMAIN R = 1 .. N
        BY <2>1, Zenon
    <2>3. R \in Seq(Parts)
        BY PlansOfParts
    <2> HIDE DEF R, N
    <2>4. Len(R) = N
        BY <1>1, <2>2, <2>3, LenProperties, SMT
    <2> QED BY <2>1, <2>4, Zenon
<1> HIDE DEF R, N
<1>3. ASSUME NEW i \in 1 .. N
      PROVE  R[i][1].of = RenderOrder[i] /\ \A l \in 1 .. Len(R[i]) : R[i][l].of = RenderOrder[i]
    <2> DEFINE n == RenderOrder[i]
    <2>1. n \in STRING
        BY <1>1, Zenon
    <2>2. CASE n \in ToSet(Histograms)
        <3>1. R[i] = Summary(n)
            BY <1>2, <2>2, Zenon
        <3>2. Len(Summary(n)) = 8 /\ 1 \in 1 .. 8
            <4> HIDE DEF n
            <4>1. Len(Summary(n)) = 8
                BY <2>1, SummaryFacts, Zenon
            <4> QED BY <4>1, SMT
        <3>3. \A l \in 1 .. 8 : Summary(n)[l].of = n
            <4> HIDE DEF n
            <4> QED BY <2>1, SummaryWhats
        <3> QED BY <3>1, <3>2, <3>3, Zenon
    <2>3. CASE n \notin ToSet(Histograms)
        <3>1. R[i] = Line(n)
            BY <1>2, <2>3, Zenon
        <3>2. Len(Line(n)) = 1 /\ Line(n)[1].of = n /\ \A l \in 1 .. 1 : l = 1
            <4> HIDE DEF n
            <4> QED BY <2>1, SMT DEF Line, Reading
        <3> QED BY <3>1, <3>2, Zenon
    <2> QED BY <2>2, <2>3
<1>4. OfOneMetric'
    <2>1. \A i \in 1 .. N : \A l \in 1 .. Len(R[i]) : R[i][l].of = R[i][1].of
        BY <1>3, Zenon
    <2>2. \A i, k \in 1 .. N : R[i][1].of = R[k][1].of => i = k
        <3>1. \A i, k \in 1 .. N : RenderOrder[i] = RenderOrder[k] => i = k
            BY MetricsAssumption, Zenon DEF N
        <3> SUFFICES ASSUME NEW i \in 1 .. N, NEW k \in 1 .. N, R[i][1].of = R[k][1].of PROVE i = k
            OBVIOUS
        <3>2. R[i][1].of = RenderOrder[i] /\ R[k][1].of = RenderOrder[k]
            BY <1>3, Zenon
        <3> QED BY <3>1, <3>2, Zenon
    <2>3. plan' = R
        BY DEF R
    <2>4. 1 .. Len(plan') = 1 .. N
        BY <1>2, <2>3, Zenon
    <2> QED BY <2>1, <2>2, <2>3, <2>4, Zenon DEF OfOneMetric
<1>5. ToSet(out)' = {}
    BY SMT DEF ToSet
<1>6. ASSUME NEW h \in ToSet(Histograms) PROVE Ahead(h)' \/ Passed(h)'
    <2>1. None(h)'
        BY <1>5, Zenon DEF None
    <2>2. plan' = R
        BY DEF R
    <2>3. CASE \E i \in 1 .. N : RenderOrder[i] = h
        <3>1. \E i \in 1 .. N : R[i] = Summary(h)
            BY <1>2, <2>3, Zenon
        <3> QED BY <1>2, <2>1, <2>2, <3>1, Zenon DEF Ahead, Summary, Reading
    <2>4. CASE ~\E i \in 1 .. N : RenderOrder[i] = h
        <3>1. \A i \in 1 .. N : R[i][1].of # h
            BY <1>3, <2>4, Zenon
        <3> QED BY <1>2, <2>1, <2>2, <3>1, Zenon DEF Passed
    <2> QED BY <2>3, <2>4
<1> QED BY <1>4, <1>6, Zenon DEF Rendering, ToSet

\* No step begins to read sums but render_prometheus().
LEMMA NoSumStays ==
    ASSUME ScrapeInv, ScrapeStep, NoSum
    PROVE  NoSum'
<1> DEFINE e0 == [of |-> Due, is |-> Value(Due)]
<1>1. plan \in Seq(Parts) /\ out \in Seq(ToSet(out))
    BY Zenon DEF ScrapeInv
<1>2. plan # <<>> /\ plan' = AfterDue
      /\ (ToSet(out)' = ToSet(out) \/ ToSet(out)' = ToSet(out) \union {e0})
    BY <1>1, Writes, Zenon
<1>3. Due = plan[1][1] /\ Len(plan) \in Nat \ {0} /\ Len(plan[1]) \in Nat \ {0}
    BY <1>1, <1>2, AfterFacts, Zenon
<1>4. 1 \in 1 .. Len(plan) /\ 1 \in 1 .. Len(plan[1])
    BY <1>3, SMT
<1>5. Due.what # "sum"
    BY <1>3, <1>4, Zenon DEF NoSum
<1>6. \A e \in ToSet(out)' : e.of.what # "sum"
    <2>1. e0.of = Due
        BY Zenon
    <2> HIDE DEF e0
    <2> QED BY <1>2, <1>5, <2>1, Zenon DEF NoSum
<1>7. ASSUME NEW k \in 1 .. Len(plan'), NEW l \in 1 .. Len(plan'[k]) PROVE plan'[k][l].what # "sum"
    <2>1. k + Shift \in 1 .. Len(plan)
        BY <1>1, <1>2, PlanMoves, Zenon
    <2>2. CASE k + Shift # 1
        <3>1. plan'[k] = plan[k + Shift]
            BY <1>1, <1>2, <2>2, PlanMoves, Zenon
        <3> QED BY <2>1, <3>1, Zenon DEF NoSum
    <2>3. CASE k + Shift = 1
        <3> DEFINE n == Len(plan[1])
        <3>1. Len(plan'[k]) = n - 1 /\ n >= 2 /\ \A m \in 1 .. n - 1 : plan'[k][m] = plan[1][m + 1]
            BY <1>1, <1>2, <2>3, PlanMoves, Zenon
        <3>2. \A m \in 1 .. n : plan[1][m].what # "sum"
            BY <1>4, Zenon DEF NoSum
        <3>3. n \in Nat
            BY <1>3
        <3> HIDE DEF n
        <3>4. l \in 1 .. n - 1 /\ l + 1 \in 1 .. n
            BY <3>1, <3>3, SMT
        <3> QED BY <3>1, <3>2, <3>4, Zenon
    <2> QED BY <2>2, <2>3
<1> QED BY <1>6, <1>7, Zenon DEF NoSum

\* RenderInv is inductive.
LEMMA RenderNext ==
    ASSUME ClockInv, ScrapeInv, RenderInv, [Next]_vars
    PROVE  RenderInv'
<1> DEFINE H == ToSet(Histograms)
<1>0. hist \in [H -> Hists] /\ (NoSum \/ Rendering) /\ H \subseteq STRING
    BY HistogramNames, Zenon DEF RenderInv
<1>h. ASSUME hist' \in [H -> Hists], NoSum' \/ Rendering' PROVE RenderInv'
    BY <1>h, Zenon DEF RenderInv, Hists, ToSet
<1>1. CASE MetricStep \/ UNCHANGED mvars
    <2>1. plan' = plan /\ out' = out /\ locked' = locked
        BY <1>1, UpdateKeeps, Zenon DEF mvars
    <2>2. hist' \in [H -> Hists] /\ \A h \in locked \cap H : hist'[h] = hist[h]
        <3>1. CASE MetricStep
            <4>1. tracker.got \in Nat
                BY SMT DEF ClockInv, ClockTypes
            <4> QED BY <1>0, <3>1, <4>1, LockedStay, Zenon
        <3>2. CASE UNCHANGED mvars
            BY <1>0, <3>2, Zenon DEF mvars
        <3> QED BY <1>1, <3>1, <3>2
    <2>3. ToSet(out)' = ToSet(out)
        BY <2>1, Zenon DEF ToSet
    <2>4. NoSum => NoSum'
        BY <2>1, <2>3, Zenon DEF NoSum
    <2>5. ASSUME Rendering PROVE Rendering'
        <3>1. OfOneMetric'
            BY <2>1, <2>5, Zenon DEF Rendering, OfOneMetric
        <3>2. ASSUME NEW h \in H PROVE Ahead(h)' \/ (\E j \in 2 .. 8 : Under(h, j)') \/ Passed(h)'
            <4>1. CASE Ahead(h)
                BY <2>1, <2>3, <4>1, Zenon DEF Ahead, None, Summary, Reading
            <4>2. ASSUME NEW j \in 2 .. 8, Under(h, j) PROVE Under(h, j)'
                <5>1. /\ plan # <<>> /\ plan[1] = Rest(h, j) /\ h \in locked /\ From(h, hist[h]) /\ HasRead(h, j)
                      /\ j < 8 => \A e \in ToSet(out) : e.of # Reading(h, "sum")
                    BY <4>2, Zenon DEF Under
                <5>2. hist'[h] = hist[h]
                    BY <2>2, <5>1, Zenon
                <5>3. From(h, hist[h])'
                    BY <2>3, <5>1, <5>2, Zenon DEF From
                <5>4. HasRead(h, j)'
                    BY <2>3, <5>1, Zenon DEF HasRead, Summary, Reading
                <5>5. Rest(h, j)' = Rest(h, j) /\ Reading(h, "sum")' = Reading(h, "sum")
                    BY Zenon DEF Rest, Summary, Reading
                <5> QED BY <2>1, <2>3, <5>1, <5>3, <5>4, <5>5, Zenon DEF Under
            <4>3. CASE Passed(h)
                <5>1. None(h) => None(h)'
                    BY <2>3, Zenon DEF None
                <5>2. \A g : From(h, g) => From(h, g)'
                    BY <2>3, Zenon DEF From
                <5>3. HasRead(h, 8) => HasRead(h, 8)'
                    BY <2>3, Zenon DEF HasRead, Summary, Reading
                <5> QED BY <2>1, <4>3, <5>1, <5>2, <5>3, Zenon DEF Passed, Hists, From
            <4> QED BY <2>5, <4>1, <4>2, <4>3, Zenon DEF Rendering
        <3> QED BY <3>1, <3>2, Zenon DEF Rendering, ToSet
    <2> QED BY <1>0, <1>h, <2>2, <2>4, <2>5
<1>2. CASE snapshot
    <2>1. plan' = SnapshotPlan /\ out' = <<>> /\ hist' = hist
        BY <1>2, Zenon DEF snapshot, Begin
    <2>2. ToSet(out)' = {}
        BY <2>1, SMT DEF ToSet
    <2>3. NoSum'
        BY <2>1, <2>2, SnapshotNoSum, Zenon DEF NoSum
    <2> QED BY <1>0, <1>h, <2>1, <2>3
<1>3. CASE render_prometheus
    <2>1. plan' = RenderPlan /\ out' = <<>> /\ hist' = hist
        BY <1>3, Zenon DEF render_prometheus, Begin
    <2> QED BY <1>0, <1>h, <2>1, RenderBegins
<1>4. CASE ScrapeStep
    <2>1. plan \in Seq(Parts) /\ out \in Seq(ToSet(out))
        BY Zenon DEF ScrapeInv
    <2>2. plan # <<>> /\ plan' = AfterDue /\ hist' = hist
        BY <1>4, <2>1, Writes, Zenon
    <2>3. NoSum => NoSum'
        BY <1>4, NoSumStays
    <2>4. ASSUME Rendering PROVE Rendering'
        <3>0. OfOneMetric
            BY <2>4, Zenon DEF Rendering
        <3>1. OfOneMetric'
            BY <2>1, <2>2, <3>0, PartsMove, Zenon
        <3>2. ASSUME NEW h \in H PROVE Ahead(h)' \/ (\E j \in 2 .. 8 : Under(h, j)') \/ Passed(h)'
            <4>0. h \in STRING
                BY <1>0, <3>2
            <4>1. Ahead(h) \/ (\E j \in 2 .. 8 : Under(h, j)) \/ Passed(h)
                BY <2>4, <3>2, Zenon DEF Rendering
            <4>2. CASE h # Due.of
                <5>1. \A j \in 2 .. 8 : j \in 1 .. 8
                    BY SMT
                <5> QED BY <1>4, <3>0, <4>0, <4>1, <4>2, <5>1, OthersStay, Zenon
            <4>3. CASE h = Due.of
                <5>1. \A j \in 2 .. 8 : j = 8 \/ (j \in 2 .. 7 /\ j + 1 \in 2 .. 8)
                    BY SMT
                <5>2. 2 \in 2 .. 8
                    BY SMT
                <5>3. /\ Ahead(h) => Under(h, 2)'
                      /\ \A j \in 2 .. 7 : Under(h, j) => Under(h, j + 1)'
                      /\ Under(h, 8) => Passed(h)'
                      /\ ~Passed(h)
                    BY <1>0, <1>4, <3>0, <4>0, <4>3, OwnMoves, Zenon
                <5> QED BY <4>1, <5>1, <5>2, <5>3, Zenon
            <4> QED BY <4>2, <4>3
        <3> QED BY <3>1, <3>2, Zenon DEF Rendering, ToSet
    <2> QED BY <1>0, <1>h, <2>2, <2>3, <2>4
<1> QED BY <1>1, <1>2, <1>3, <1>4, Steps

\* The figures of a summary whose sum is out are all those of one histogram.
LEMMA OneMoment ==
    ASSUME RenderInv, ScrapeInv, NEW h \in ToSet(Histograms), Rendered(h)
    PROVE  \E g \in Hists : \A w \in {"p50", "p90", "p99", "p999", "count", "sum"} : Read(h, w) = Figure(g, w)
<1>0. h \in STRING
    BY HistogramNames, Zenon
<1>1. DOMAIN out = 1 .. Len(out)
    BY LenProperties, Zenon DEF ScrapeInv
<1>2. \A w : Reading(h, w).of = h /\ Reading(h, w).what = w
    BY Zenon DEF Reading
<1>3. PICK s \in ToSet(out) : s.of = Reading(h, "sum")
    BY <1>1, Zenon DEF Rendered, ToSet
<1>4. Rendering
    BY <1>2, <1>3, Zenon DEF RenderInv, NoSum
<1>5. ~None(h)
    BY <1>2, <1>3, Zenon DEF None
<1>6. PICK g \in Hists : From(h, g) /\ HasRead(h, 8)
    <2>1. CASE Passed(h)
        BY <1>5, <2>1, Zenon DEF Passed
    <2>2. ASSUME NEW j \in 2 .. 8, Under(h, j) PROVE \E g \in Hists : From(h, g) /\ HasRead(h, 8)
        <3>1. From(h, hist[h]) /\ HasRead(h, j) /\ ~(j < 8)
            BY <1>3, <2>2, Zenon DEF Under
        <3>2. j = 8
            BY <3>1, SMT
        <3>3. hist[h] \in Hists
            BY Zenon DEF RenderInv
        <3> QED BY <3>1, <3>2, <3>3, Zenon
    <2> QED BY <1>4, <1>5, <2>1, <2>2, Zenon DEF Rendering, Ahead
<1>7. ASSUME NEW w, NEW e \in ToSet(out), e.of = Reading(h, w) PROVE Read(h, w) = Figure(g, w)
    <2> DEFINE P(i) == i \in 1 .. Len(out) /\ out[i].of = Reading(h, w)
               c == CHOOSE i \in 1 .. Len(out) : out[i].of = Reading(h, w)
    <2>1. \E i : P(i)
        BY <1>1, <1>7, Zenon DEF ToSet
    <2>2. P(c)
        BY <2>1, Zenon
    <2>3. Read(h, w) = out[c].is
        BY Zenon DEF Read
    <2> HIDE DEF c
    <2>4. out[c] \in ToSet(out)
        BY <1>1, <2>2, Zenon DEF ToSet
    <2>5. out[c].of.of = h /\ out[c].of.what = w
        BY <1>2, <2>2, Zenon
    <2>6. out[c].is = Figure(g, out[c].of.what)
        BY <1>6, <2>4, <2>5, Zenon DEF From
    <2> QED BY <2>3, <2>5, <2>6, Zenon
<1>8. /\ Summary(h)[2] = Reading(h, "p50") /\ Summary(h)[3] = Reading(h, "p90")
      /\ Summary(h)[4] = Reading(h, "p99") /\ Summary(h)[5] = Reading(h, "p999")
      /\ Summary(h)[6] = Reading(h, "count") /\ Summary(h)[7] = Reading(h, "sum")
    BY <1>0, SummaryFacts, Zenon
<1>9. \A l \in 2 .. 7 : \E e \in ToSet(out) : e.of = Summary(h)[l]
    <2>1. \A l \in 2 .. 7 : l < 8
        BY SMT
    <2> QED BY <1>6, <2>1, Zenon DEF HasRead
<1>10. 2 \in 2 .. 7 /\ 3 \in 2 .. 7 /\ 4 \in 2 .. 7 /\ 5 \in 2 .. 7 /\ 6 \in 2 .. 7 /\ 7 \in 2 .. 7
    BY SMT
<1>11. ASSUME NEW w \in {"p50", "p90", "p99", "p999", "count", "sum"}
       PROVE  \E e \in ToSet(out) : e.of = Reading(h, w)
    BY <1>8, <1>9, <1>10, Zenon
<1> QED BY <1>7, <1>11, Zenon

\* The lines of one summary that render() writes are those of one histogram, and so
\* belong together, whatever is recorded or reset meanwhile, however many metrics there
\* are and in whichever order they are written.
THEOREM RendersConsistently == Spec => []RenderConsistent
<1>1. Init => RenderInv
    <2> SUFFICES ASSUME Init PROVE RenderInv
        OBVIOUS
    <2>1. plan = <<>> /\ out = <<>> /\ hist = [h \in ToSet(Histograms) |-> Empty]
        BY Zenon DEF Init, MetricsInit
    <2>2. Empty \in Hists
        BY SMT DEF Empty, Hists
    <2>3. hist \in [ToSet(Histograms) -> Hists]
        BY <2>1, <2>2, Zenon
    <2>4. ToSet(<<>>) = {} /\ 1 .. Len(<<>>) = {}
        BY SMT DEF ToSet
    <2> QED BY <2>1, <2>3, <2>4, Zenon DEF RenderInv, NoSum
<1>2. RenderInv /\ ScrapeInv => RenderConsistent
    <2> SUFFICES ASSUME RenderInv, ScrapeInv, NEW h \in ToSet(Histograms), Rendered(h)
                 PROVE  Agree(Read(h, "p50"), Read(h, "p90"), Read(h, "p99"), Read(h, "p999"),
                              Read(h, "count"), Read(h, "sum"))
        BY SMT DEF RenderConsistent, Agree
    <2>1. PICK g \in Hists : \A w \in {"p50", "p90", "p99", "p999", "count", "sum"} : Read(h, w) = Figure(g, w)
        BY OneMoment, Zenon
    <2>2. /\ Read(h, "p50") = Figure(g, "p50") /\ Read(h, "p90") = Figure(g, "p90")
          /\ Read(h, "p99") = Figure(g, "p99") /\ Read(h, "p999") = Figure(g, "p999")
          /\ Read(h, "count") = Figure(g, "count") /\ Read(h, "sum") = Figure(g, "sum")
        BY <2>1, Zenon
    <2> QED BY <2>2, FiguresAgree, Zenon
<1>3. ClockInv /\ ScrapeInv /\ RenderInv /\ [Next]_vars => RenderInv'
    BY RenderNext
<1>4. ScrapeInv /\ [Next]_vars => ScrapeInv'
    BY ScrapeStepInv
<1> QED BY <1>1, <1>2, <1>3, <1>4, ScrapeInit, ClockInit, ClockNext, PTL DEF Spec
====
