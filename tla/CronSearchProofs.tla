-------------------------- MODULE CronSearchProofs --------------------------
(***************************************************************************)
(* The search of a cron trigger, on every calendar: the dates it comes to  *)
(* are dates, and its answer is the first one that satisfies every field.  *)
(***************************************************************************)
EXTENDS CronSearch, TriggersProofs

----------------------------------------------------------------------------
\* The fields.

LEMMA NameOfField ==
    /\ FieldNumbers = 1 .. 6
    /\ Field(1) = "year" /\ Field(2) = "month" /\ Field(3) = "day"
    /\ Field(4) = "week" /\ Field(5) = "day_of_week" /\ Field(6) = "hour"
BY DEF FieldNumbers, FieldNames, Field

LEMMA NumberOfField ==
    /\ Index("year") = 1 /\ Index("month") = 2 /\ Index("day") = 3
    /\ Index("week") = 4 /\ Index("day_of_week") = 5 /\ Index("hour") = 6
<1>1. \A i, j \in FieldNumbers : Field(i) = Field(j) => i = j
    BY NameOfField
<1>2. ASSUME NEW i \in FieldNumbers PROVE Index(Field(i)) = i
    BY <1>1, <1>2 DEF Index
<1> QED BY <1>2, NameOfField

LEMMA RealFields ==
    /\ Real(Field(1)) /\ Real(Field(2)) /\ Real(Field(3)) /\ Real(Field(6))
    /\ ~Real(Field(4)) /\ ~Real(Field(5))
BY NameOfField DEF Real

LEMMA FieldValues ==
    ASSUME NEW d
    PROVE  /\ GetValue("year", d) = d.year
           /\ GetValue("month", d) = d.month
           /\ GetValue("day", d) = d.day
           /\ GetValue("week", d) = IsoWeek(d)
           /\ GetValue("day_of_week", d) = Weekday(d)
           /\ GetValue("hour", d) = d.hour
BY DEF GetValue, Real

LEMMA LeastValues ==
    /\ MinValue("year") = FirstYear
    /\ MinValue("month") = 1 /\ MinValue("day") = 1 /\ MinValue("week") = 1
    /\ MinValue("day_of_week") = 0 /\ MinValue("hour") = 0
BY DEF MinValue

LEMMA GreatestValues ==
    ASSUME NEW d
    PROVE  /\ GetMax("year", d) = LastYear
           /\ GetMax("month", d) = MonthsPerYear
           /\ GetMax("day", d) = MonthLength(d.year, d.month)
           /\ GetMax("week", d) = LastWeek
           /\ GetMax("day_of_week", d) = DaysPerWeek - 1
           /\ GetMax("hour", d) = HoursPerDay - 1
BY DEF GetMax, MaxValue

LEMMA DateType ==
    ASSUME NEW d \in Dates
    PROVE  /\ d.year \in FirstYear .. LastYear /\ d.month \in Months
           /\ d.day \in 1 .. MonthLength(d.year, d.month)
           /\ d.day \in 1 .. LongestMonth
           /\ d.hour \in 0 .. HoursPerDay - 1
BY DEF Dates

LEMMA CalendarType ==
    /\ FirstYear \in Nat /\ LastYear \in Nat /\ FirstYear <= LastYear
    /\ MonthsPerYear \in Nat \ {0} /\ LongestMonth \in Nat
    /\ DaysPerWeek \in Nat \ {0} /\ LastWeek \in Nat /\ HoursPerDay \in Nat \ {0}
    /\ \A y, z \in FirstYear - 1 .. LastYear + 1, m, k \in Months :
           /\ MonthStart(y, m) \in Nat
           /\ y < z \/ (y = z /\ m < k) => MonthStart(y, m) < MonthStart(z, k)
BY CalendarAssumption

LEMMA MonthType ==
    ASSUME NEW y \in FirstYear .. LastYear, NEW m \in Months
    PROVE  MonthStart(y, m) \in Nat /\ MonthLength(y, m) \in 1 .. LongestMonth
<1>1. MonthLength(y, m) <= LongestMonth
    BY CalendarAssumption
<1>2. MonthLength(y, m) \in Nat \ {0}
    BY CalendarType DEF MonthLength, Months
<1>3. MonthStart(y, m) \in Nat
    BY CalendarType
<1> QED BY <1>1, <1>2, <1>3, CalendarType

\* A month ends before a later one begins.
LEMMA LaterMonth ==
    ASSUME NEW y \in FirstYear .. LastYear, NEW m \in Months,
           NEW z \in FirstYear .. LastYear, NEW k \in Months,
           y < z \/ (y = z /\ m < k)
    PROVE  MonthStart(y, m) + MonthLength(y, m) <= MonthStart(z, k)
<1>1. CASE m < MonthsPerYear
    <2>1. m + 1 \in Months
        BY <1>1, CalendarType DEF Months
    <2>2. MonthStart(y, m + 1) <= MonthStart(z, k)
        <3>1. CASE y = z /\ m + 1 = k
            BY <2>1, <3>1, CalendarType
        <3>2. CASE y < z \/ (y = z /\ m + 1 < k)
            BY <2>1, <3>2, CalendarType
        <3> QED BY <3>1, <3>2, CalendarType DEF Months
    <2> QED BY <1>1, <2>1, <2>2, CalendarType DEF MonthLength
<1>2. CASE m = MonthsPerYear
    <2>1. y + 1 \in FirstYear .. LastYear /\ 1 \in Months
        BY <1>2, CalendarType DEF Months
    <2>2. MonthStart(y + 1, 1) <= MonthStart(z, k)
        <3>1. CASE y + 1 = z /\ 1 = k
            BY <2>1, <3>1, CalendarType
        <3>2. CASE y + 1 < z \/ (y + 1 = z /\ 1 < k)
            BY <2>1, <3>2, CalendarType
        <3> QED BY <1>2, <3>1, <3>2, CalendarType DEF Months
    <2> QED BY <1>2, <2>1, <2>2, CalendarType DEF MonthLength
<1> QED BY <1>1, <1>2, CalendarType DEF Months

LEMMA IsDate ==
    ASSUME NEW y \in FirstYear .. LastYear, NEW m \in Months,
           NEW day \in 1 .. MonthLength(y, m), NEW hour \in 0 .. HoursPerDay - 1
    PROVE  [year |-> y, month |-> m, day |-> day, hour |-> hour] \in Dates
<1>1. day \in 1 .. LongestMonth
    BY MonthType, CalendarType
<1> DEFINE d == [year |-> y, month |-> m, day |-> day, hour |-> hour]
<1>2. d \in [year : FirstYear .. LastYear, month : Months,
             day : 1 .. LongestMonth, hour : 0 .. HoursPerDay - 1]
    BY <1>1
<1>3. d.day <= MonthLength(d.year, d.month)
    BY MonthType
<1> QED BY <1>2, <1>3 DEF Dates


LEMMA InstantType ==
    ASSUME NEW d \in Dates
    PROVE  /\ DayNumber(d) \in Nat /\ Instant(d) \in Nat
           /\ Weekday(d) \in 0 .. DaysPerWeek - 1
           /\ IsoWeek(d) \in 1 .. LastWeek
<1>1. DayNumber(d) \in Nat
    BY DateType, MonthType DEF DayNumber
<1>2. Weekday(d) \in 0 .. DaysPerWeek - 1
    BY <1>1, CalendarType DEF Weekday
<1>3. DayNumber(d) * HoursPerDay \in Nat
    BY <1>1, CalendarType, ProductType
<1>4. Instant(d) \in Nat
    BY <1>3, DateType, CalendarType DEF Instant
<1>5. IsoWeek(d) \in 1 .. LastWeek
    BY CalendarAssumption
<1> QED BY <1>1, <1>2, <1>4, <1>5

\* The value of a field is within its limits.
LEMMA ValueType ==
    ASSUME NEW d \in Dates, NEW i \in FieldNumbers
    PROVE  /\ MinValue(Field(i)) \in Nat /\ GetMax(Field(i), d) \in Nat
           /\ GetValue(Field(i), d) \in MinValue(Field(i)) .. GetMax(Field(i), d)
BY DateType, InstantType, MonthType, CalendarType, NameOfField, LeastValues,
   GreatestValues, FieldValues DEF Months

----------------------------------------------------------------------------
\* The order of dates.

LEMMA ProductKeepsOrder ==
    ASSUME NEW m \in Nat, NEW n \in Nat, NEW length \in Nat, m <= n
    PROVE  m * length <= n * length
<1>1. n - m \in Nat
    OBVIOUS
<1>2. (n - m) * length \in Nat
    BY <1>1, ProductType
<1>3. (n - m) * length = n * length - m * length
    OBVIOUS
<1>4. m * length \in Nat /\ n * length \in Nat
    BY ProductType
<1> QED BY <1>2, <1>3, <1>4

\* A date is before another one on the first field in which they differ.
Before(d, e) ==
    \/ d.year < e.year
    \/ d.year = e.year /\ d.month < e.month
    \/ d.year = e.year /\ d.month = e.month /\ d.day < e.day
    \/ d.year = e.year /\ d.month = e.month /\ d.day = e.day /\ d.hour < e.hour

LEMMA BeforeEarlier ==
    ASSUME NEW d \in Dates, NEW e \in Dates, Before(d, e)
    PROVE  Instant(d) < Instant(e)
<1> USE DateType, MonthType, InstantType, CalendarType
<1>1. CASE DayNumber(d) < DayNumber(e)
    <2>1. (DayNumber(d) + 1) * HoursPerDay <= DayNumber(e) * HoursPerDay
        BY <1>1, ProductKeepsOrder
    <2>2. (DayNumber(d) + 1) * HoursPerDay = DayNumber(d) * HoursPerDay + HoursPerDay
        OBVIOUS
    <2>3. /\ DayNumber(d) * HoursPerDay \in Nat
          /\ DayNumber(e) * HoursPerDay \in Nat
        BY ProductType
    <2> QED BY <2>1, <2>2, <2>3 DEF Instant
<1>2. CASE d.year < e.year \/ (d.year = e.year /\ d.month < e.month)
    <2>1. MonthStart(d.year, d.month) + MonthLength(d.year, d.month)
              <= MonthStart(e.year, e.month)
        BY <1>2, LaterMonth
    <2>2. DayNumber(d) < DayNumber(e)
        BY <2>1 DEF DayNumber
    <2> QED BY <2>2, <1>1
<1>3. CASE d.year = e.year /\ d.month = e.month /\ d.day < e.day
    <2>1. DayNumber(d) < DayNumber(e)
        BY <1>3 DEF DayNumber
    <2> QED BY <2>1, <1>1
<1>4. CASE d.year = e.year /\ d.month = e.month /\ d.day = e.day /\ d.hour < e.hour
    <2>1. DayNumber(d) = DayNumber(e)
        BY <1>4 DEF DayNumber
    <2>2. DayNumber(d) * HoursPerDay \in Nat
        BY ProductType
    <2> QED BY <1>4, <2>1, <2>2 DEF Instant
<1> QED BY <1>2, <1>3, <1>4 DEF Before

\* Dates that are not before each other are one date.
LEMMA EarlierBefore ==
    ASSUME NEW d \in Dates, NEW e \in Dates
    PROVE  /\ Before(d, e) \/ Before(e, d) \/ d = e
           /\ Instant(d) < Instant(e) <=> Before(d, e)
<1>1. Before(d, e) \/ Before(e, d) \/ d = e
    <2>1. d \in [year : FirstYear .. LastYear, month : Months,
                 day : 1 .. LongestMonth, hour : 0 .. HoursPerDay - 1]
          /\ e \in [year : FirstYear .. LastYear, month : Months,
                    day : 1 .. LongestMonth, hour : 0 .. HoursPerDay - 1]
        BY DEF Dates
    <2>2. d.year = e.year /\ d.month = e.month /\ d.day = e.day /\ d.hour = e.hour
              => d = e
        BY <2>1
    <2> QED BY <2>2, DateType, CalendarType DEF Before, Months
<1>2. Before(e, d) => Instant(e) < Instant(d)
    BY BeforeEarlier
<1>3. Before(d, e) => Instant(d) < Instant(e)
    BY BeforeEarlier
<1> QED BY <1>1, <1>2, <1>3, InstantType

\* Two dates agree on the fields before field i.
Agree(d, e, i) ==
    /\ i > 1 => d.year = e.year
    /\ i > 2 => d.month = e.month
    /\ i > 3 => d.day = e.day
    /\ i > 6 => d.hour = e.hour

LEMMA AgreeLater ==
    ASSUME NEW d \in Dates, NEW e \in Dates, NEW i \in FieldNumbers,
           Real(Field(i)), Agree(d, e, i), Instant(d) <= Instant(e)
    PROVE  GetValue(Field(i), d) <= GetValue(Field(i), e)
<1>1. ~Before(e, d)
    BY EarlierBefore, InstantType
<1> QED BY <1>1, NameOfField, RealFields, FieldValues, DateType, CalendarType
    DEF Agree, Before, Months

\* A date with field i at v and the less significant fields at their minimum.
LEMMA PartsOfSetValue ==
    ASSUME NEW d \in Dates, NEW i \in 0 .. 6, NEW v
    PROVE  SetValue(d, i, v) =
               [year  |-> IF i > 1 THEN d.year ELSE IF i = 1 THEN v ELSE FirstYear,
                month |-> IF i > 2 THEN d.month ELSE IF i = 2 THEN v ELSE 1,
                day   |-> IF i > 3 THEN d.day ELSE IF i = 3 THEN v ELSE 1,
                hour  |-> IF i > 6 THEN d.hour ELSE IF i = 6 THEN v ELSE 0]
<1>1. DOMAIN d = {"year", "month", "day", "hour"}
    BY DEF Dates
<1>2. d["year"] = d.year /\ d["month"] = d.month /\ d["day"] = d.day /\ d["hour"] = d.hour
    OBVIOUS
<1> DEFINE part(field) == IF Index(field) < i THEN d[field]
                          ELSE IF Index(field) = i THEN v ELSE MinValue(field)
<1>3. SetValue(d, i, v) = [field \in {"year", "month", "day", "hour"} |-> part(field)]
    BY <1>1 DEF SetValue
<1>4. /\ part("year") = IF i > 1 THEN d.year ELSE IF i = 1 THEN v ELSE FirstYear
      /\ part("month") = IF i > 2 THEN d.month ELSE IF i = 2 THEN v ELSE 1
      /\ part("day") = IF i > 3 THEN d.day ELSE IF i = 3 THEN v ELSE 1
      /\ part("hour") = IF i > 6 THEN d.hour ELSE IF i = 6 THEN v ELSE 0
    BY <1>2, NumberOfField, LeastValues
<1> HIDE DEF part
<1>5. [field \in {"year", "month", "day", "hour"} |-> part(field)] =
          [year |-> part("year"), month |-> part("month"), day |-> part("day"),
           hour |-> part("hour")]
    OBVIOUS
<1> QED BY <1>3, <1>4, <1>5

LEMMA SetValueIsDate ==
    ASSUME NEW d \in Dates, NEW i \in FieldNumbers, Real(Field(i)),
           NEW v \in MinValue(Field(i)) .. GetMax(Field(i), d)
    PROVE  /\ SetValue(d, i, v) \in Dates
           /\ GetValue(Field(i), SetValue(d, i, v)) = v
           /\ Agree(d, SetValue(d, i, v), i)
<1> USE DateType, CalendarType, NameOfField, RealFields
<1>1. CASE i = 1
    <2>1. v \in FirstYear .. LastYear /\ 1 \in Months /\ 0 \in 0 .. HoursPerDay - 1
        BY <1>1, LeastValues, GreatestValues DEF Months
    <2>2. SetValue(d, i, v) = [year |-> v, month |-> 1, day |-> 1, hour |-> 0]
        BY <1>1, PartsOfSetValue
    <2>3. 1 \in 1 .. MonthLength(v, 1)
        BY <2>1, MonthType
    <2>4. SetValue(d, i, v) \in Dates
        BY <2>1, <2>2, <2>3, IsDate
    <2> QED BY <1>1, <2>2, <2>4, FieldValues DEF Agree
<1>2. CASE i = 2
    <2>1. v \in Months /\ 0 \in 0 .. HoursPerDay - 1
        BY <1>2, LeastValues, GreatestValues DEF Months
    <2>2. SetValue(d, i, v) = [year |-> d.year, month |-> v, day |-> 1, hour |-> 0]
        BY <1>2, PartsOfSetValue
    <2>3. 1 \in 1 .. MonthLength(d.year, v)
        BY <2>1, MonthType
    <2>4. SetValue(d, i, v) \in Dates
        BY <2>1, <2>2, <2>3, IsDate
    <2> QED BY <1>2, <2>2, <2>4, FieldValues DEF Agree
<1>3. CASE i = 3
    <2>1. v \in 1 .. MonthLength(d.year, d.month) /\ 0 \in 0 .. HoursPerDay - 1
        BY <1>3, LeastValues, GreatestValues DEF Months
    <2>2. SetValue(d, i, v) = [year |-> d.year, month |-> d.month, day |-> v, hour |-> 0]
        BY <1>3, PartsOfSetValue
    <2>4. SetValue(d, i, v) \in Dates
        BY <2>1, <2>2, IsDate
    <2> QED BY <1>3, <2>2, <2>4, FieldValues DEF Agree
<1>4. CASE i = 6
    <2>1. v \in 0 .. HoursPerDay - 1
        BY <1>4, LeastValues, GreatestValues DEF Months
    <2>2. SetValue(d, i, v) = [year |-> d.year, month |-> d.month, day |-> d.day, hour |-> v]
        BY <1>4, PartsOfSetValue
    <2>4. SetValue(d, i, v) \in Dates
        BY <2>1, <2>2, IsDate
    <2> QED BY <1>4, <2>2, <2>4, FieldValues DEF Agree
<1> QED BY <1>1, <1>2, <1>3, <1>4

\* With no field to raise the search is left at the first date.
LEMMA FirstDate ==
    ASSUME NEW d \in Dates, NEW v
    PROVE  SetValue(d, 0, v) \in Dates
<1>1. /\ FirstYear \in FirstYear .. LastYear /\ 1 \in Months
      /\ 0 \in 0 .. HoursPerDay - 1
    BY CalendarType DEF Months
<1>2. 1 \in 1 .. MonthLength(FirstYear, 1)
    BY <1>1, MonthType, CalendarType
<1>3. SetValue(d, 0, v) = [year |-> FirstYear, month |-> 1, day |-> 1, hour |-> 0]
    BY PartsOfSetValue
<1> QED BY <1>1, <1>2, <1>3, IsDate

\* The dates that are passed over when a field gets a later value.
LEMMA DatesBetween ==
    ASSUME NEW d \in Dates, NEW e \in Dates, NEW i \in FieldNumbers, Real(Field(i)),
           NEW v \in GetValue(Field(i), d) + 1 .. GetMax(Field(i), d)
    PROVE  /\ Instant(d) < Instant(SetValue(d, i, v))
           /\ Instant(d) <= Instant(e) /\ Instant(e) < Instant(SetValue(d, i, v))
                  => Agree(d, e, i) /\ GetValue(Field(i), e) < v
<1> DEFINE new == SetValue(d, i, v)
<1>1. v \in MinValue(Field(i)) .. GetMax(Field(i), d)
    BY ValueType
<1>2. new \in Dates
    BY <1>1, SetValueIsDate
<1> HIDE DEF new
<1>3. /\ Instant(d) < Instant(new) <=> Before(d, new)
      /\ Instant(e) < Instant(new) <=> Before(e, new)
      /\ Instant(d) <= Instant(e) <=> ~Before(e, d)
    BY <1>2, EarlierBefore, InstantType
<1>4. /\ new.year  = IF i > 1 THEN d.year ELSE IF i = 1 THEN v ELSE FirstYear
      /\ new.month = IF i > 2 THEN d.month ELSE IF i = 2 THEN v ELSE 1
      /\ new.day   = IF i > 3 THEN d.day ELSE IF i = 3 THEN v ELSE 1
      /\ new.hour  = IF i > 6 THEN d.hour ELSE IF i = 6 THEN v ELSE 0
    BY PartsOfSetValue, NameOfField DEF new
<1> USE DateType, CalendarType, FieldValues, NameOfField, RealFields
<1>5. v \in Int /\ v > GetValue(Field(i), d)
    BY ValueType
<1>6. Before(d, new)
    BY <1>4, <1>5 DEF Before, Months
<1>7. ASSUME ~Before(e, d), Before(e, new)
      PROVE  Agree(d, e, i) /\ GetValue(Field(i), e) < v
    <2>1. CASE i = 1
        BY <1>4, <1>5, <1>7, <2>1 DEF Agree, Before, Months
    <2>2. CASE i = 2
        BY <1>4, <1>5, <1>7, <2>2 DEF Agree, Before, Months
    <2>3. CASE i = 3
        BY <1>4, <1>5, <1>7, <2>3 DEF Agree, Before, Months
    <2>4. CASE i = 6
        BY <1>4, <1>5, <1>7, <2>4 DEF Agree, Before, Months
    <2> QED BY <2>1, <2>2, <2>3, <2>4
<1> QED BY <1>3, <1>6, <1>7 DEF new

\* The dates that are passed over when a more significant field than n + 1 is
\* raised have the values of the date the search is at in all fields up to n.
LEMMA RaisedField ==
    ASSUME NEW d \in Dates, NEW n \in 0 .. 5
    PROVE  /\ Raised(d, n) \in 0 .. 3 /\ Raised(d, n) <= n
           /\ Raised(d, n) # 0 =>
                  /\ Real(Field(Raised(d, n)))
                  /\ GetValue(Field(Raised(d, n)), d) < GetMax(Field(Raised(d, n)), d)
           /\ \A k \in 1 .. n : Real(Field(k)) /\ k > Raised(d, n) =>
                  GetValue(Field(k), d) = GetMax(Field(k), d)
<1> DEFINE S == Incrementable(d, n) \cup {0}
<1>1. S \in SUBSET Nat /\ S # {} /\ \A k \in S : k <= 5
    BY DEF Incrementable
<1>2. Raised(d, n) \in S /\ \A k \in S : k <= Raised(d, n)
    BY <1>1, MaxOfNaturals DEF Raised
<1>3. Raised(d, n) \in Nat
    BY <1>1, <1>2
<1>4. ASSUME Raised(d, n) # 0
      PROVE  /\ Raised(d, n) \in 1 .. n /\ Real(Field(Raised(d, n)))
             /\ GetValue(Field(Raised(d, n)), d) # GetMax(Field(Raised(d, n)), d)
    BY <1>2, <1>4 DEF Incrementable
<1>5. ASSUME Raised(d, n) # 0
      PROVE  GetValue(Field(Raised(d, n)), d) < GetMax(Field(Raised(d, n)), d)
    BY <1>4, <1>5, ValueType, NameOfField
<1>6. Raised(d, n) \in 0 .. 3
    BY <1>3, <1>4, RealFields
<1>7. ASSUME NEW k \in 1 .. n, Real(Field(k)), k > Raised(d, n)
      PROVE  GetValue(Field(k), d) = GetMax(Field(k), d)
    BY <1>2, <1>3, <1>7 DEF Incrementable
<1> QED BY <1>3, <1>4, <1>5, <1>6, <1>7

LEMMA IncrementSkips ==
    ASSUME NEW d \in Dates, NEW n \in 0 .. 5
    PROVE  /\ Increment(d, n) \in Dates
           /\ Raised(d, n) # 0 => /\ Instant(d) < Instant(Increment(d, n))
                                  /\ Agree(d, Increment(d, n), Raised(d, n))
           /\ \A e \in Dates :
                  /\ Instant(d) <= Instant(e)
                  /\ Raised(d, n) # 0 => Instant(e) < Instant(Increment(d, n))
                  => Agree(d, e, n + 1)
<1> DEFINE j == Raised(d, n)
           new == Increment(d, n)
<1>1. CASE j = 0
    <2>1. new \in Dates
        BY <1>1, FirstDate DEF Increment
    <2>2. ASSUME NEW e \in Dates, Instant(d) <= Instant(e)
          PROVE  Agree(d, e, n + 1)
        <3>1. ~Before(e, d)
            BY <2>2, EarlierBefore, InstantType
        <3>2. \A k \in 1 .. n : Real(Field(k)) => GetValue(Field(k), d) = GetMax(Field(k), d)
            BY <1>1, RaisedField
        <3>3. n >= 1 => d.year = LastYear
            BY <3>2, NameOfField, RealFields, FieldValues, GreatestValues
        <3>4. n >= 2 => d.month = MonthsPerYear
            BY <3>2, NameOfField, RealFields, FieldValues, GreatestValues
        <3>5. n >= 3 => d.day = MonthLength(d.year, d.month)
            BY <3>2, NameOfField, RealFields, FieldValues, GreatestValues
        <3>6. n >= 1 => e.year = d.year
            BY <3>1, <3>3, DateType, CalendarType DEF Before
        <3>7. n >= 2 => e.month = d.month
            BY <3>1, <3>4, <3>6, DateType, CalendarType DEF Before, Months
        <3>8. n >= 3 => e.day = d.day
            <4> HAVE n >= 3
            <4>1. e.day <= d.day
                BY <3>5, <3>6, <3>7, DateType
            <4> QED BY <3>1, <3>6, <3>7, <4>1, DateType DEF Before
        <3> QED BY <3>6, <3>7, <3>8 DEF Agree
    <2> QED BY <1>1, <2>1, <2>2
<1>2. CASE j # 0
    <2> DEFINE v == GetValue(Field(j), d) + 1
    <2>1. /\ j \in FieldNumbers /\ j \in 1 .. 3 /\ j <= n /\ Real(Field(j))
          /\ GetValue(Field(j), d) < GetMax(Field(j), d)
        BY <1>2, RaisedField, NameOfField
    <2>2. new = SetValue(d, j, v)
        BY <1>2 DEF Increment
    <2>3. /\ v \in GetValue(Field(j), d) + 1 .. GetMax(Field(j), d)
          /\ v \in MinValue(Field(j)) .. GetMax(Field(j), d)
        BY <2>1, ValueType
    <2>4. new \in Dates /\ Agree(d, new, j)
        BY <2>1, <2>2, <2>3, SetValueIsDate
    <2>5. Instant(d) < Instant(new)
        BY <2>1, <2>2, <2>3, DatesBetween
    <2>6. ASSUME NEW e \in Dates, Instant(d) <= Instant(e), Instant(e) < Instant(new)
          PROVE  Agree(d, e, n + 1)
        <3>1. Agree(d, e, j) /\ GetValue(Field(j), e) < v
            BY <2>1, <2>2, <2>3, <2>6, DatesBetween
        <3>2. GetValue(Field(j), d) <= GetValue(Field(j), e)
            BY <2>1, <2>6, <3>1, AgreeLater
        <3>3. GetValue(Field(j), d) = GetValue(Field(j), e)
            BY <2>1, <3>1, <3>2, ValueType
        <3>4. ~Before(e, d)
            BY <2>6, EarlierBefore, InstantType
        <3>5. \A k \in j + 1 .. n : Real(Field(k)) =>
                  GetValue(Field(k), d) = GetMax(Field(k), d)
            BY <2>1, RaisedField
        <3>6. d.year = e.year
            BY <2>1, <3>1, <3>3, NameOfField, FieldValues DEF Agree
        <3>7. n >= 2 => d.month = e.month
            <4>1. CASE j > 1
                BY <2>1, <3>1, <3>3, <4>1, NameOfField, FieldValues DEF Agree
            <4>2. CASE j = 1
                <5> HAVE n >= 2
                <5>1. d.month = MonthsPerYear
                    BY <3>5, <4>2, NameOfField, RealFields, FieldValues, GreatestValues
                <5> QED BY <3>4, <3>6, <5>1, DateType, CalendarType DEF Before, Months
            <4> QED BY <2>1, <4>1, <4>2
        <3>8. n >= 3 => d.day = e.day
            <4> HAVE n >= 3
            <4>1. CASE j = 3
                BY <3>3, <4>1, NameOfField, FieldValues
            <4>2. CASE j < 3
                <5>1. d.day = MonthLength(d.year, d.month)
                    BY <2>1, <3>5, <4>2, NameOfField, RealFields, FieldValues, GreatestValues
                <5>2. e.day <= d.day
                    BY <3>6, <3>7, <5>1, DateType
                <5> QED BY <3>4, <3>6, <3>7, <5>2, DateType DEF Before
            <4> QED BY <2>1, <4>1, <4>2
        <3> QED BY <3>6, <3>7, <3>8 DEF Agree
    <2> QED BY <1>2, <2>4, <2>5, <2>6
<1> QED BY <1>1, <1>2

----------------------------------------------------------------------------
\* Steps and weeks.

LEMMA Division ==
    ASSUME NEW x \in Int, NEW s \in Nat \ {0}
    PROVE  x \div s \in Int /\ x % s \in 0 .. s - 1 /\ x = s * (x \div s) + (x % s)
OBVIOUS

LEMMA Remainder ==
    ASSUME NEW x \in Int, NEW s \in Nat \ {0}, NEW k \in Int, NEW r \in 0 .. s - 1,
           x = k * s + r
    PROVE  x % s = r /\ x \div s = k
<1> DEFINE q == x \div s
           p == x % s
<1>1. q \in Int /\ p \in 0 .. s - 1 /\ x = s * q + p
    BY Division
<1> HIDE DEF q, p
<1>2. k * s < (q + 1) * s
    <2>1. (q + 1) * s = s * q + s
        BY <1>1
    <2>2. k * s \in Int /\ s * q \in Int
        BY <1>1
    <2> QED BY <1>1, <2>1, <2>2
<1>3. q * s < (k + 1) * s
    <2>1. (k + 1) * s = k * s + s /\ s * q = q * s
        BY <1>1
    <2>2. k * s \in Int /\ s * q \in Int
        BY <1>1
    <2> QED BY <1>1, <2>1, <2>2
<1>4. k < q + 1 /\ q < k + 1
    BY <1>1, <1>2, <1>3, ProductMonotone
<1>5. k = q
    BY <1>1, <1>4
<1>6. k * s = s * q /\ k * s \in Int
    BY <1>1, <1>5
<1> QED BY <1>1, <1>5, <1>6 DEF q, p

\* v is the least number of a set, or None if the set is empty.
IsLeast(v, S) == IF S = {} THEN v = None ELSE v \in S /\ \A x \in S : v <= x

\* OnStep returns the first value of a progression that is not before "start".
LEMMA OnStepIsNext ==
    ASSUME NEW start \in Nat, NEW origin \in Nat, origin <= start, NEW step \in Step
    PROVE  LET v    == OnStep(start, origin, step)
               on(x) == step = None \/ (x - origin) % step = 0
           IN  /\ v \in Nat /\ v >= start /\ on(v)
               /\ \A x \in Nat : x >= start /\ on(x) => v <= x
<1>1. CASE step = None
    BY <1>1 DEF OnStep
<1>2. CASE step # None
    <2> DEFINE a == start - origin
               q == (step - a) \div step
               r == (step - a) % step
               v == OnStep(start, origin, step)
    <2>1. step \in Nat \ {0} /\ a \in Nat
        BY <1>2 DEF Step
    <2>2. q \in Int /\ r \in 0 .. step - 1 /\ step - a = step * q + r
        <3>1. step - a \in Int
            BY <2>1
        <3> QED BY <2>1, <3>1, Division, Zenon
    <2>3. v = start + r
        BY <1>2 DEF OnStep
    <2> HIDE DEF q, r
    <2>4. v - origin = (1 - q) * step
        <3>1. (1 - q) * step = step - step * q
            BY <2>1, <2>2
        <3>2. step * q \in Int
            BY <2>1, <2>2
        <3> QED BY <2>1, <2>2, <2>3, <3>1, <3>2
    <2>5. (v - origin) % step = 0
        <3>1. 0 \in 0 .. step - 1 /\ 1 - q \in Int /\ v - origin \in Int
            BY <2>1, <2>2, <2>3
        <3>2. v - origin = (1 - q) * step + 0
            BY <3>1, <2>4
        <3> QED BY <2>1, <3>1, <3>2, Remainder
    <2>6. ASSUME NEW x \in Nat, x >= start, (x - origin) % step = 0
          PROVE  v <= x
        <3> DEFINE m == (x - origin) \div step
        <3>1. m \in Int /\ x - origin = step * m + 0
            <4>1. x - origin \in Int
                OBVIOUS
            <4>2. m \in Int /\ x - origin = step * m + ((x - origin) % step)
                BY <2>1, <4>1, Division, Zenon
            <4> QED BY <2>1, <2>6, <4>2
        <3> HIDE DEF m
        <3>2. (1 - q) * step < (m + 1) * step
            <4>1. (m + 1) * step = step * m + step
                BY <2>1, <3>1
            <4>2. step * m \in Int
                BY <2>1, <3>1
            <4>3. v - origin < x - origin + step
                BY <2>1, <2>2, <2>3, <2>6
            <4> QED BY <2>4, <3>1, <4>1, <4>2, <4>3
        <3>3. 1 - q < m + 1
            BY <2>1, <2>2, <3>1, <3>2, ProductMonotone
        <3>4. m >= 1 - q
            BY <2>2, <3>1, <3>3
        <3>5. m - (1 - q) \in Nat
            BY <2>2, <3>1, <3>4
        <3>6. (m - (1 - q)) * step \in Nat
            BY <2>1, <3>5, ProductType
        <3>7. (m - (1 - q)) * step = step * m - (1 - q) * step
            BY <2>1, <2>2, <3>1
        <3>8. (x - origin) - (v - origin) \in Nat
            BY <2>1, <2>3, <2>4, <3>1, <3>6, <3>7
        <3> QED BY <2>1, <2>2, <2>3, <3>8
    <2>7. v \in Nat /\ v >= start
        BY <2>1, <2>2, <2>3
    <2> QED BY <1>2, <2>5, <2>6, <2>7
<1> QED BY <1>1, <1>2

LEMMA HigherOf ==
    ASSUME NEW x \in Nat, NEW y \in Nat
    PROVE  /\ Higher(x, y) \in Nat
           /\ x >= y => Higher(x, y) = x
           /\ y >= x => Higher(x, y) = y
BY MaxOfTwo DEF Higher

LEMMA LowerOf ==
    ASSUME NEW x \in Nat, NEW y \in Nat
    PROVE  Min({x, y}) \in Nat /\ Min({x, y}) = IF x < y THEN x ELSE y
<1>1. {x, y} \in SUBSET Nat /\ {x, y} # {}
    OBVIOUS
<1>2. Min({x, y}) \in {x, y} /\ \A z \in {x, y} : Min({x, y}) <= z
    BY <1>1, MinOfNaturals
<1> QED BY <1>2

----------------------------------------------------------------------------
\* What an expression returns is the next value that it means.

\* x is a value of a field that an expression means, in the month of a date.
Means(expr, field, d, x) ==
    CASE expr.kind = "all" ->
            expr.step = None \/ (x - MinValue(field)) % expr.step = 0
      [] expr.kind = "range" ->
            /\ x >= expr.first
            /\ expr.last = None \/ x <= expr.last
            /\ expr.step = None \/ (x - expr.first) % expr.step = 0
      [] expr.kind = "position" ->
            /\ (MonthStart(d.year, d.month) + x - 1) % DaysPerWeek = expr.weekday
            /\ IF expr.option = LastOption
               THEN x + DaysPerWeek > MonthLength(d.year, d.month)
               ELSE (x - 1) \div DaysPerWeek = expr.option
      [] expr.kind = "last" -> x = MonthLength(d.year, d.month)

\* The values an expression means, from the one the date has.
Meant(expr, i, d) ==
    {x \in GetValue(Field(i), d) .. GetMax(Field(i), d) : Means(expr, Field(i), d, x)}

LEMMA KindOfExpression ==
    ASSUME NEW expr \in Expression
    PROVE  \/ expr.kind = "all" /\ expr.step \in Step
           \/ /\ expr.kind = "range" /\ expr.first \in Nat
              /\ expr.last \in TimeOrNone /\ expr.step \in Step
           \/ /\ expr.kind = "position" /\ expr.option \in 0 .. LastOption
              /\ expr.weekday \in 0 .. DaysPerWeek - 1
           \/ expr.kind = "last"
BY DEF Expression

LEMMA DenotesMeans ==
    ASSUME NEW d \in Dates, NEW i \in FieldNumbers, NEW expr \in Expression,
           Accepts(Field(i), expr)
    PROVE  Denotes(expr, Field(i), d) <=> Means(expr, Field(i), d, GetValue(Field(i), d))
<1>1. CASE expr.kind = "all"
    BY <1>1 DEF Denotes, Means
<1>2. CASE expr.kind = "range"
    BY <1>2 DEF Denotes, Means
<1>3. CASE expr.kind = "position" \/ expr.kind = "last"
    <2>1. GetValue(Field(i), d) = d.day
        BY <1>3, FieldValues DEF Accepts
    <2>2. Weekday(d) = (MonthStart(d.year, d.month) + d.day - 1) % DaysPerWeek
        BY DEF Weekday, DayNumber
    <2>3. CASE expr.kind = "position"
        BY <2>1, <2>2, <2>3 DEF Denotes, Means
    <2>4. CASE expr.kind = "last"
        BY <2>1, <2>4 DEF Denotes, Means
    <2> QED BY <1>3, <2>3, <2>4
<1> QED BY <1>1, <1>2, <1>3, KindOfExpression

LEMMA AllNextIsNext ==
    ASSUME NEW d \in Dates, NEW i \in FieldNumbers, NEW expr \in Expression,
           expr.kind = "all"
    PROVE  IsLeast(AllNext(expr, Field(i), d), Meant(expr, i, d))
<1> DEFINE c == GetValue(Field(i), d)
           low == MinValue(Field(i))
           high == GetMax(Field(i), d)
           v == OnStep(c, low, expr.step)
<1>1. low \in Nat /\ high \in Nat /\ c \in low .. high /\ expr.step \in Step
    BY ValueType, KindOfExpression
<1> HIDE DEF c, low, high
<1>2. Higher(c, low) = c
    BY <1>1, HigherOf
<1>3. AllNext(expr, Field(i), d) = IF v <= high THEN v ELSE None
    BY <1>2 DEF AllNext, Within, c, low, high
<1>4. \A x : Means(expr, Field(i), d, x) <=>
                 expr.step = None \/ (x - low) % expr.step = 0
    BY DEF Means, low
<1>5. /\ v \in Nat /\ v >= c /\ (expr.step = None \/ (v - low) % expr.step = 0)
      /\ \A x \in Nat : x >= c /\ (expr.step = None \/ (x - low) % expr.step = 0) => v <= x
    BY <1>1, OnStepIsNext
<1> HIDE DEF v
<1>6. Meant(expr, i, d) =
          {x \in c .. high : expr.step = None \/ (x - low) % expr.step = 0}
    BY <1>4 DEF Meant, c, high
<1>7. CASE v <= high
    <2>1. v \in Meant(expr, i, d)
        BY <1>1, <1>5, <1>6, <1>7
    <2>2. ASSUME NEW x \in Meant(expr, i, d) PROVE v <= x
        <3>1. /\ x \in c .. high
              /\ expr.step = None \/ (x - low) % expr.step = 0
            BY <1>6
        <3> QED BY <1>1, <1>5, <3>1
    <2> QED BY <1>3, <1>7, <2>1, <2>2 DEF IsLeast
<1>8. CASE ~(v <= high)
    <2>1. Meant(expr, i, d) = {}
        BY <1>1, <1>5, <1>6, <1>8
    <2> QED BY <1>3, <1>8, <2>1 DEF IsLeast
<1> QED BY <1>7, <1>8

LEMMA RangeNextIsNext ==
    ASSUME NEW d \in Dates, NEW i \in FieldNumbers, NEW expr \in Expression,
           expr.kind = "range", Accepts(Field(i), expr)
    PROVE  IsLeast(RangeNext(expr, Field(i), d), Meant(expr, i, d))
<1> DEFINE c == GetValue(Field(i), d)
           top == GetMax(Field(i), d)
           high == IF expr.last = None THEN top ELSE Min({top, expr.last})
           start == Higher(expr.first, c)
           v == OnStep(start, expr.first, expr.step)
<1>1. /\ MinValue(Field(i)) \in Nat /\ top \in Nat /\ c \in Nat /\ c <= top
      /\ expr.first \in Nat /\ expr.last \in Nat \cup {None} /\ expr.step \in Step
    BY ValueType, KindOfExpression DEF TimeOrNone, Time
<1> HIDE DEF c, top
<1>2. Higher(MinValue(Field(i)), expr.first) = expr.first
    <2>1. expr.first >= MinValue(Field(i))
        BY DEF Accepts
    <2> QED BY <1>1, <2>1, HigherOf
<1>3. RangeNext(expr, Field(i), d) = IF v <= high THEN v ELSE None
    BY <1>2 DEF RangeNext, Within, c, top
<1>4. \A x : Means(expr, Field(i), d, x) <=>
                 /\ x >= expr.first
                 /\ expr.last = None \/ x <= expr.last
                 /\ expr.step = None \/ (x - expr.first) % expr.step = 0
    BY DEF Means
<1>5. start \in Nat /\ start >= c /\ start >= expr.first /\ (start = c \/ start = expr.first)
    <2>1. /\ start \in Nat
          /\ expr.first >= c => start = expr.first
          /\ c >= expr.first => start = c
        BY <1>1, HigherOf, Zenon
    <2> QED BY <1>1, <2>1
<1>6. high \in Nat /\ \A x \in Nat : x <= high <=> x <= top /\ (expr.last = None \/ x <= expr.last)
    BY <1>1, LowerOf
<1> HIDE DEF start, high
<1>7. /\ v \in Nat /\ v >= start /\ (expr.step = None \/ (v - expr.first) % expr.step = 0)
      /\ \A x \in Nat : x >= start /\ (expr.step = None \/ (x - expr.first) % expr.step = 0)
                            => v <= x
    BY <1>1, <1>5, OnStepIsNext
<1> HIDE DEF v
<1>8. Meant(expr, i, d) =
          {x \in c .. top : /\ x >= expr.first
                            /\ expr.last = None \/ x <= expr.last
                            /\ expr.step = None \/ (x - expr.first) % expr.step = 0}
    BY <1>4 DEF Meant, c, top
<1>9. \A x \in Meant(expr, i, d) : x \in Nat /\ v <= x /\ x <= high
    BY <1>1, <1>5, <1>6, <1>7, <1>8
<1>10. CASE v <= high
    <2>1. v \in Meant(expr, i, d)
        BY <1>1, <1>5, <1>6, <1>7, <1>8, <1>10
    <2> QED BY <1>3, <1>9, <1>10, <2>1 DEF IsLeast
<1>11. CASE ~(v <= high)
    <2>1. Meant(expr, i, d) = {}
        BY <1>6, <1>7, <1>9, <1>11
    <2> QED BY <1>3, <1>11, <2>1 DEF IsLeast
<1> QED BY <1>10, <1>11

\* The days of a month that are a given weekday follow each other by a week
\* from the first one, which is in the first week.
LEMMA FirstHit ==
    ASSUME NEW start \in Nat, NEW weekday \in 0 .. DaysPerWeek - 1
    PROVE  LET difference == weekday - (start % DaysPerWeek) + 1
               hit == IF difference <= 0 THEN difference + DaysPerWeek ELSE difference
           IN  /\ hit \in 1 .. DaysPerWeek
               /\ \A x \in Nat \ {0} :
                      (start + x - 1) % DaysPerWeek = weekday
                          <=> \E k \in Nat : x = hit + k * DaysPerWeek
<1> DEFINE W == DaysPerWeek
           q == start \div W
           r == start % W
           difference == weekday - r + 1
           hit == IF difference <= 0 THEN difference + W ELSE difference
<1>1. W \in Nat \ {0} /\ weekday \in 0 .. W - 1
    BY CalendarType
<1> HIDE DEF W
<1>2. q \in Int /\ r \in 0 .. W - 1 /\ start = W * q + r
    BY <1>1, Division
<1> HIDE DEF q, r
<1>3. hit \in 1 .. W
    BY <1>1, <1>2
<1>4. PICK p \in Int : start + hit - 1 = p * W + weekday
    <2>1. q \in Int /\ q + 1 \in Int
        BY <1>2
    <2>2. (q + 1) * W = W * q + W /\ q * W = W * q
        BY <1>1, <1>2
    <2>3. CASE difference <= 0
        <3>1. start + hit - 1 = (q + 1) * W + weekday
            BY <1>1, <1>2, <2>2, <2>3
        <3> QED BY <2>1, <3>1
    <2>4. CASE ~(difference <= 0)
        <3>1. start + hit - 1 = q * W + weekday
            BY <1>1, <1>2, <2>2, <2>4
        <3> QED BY <2>1, <3>1
    <2> QED BY <2>3, <2>4
<1> HIDE DEF hit
<1>5. ASSUME NEW x \in Nat \ {0}, NEW k \in Nat, x = hit + k * W
      PROVE  (start + x - 1) % W = weekday
    <2>1. (p + k) * W = p * W + k * W
        BY <1>1, <1>4
    <2>2. k * W \in Nat
        BY <1>1, ProductType
    <2>3. start + x - 1 = (p + k) * W + weekday
        BY <1>1, <1>3, <1>4, <1>5, <2>1, <2>2
    <2>4. p + k \in Int /\ start + x - 1 \in Int
        BY <1>4, <1>5
    <2> QED BY <1>1, <2>3, <2>4, Remainder
<1>6. ASSUME NEW x \in Nat \ {0}, (start + x - 1) % W = weekday
      PROVE  \E k \in Nat : x = hit + k * W
    <2> DEFINE m == (start + x - 1) \div W
    <2>1. m \in Int /\ start + x - 1 = W * m + weekday
        <3>1. start + x - 1 \in Int
            OBVIOUS
        <3>2. m \in Int /\ start + x - 1 = W * m + ((start + x - 1) % W)
            BY <1>1, <3>1, Division, Zenon
        <3> QED BY <1>6, <3>2
    <2> HIDE DEF m
    <2>2. (m - p) * W = W * m - p * W
        BY <1>1, <1>4, <2>1
    <2>3. x = hit + (m - p) * W
        BY <1>1, <1>3, <1>4, <2>1, <2>2
    <2>4. 0 * W < (m - p + 1) * W
        <3>1. (m - p + 1) * W = (m - p) * W + W
            BY <1>1, <1>4, <2>1
        <3>2. (m - p) * W \in Int
            BY <1>1, <1>4, <2>1
        <3> QED BY <1>1, <1>3, <2>3, <3>1, <3>2
    <2>5. 0 < m - p + 1
        BY <1>1, <1>4, <2>1, <2>4, ProductMonotone
    <2>6. m - p \in Nat
        BY <1>4, <2>1, <2>5
    <2> QED BY <2>3, <2>6
<1>7. \A x \in Nat \ {0} :
          (start + x - 1) % W = weekday <=> \E k \in Nat : x = hit + k * W
    BY <1>5, <1>6
<1> QED BY <1>3, <1>7 DEF W, hit, r

\* The day that a weekday position names is the only one of the month it means.
LEMMA TargetDayIsMeant ==
    ASSUME NEW d \in Dates, NEW expr \in Expression, expr.kind = "position"
    PROVE  /\ TargetDay(expr, d) \in Int
           /\ \A x \in 1 .. MonthLength(d.year, d.month) :
                  Means(expr, "day", d, x) <=> x = TargetDay(expr, d)
<1> DEFINE W == DaysPerWeek
           start == MonthStart(d.year, d.month)
           last == MonthLength(d.year, d.month)
           difference == expr.weekday - (start % W) + 1
           hit == IF difference <= 0 THEN difference + W ELSE difference
           weeks == IF expr.option < LastOption THEN expr.option ELSE (last - hit) \div W
<1>1. /\ W \in Nat \ {0} /\ start \in Nat /\ last \in Nat \ {0}
      /\ expr.weekday \in 0 .. W - 1 /\ expr.option \in 0 .. LastOption
    BY CalendarType, MonthType, DateType, KindOfExpression
<1>2. Weekday([d EXCEPT !.day = 1]) = start % W
    <2>1. /\ [d EXCEPT !.day = 1].year = d.year /\ [d EXCEPT !.day = 1].month = d.month
          /\ [d EXCEPT !.day = 1].day = 1
        BY DEF Dates
    <2>2. DayNumber([d EXCEPT !.day = 1]) = start
        BY <1>1, <2>1 DEF DayNumber
    <2> QED BY <2>2 DEF Weekday
<1>3. TargetDay(expr, d) = hit + weeks * W
    BY <1>2 DEF TargetDay
<1>4. /\ hit \in 1 .. W
      /\ \A x \in Nat \ {0} :
             (start + x - 1) % W = expr.weekday <=> \E k \in Nat : x = hit + k * W
    BY <1>1, FirstHit
<1>5. \A x : Means(expr, "day", d, x) <=>
                 /\ (start + x - 1) % W = expr.weekday
                 /\ IF expr.option = LastOption THEN x + W > last
                                                ELSE (x - 1) \div W = expr.option
    BY DEF Means
<1> HIDE DEF W, start, last, hit
<1>6. CASE expr.option # LastOption
    <2>1. weeks = expr.option /\ weeks \in Nat
        BY <1>1, <1>6 DEF LastOption
    <2> HIDE DEF weeks
    <2>2. ASSUME NEW k \in Nat, NEW x \in Nat, x = hit + k * W
          PROVE  (x - 1) \div W = k
        <3>1. hit - 1 \in 0 .. W - 1 /\ x - 1 \in Int /\ k * W \in Int /\ k \in Int
            BY <1>1, <1>4
        <3>2. x - 1 = k * W + (hit - 1)
            BY <1>1, <1>4, <2>2, <3>1
        <3> QED BY <1>1, <3>1, <3>2, Remainder, Zenon
    <2>3. weeks * W \in Nat
        BY <1>1, <2>1, ProductType
    <2>4. ASSUME NEW x \in 1 .. last
          PROVE  Means(expr, "day", d, x) <=> x = hit + weeks * W
        <3>1. x \in Nat \ {0} /\ x \in Nat
            BY <1>1
        <3>2. ASSUME Means(expr, "day", d, x) PROVE x = hit + weeks * W
            <4>1. (start + x - 1) % W = expr.weekday /\ (x - 1) \div W = weeks
                BY <1>5, <1>6, <2>1, <3>2
            <4>2. PICK k \in Nat : x = hit + k * W
                BY <1>4, <3>1, <4>1, Zenon
            <4>3. k = weeks
                BY <2>2, <3>1, <4>1, <4>2, Zenon
            <4> QED BY <4>2, <4>3
        <3>3. ASSUME x = hit + weeks * W PROVE Means(expr, "day", d, x)
            <4>1. (start + x - 1) % W = expr.weekday
                BY <1>4, <2>1, <3>1, <3>3, Zenon
            <4>2. (x - 1) \div W = weeks
                BY <2>1, <2>2, <3>1, <3>3, Zenon
            <4> QED BY <1>5, <1>6, <2>1, <4>1, <4>2
        <3> QED BY <3>2, <3>3
    <2> QED BY <1>3, <1>4, <2>3, <2>4 DEF last
<1>7. CASE expr.option = LastOption
    <2> DEFINE r == (last - hit) % W
    <2>1. weeks \in Int /\ r \in 0 .. W - 1 /\ last - hit = W * weeks + r
        <3>1. last - hit \in Int /\ weeks = (last - hit) \div W
            BY <1>1, <1>4, <1>7
        <3> QED BY <1>1, <3>1, Division, Zenon
    <2> HIDE DEF weeks, r
    <2>2. weeks * W = W * weeks /\ weeks * W \in Int
        BY <1>1, <2>1
    <2>3. ASSUME NEW x \in 1 .. last
          PROVE  Means(expr, "day", d, x) <=> x = hit + weeks * W
        <3>1. x \in Nat \ {0} /\ x \in Nat
            BY <1>1
        <3>2. ASSUME Means(expr, "day", d, x) PROVE x = hit + weeks * W
            <4>1. (start + x - 1) % W = expr.weekday /\ x + W > last
                BY <1>5, <1>7, <3>2
            <4>2. PICK k \in Nat : x = hit + k * W
                BY <1>4, <3>1, <4>1, Zenon
            <4>3. k * W \in Nat /\ (k + 1) * W = k * W + W /\ (weeks + 1) * W = weeks * W + W
                BY <1>1, <2>1, ProductType
            <4>4. k * W < (weeks + 1) * W
                BY <1>1, <1>4, <2>1, <2>2, <4>2, <4>3
            <4>5. weeks * W < (k + 1) * W
                BY <1>1, <1>4, <2>1, <2>2, <4>1, <4>2, <4>3
            <4>6. k < weeks + 1 /\ weeks < k + 1
                BY <1>1, <2>1, <4>4, <4>5, ProductMonotone
            <4> QED BY <2>1, <4>2, <4>6
        <3>3. ASSUME x = hit + weeks * W PROVE Means(expr, "day", d, x)
            <4>1. 0 * W < (weeks + 1) * W
                <5>1. (weeks + 1) * W = weeks * W + W
                    BY <1>1, <2>1
                <5> QED BY <1>1, <1>4, <2>2, <3>3, <5>1
            <4>2. 0 < weeks + 1
                BY <1>1, <2>1, <4>1, ProductMonotone
            <4>3. weeks \in Nat
                BY <2>1, <4>2
            <4>4. (start + x - 1) % W = expr.weekday
                BY <1>4, <3>1, <3>3, <4>3, Zenon
            <4>5. x + W > last
                BY <1>1, <1>4, <2>1, <2>2, <3>3
            <4> QED BY <1>5, <1>7, <4>4, <4>5
        <3> QED BY <3>2, <3>3
    <2> QED BY <1>3, <1>4, <2>2, <2>3 DEF last
<1> QED BY <1>6, <1>7

LEMMA PositionNextIsNext ==
    ASSUME NEW d \in Dates, NEW i \in FieldNumbers, NEW expr \in Expression,
           expr.kind = "position", Accepts(Field(i), expr)
    PROVE  IsLeast(PositionNext(expr, d), Meant(expr, i, d))
<1> DEFINE last == MonthLength(d.year, d.month)
           t == TargetDay(expr, d)
<1>1. Field(i) = "day"
    BY DEF Accepts
<1>2. last \in Nat /\ d.day \in 1 .. last /\ t \in Int
    BY MonthType, DateType, TargetDayIsMeant
<1>3. \A x \in 1 .. last : Means(expr, "day", d, x) <=> x = t
    BY TargetDayIsMeant
<1>4. Meant(expr, i, d) = {x \in d.day .. last : Means(expr, "day", d, x)}
    BY <1>1, FieldValues, GreatestValues DEF Meant
<1>5. PositionNext(expr, d) = IF t <= last /\ t >= d.day THEN t ELSE None
    BY DEF PositionNext
<1> HIDE DEF last, t
<1>6. Meant(expr, i, d) = {x \in d.day .. last : x = t}
    BY <1>2, <1>3, <1>4
<1>7. CASE t <= last /\ t >= d.day
    <2>1. t \in Meant(expr, i, d) /\ \A x \in Meant(expr, i, d) : t <= x
        BY <1>2, <1>6, <1>7
    <2> QED BY <1>5, <1>7, <2>1 DEF IsLeast
<1>8. CASE ~(t <= last /\ t >= d.day)
    <2>1. Meant(expr, i, d) = {}
        BY <1>2, <1>6, <1>8
    <2> QED BY <1>5, <1>8, <2>1 DEF IsLeast
<1> QED BY <1>7, <1>8

LEMMA LastDayIsNext ==
    ASSUME NEW d \in Dates, NEW i \in FieldNumbers, NEW expr \in Expression,
           expr.kind = "last", Accepts(Field(i), expr)
    PROVE  IsLeast(MonthLength(d.year, d.month), Meant(expr, i, d))
<1> DEFINE last == MonthLength(d.year, d.month)
<1>1. Field(i) = "day"
    BY DEF Accepts
<1>2. last \in Nat /\ d.day \in 1 .. last
    BY MonthType, DateType
<1>3. Meant(expr, i, d) = {x \in d.day .. last : x = last}
    BY <1>1, FieldValues, GreatestValues DEF Meant, Means
<1> HIDE DEF last
<1>4. last \in Meant(expr, i, d) /\ \A x \in Meant(expr, i, d) : last <= x
    BY <1>2, <1>3
<1>5. IsLeast(last, Meant(expr, i, d))
    BY <1>4 DEF IsLeast
<1> QED BY <1>5 DEF last

\* What get_next_value of an expression returns: the next value it means.
LEMMA ExprNextIsNext ==
    ASSUME NEW d \in Dates, NEW i \in FieldNumbers, NEW expr \in Expression,
           Accepts(Field(i), expr)
    PROVE  IsLeast(ExprNext(expr, Field(i), d), Meant(expr, i, d))
<1>1. CASE expr.kind = "all"
    BY <1>1, AllNextIsNext DEF ExprNext
<1>2. CASE expr.kind = "range"
    BY <1>2, RangeNextIsNext DEF ExprNext
<1>3. CASE expr.kind = "position"
    BY <1>3, PositionNextIsNext DEF ExprNext
<1>4. CASE expr.kind = "last"
    BY <1>4, LastDayIsNext DEF ExprNext
<1> QED BY <1>1, <1>2, <1>3, <1>4, KindOfExpression

\* What a value of a field means depends on the more significant fields only.
LEMMA MeansAgree ==
    ASSUME NEW d \in Dates, NEW e \in Dates, NEW i \in FieldNumbers, Agree(d, e, i),
           NEW expr \in Expression, Accepts(Field(i), expr), NEW x
    PROVE  Means(expr, Field(i), e, x) <=> Means(expr, Field(i), d, x)
<1>1. CASE expr.kind \in {"all", "range"}
    BY <1>1 DEF Means
<1>2. CASE expr.kind \in {"position", "last"}
    <2>1. Field(i) = "day"
        BY <1>2 DEF Accepts
    <2>2. i = 3
        BY <2>1, NameOfField
    <2>3. d.year = e.year /\ d.month = e.month
        BY <2>2 DEF Agree
    <2> QED BY <1>2, <2>3 DEF Means
<1> QED BY <1>1, <1>2, KindOfExpression

LEMMA ValueAgree ==
    ASSUME NEW d \in Dates, NEW e \in Dates, NEW i \in FieldNumbers
    PROVE  /\ Agree(d, e, i) => GetMax(Field(i), d) = GetMax(Field(i), e)
           /\ Agree(d, e, i + 1) => GetValue(Field(i), d) = GetValue(Field(i), e)
<1> USE NameOfField
<1>1. ASSUME Agree(d, e, i) PROVE GetMax(Field(i), d) = GetMax(Field(i), e)
    BY <1>1, GreatestValues DEF Agree
<1>2. ASSUME Agree(d, e, i + 1) PROVE GetValue(Field(i), d) = GetValue(Field(i), e)
    <2>1. CASE i \in {1, 2, 3, 6}
        BY <1>2, <2>1, FieldValues DEF Agree
    <2>2. CASE i \in {4, 5}
        <3>1. DayNumber(d) = DayNumber(e)
            BY <1>2, <2>2 DEF Agree, DayNumber
        <3> QED BY <2>2, <3>1, FieldValues DEF IsoWeek, Weekday
    <2> QED BY <2>1, <2>2
<1> QED BY <1>1, <1>2

----------------------------------------------------------------------------
\* The fields of the trigger.

\* The expressions of a trigger are the ones its constructor let through.
FieldsOK ==
    \A i \in FieldNumbers : \A expr \in fields[Field(i)] :
        expr \in Expression /\ Accepts(Field(i), expr)

\* A date satisfies field i.
Suits(i, d) == \E expr \in fields[Field(i)] : Denotes(expr, Field(i), d)

\* The values the field accepts, from the one the date has.
MeantBy(i, d) ==
    {x \in GetValue(Field(i), d) .. GetMax(Field(i), d) :
        \E expr \in fields[Field(i)] : Means(expr, Field(i), d, x)}

LEMMA MatchesSuits ==
    ASSUME NEW d
    PROVE  Matches(d) <=> \A i \in FieldNumbers : Suits(i, d)
BY DEF Matches, Suits

LEMMA NextValueIsNext ==
    ASSUME FieldsOK, NEW d \in Dates, NEW i \in FieldNumbers
    PROVE  IsLeast(GetNextValue(Field(i), d), MeantBy(i, d))
<1> DEFINE T == {ExprNext(expr, Field(i), d) : expr \in fields[Field(i)]} \ {None}
<1>1. ASSUME NEW expr \in fields[Field(i)]
      PROVE  IsLeast(ExprNext(expr, Field(i), d), Meant(expr, i, d))
    BY ExprNextIsNext DEF FieldsOK
<1>2. ASSUME NEW expr \in fields[Field(i)]
      PROVE  /\ Meant(expr, i, d) \subseteq MeantBy(i, d)
             /\ Meant(expr, i, d) \subseteq Nat
    BY ValueType DEF Meant, MeantBy
<1>3. ASSUME NEW expr \in fields[Field(i)], ExprNext(expr, Field(i), d) # None
      PROVE  ExprNext(expr, Field(i), d) \in Meant(expr, i, d)
    BY <1>1, <1>3 DEF IsLeast
<1>4. T \in SUBSET Nat /\ T \subseteq MeantBy(i, d)
    BY <1>2, <1>3
<1>5. ASSUME NEW x \in MeantBy(i, d) PROVE \E v \in T : v <= x
    <2>1. PICK expr \in fields[Field(i)] : x \in Meant(expr, i, d)
        BY DEF Meant, MeantBy
    <2>2. ExprNext(expr, Field(i), d) \in Meant(expr, i, d) /\ ExprNext(expr, Field(i), d) <= x
        BY <1>1, <2>1 DEF IsLeast
    <2>3. ExprNext(expr, Field(i), d) \in Nat
        BY <1>2, <2>2
    <2>4. ExprNext(expr, Field(i), d) \in T
        BY <2>3 DEF None
    <2> QED BY <2>2, <2>4
<1>6. GetNextValue(Field(i), d) = IF T = {} THEN None ELSE Min(T)
    BY DEF GetNextValue, Earliest
<1> HIDE DEF T
<1>7. CASE T = {}
    BY <1>5, <1>6, <1>7 DEF IsLeast
<1>8. CASE T # {}
    <2>1. Min(T) \in T /\ \A v \in T : Min(T) <= v
        BY <1>4, <1>8, MinOfNaturals
    <2>2. ASSUME NEW x \in MeantBy(i, d) PROVE Min(T) <= x
        <3>1. PICK v \in T : v <= x
            BY <1>5
        <3>2. x \in Nat
            BY ValueType DEF MeantBy
        <3>3. v \in Nat /\ Min(T) \in Nat /\ Min(T) <= v
            BY <1>4, <2>1
        <3> QED BY <3>1, <3>2, <3>3
    <2> QED BY <1>4, <1>6, <1>8, <2>1, <2>2 DEF IsLeast
<1> QED BY <1>7, <1>8

LEMMA SuitsMeant ==
    ASSUME FieldsOK, NEW d \in Dates, NEW i \in FieldNumbers
    PROVE  Suits(i, d) <=> GetValue(Field(i), d) \in MeantBy(i, d)
<1>1. \A expr \in fields[Field(i)] :
          Denotes(expr, Field(i), d) <=> Means(expr, Field(i), d, GetValue(Field(i), d))
    BY DenotesMeans DEF FieldsOK
<1>2. GetValue(Field(i), d) \in GetValue(Field(i), d) .. GetMax(Field(i), d)
    BY ValueType
<1> QED BY <1>1, <1>2 DEF Suits, MeantBy

LEMMA SuitsAgree ==
    ASSUME FieldsOK, NEW d \in Dates, NEW e \in Dates, NEW i \in FieldNumbers,
           Agree(d, e, i + 1)
    PROVE  Suits(i, d) <=> Suits(i, e)
<1>1. Agree(d, e, i)
    BY NameOfField DEF Agree
<1>2. /\ GetValue(Field(i), d) = GetValue(Field(i), e)
      /\ GetMax(Field(i), d) = GetMax(Field(i), e)
    BY <1>1, ValueAgree
<1>3. \A expr \in fields[Field(i)] : \A x :
          Means(expr, Field(i), e, x) <=> Means(expr, Field(i), d, x)
    BY <1>1, MeansAgree DEF FieldsOK
<1>4. MeantBy(i, d) = MeantBy(i, e)
    BY <1>2, <1>3 DEF MeantBy
<1> QED BY <1>2, <1>4, SuitsMeant

\* A later date that agrees on the more significant fields and satisfies field
\* i has a value that the search finds, or a later one.
LEMMA NextValueBounds ==
    ASSUME FieldsOK, NEW d \in Dates, NEW e \in Dates, NEW i \in FieldNumbers,
           Real(Field(i)), Agree(d, e, i), Instant(d) <= Instant(e), Suits(i, e)
    PROVE  /\ GetNextValue(Field(i), d) # None
           /\ GetNextValue(Field(i), d) <= GetValue(Field(i), e)
<1> DEFINE x == GetValue(Field(i), e)
<1>1. GetValue(Field(i), d) <= x
    BY AgreeLater
<1>2. GetMax(Field(i), d) = GetMax(Field(i), e)
    BY ValueAgree
<1>3. x \in GetValue(Field(i), d) .. GetMax(Field(i), d)
    BY <1>1, <1>2, ValueType
<1>4. \E expr \in fields[Field(i)] : Means(expr, Field(i), e, x)
    BY SuitsMeant DEF MeantBy
<1>5. \E expr \in fields[Field(i)] : Means(expr, Field(i), d, x)
    BY <1>4, MeansAgree DEF FieldsOK
<1>6. x \in MeantBy(i, d)
    BY <1>3, <1>5 DEF MeantBy
<1>7. IsLeast(GetNextValue(Field(i), d), MeantBy(i, d))
    BY NextValueIsNext
<1>8. /\ GetNextValue(Field(i), d) \in MeantBy(i, d)
      /\ GetNextValue(Field(i), d) <= x
    BY <1>6, <1>7 DEF IsLeast
<1>9. GetNextValue(Field(i), d) # None
    BY <1>8, ValueType DEF MeantBy, None
<1> QED BY <1>8, <1>9

\* The next value of a field is the date's own if the date satisfies the field.
LEMMA NextValueType ==
    ASSUME FieldsOK, NEW d \in Dates, NEW i \in FieldNumbers,
           GetNextValue(Field(i), d) # None
    PROVE  /\ GetNextValue(Field(i), d) \in GetValue(Field(i), d) .. GetMax(Field(i), d)
           /\ \E expr \in fields[Field(i)] :
                  Means(expr, Field(i), d, GetNextValue(Field(i), d))
BY NextValueIsNext DEF IsLeast, MeantBy

LEMMA NextValueSuits ==
    ASSUME FieldsOK, NEW d \in Dates, NEW i \in FieldNumbers
    PROVE  Suits(i, d) <=> GetNextValue(Field(i), d) # None
                              /\ GetNextValue(Field(i), d) <= GetValue(Field(i), d)
<1> DEFINE c == GetValue(Field(i), d)
           v == GetNextValue(Field(i), d)
<1>1. c \in Nat /\ GetMax(Field(i), d) \in Nat
    BY ValueType
<1>2. IsLeast(v, MeantBy(i, d))
    BY NextValueIsNext
<1>3. \A x \in MeantBy(i, d) : x \in Nat /\ x >= c
    BY <1>1 DEF MeantBy
<1>4. Suits(i, d) <=> c \in MeantBy(i, d)
    BY SuitsMeant
<1> HIDE DEF c, v
<1>5. ASSUME c \in MeantBy(i, d) PROVE v # None /\ v <= c
    BY <1>2, <1>3, <1>5 DEF IsLeast, None
<1>6. ASSUME v # None, v <= c PROVE c \in MeantBy(i, d)
    <2>1. v \in MeantBy(i, d)
        BY <1>2, <1>6 DEF IsLeast
    <2>2. v = c
        BY <1>1, <1>3, <1>6, <2>1
    <2> QED BY <2>1, <2>2
<1> QED BY <1>4, <1>5, <1>6 DEF c, v

----------------------------------------------------------------------------
\* The invariant: the search has passed over no date that satisfies every
\* field, and the fields it has left behind are satisfied.

Passed(d, n) ==
    IF n = 0
    THEN \A e \in Dates : Instant(from) <= Instant(e) => ~Matches(e)
    ELSE /\ Instant(from) <= Instant(d)
         /\ \A e \in Dates :
                Instant(from) <= Instant(e) /\ Instant(e) < Instant(d) => ~Matches(e)

Settled(d, n) == \A i \in FieldNumbers : i < n => Suits(i, d)

\* The search has come to a date and a field.
At(d, n) == d \in Dates /\ n \in 0 .. 7 /\ Passed(d, n) /\ Settled(d, n)

SearchInv ==
    /\ FieldsOK
    /\ end \in TimeOrNone
    /\ from \in Dates
    /\ At(date, fieldnum)
    /\ IF answer = Searching THEN fieldnum \in FieldNumbers
                             ELSE answer = Answered(date, fieldnum)

\* The date is raised in a field up to n, when no date that agrees with it in
\* the fields up to n satisfies every field.
LEMMA IncrementAt ==
    ASSUME FieldsOK, from \in Dates, NEW d \in Dates, NEW m \in FieldNumbers, At(d, m),
           NEW n \in 0 .. 5, n <= m,
           \A e \in Dates : Instant(d) <= Instant(e) /\ Agree(d, e, n + 1) => ~Matches(e)
    PROVE  At(Increment(d, n), Raised(d, n))
<1> DEFINE new == Increment(d, n)
           j == Raised(d, n)
<1>1. new \in Dates /\ j \in 0 .. 3 /\ j <= n
    BY IncrementSkips, RaisedField
<1>2. ASSUME NEW e \in Dates, Instant(from) <= Instant(e), j # 0 => Instant(e) < Instant(new)
      PROVE  ~Matches(e)
    <2>1. CASE Instant(e) < Instant(d)
        BY <1>2, <2>1, NameOfField DEF At, Passed
    <2>2. CASE Instant(d) <= Instant(e)
        <3>1. Agree(d, e, n + 1)
            BY <1>2, <2>2, IncrementSkips
        <3> QED BY <2>2, <3>1
    <2> QED BY <2>1, <2>2, InstantType
<1>3. j # 0 => Instant(from) <= Instant(new)
    <2>1. Instant(from) <= Instant(d)
        BY NameOfField DEF At, Passed
    <2>2. j # 0 => Instant(d) < Instant(new)
        BY IncrementSkips
    <2> QED BY <1>1, <2>1, <2>2, InstantType
<1>4. Passed(new, j)
    BY <1>2, <1>3 DEF Passed
<1>5. ASSUME NEW i \in FieldNumbers, i < j
      PROVE  Suits(i, new)
    <2>1. Agree(d, new, j)
        BY <1>1, <1>5, IncrementSkips, NameOfField
    <2>2. Agree(d, new, i + 1)
        BY <1>1, <1>5, <2>1, NameOfField DEF Agree
    <2>3. Suits(i, d)
        BY <1>1, <1>5, NameOfField DEF At, Settled
    <2> QED BY <1>1, <2>2, <2>3, SuitsAgree
<1>6. Settled(new, j)
    BY <1>5 DEF Settled
<1> QED BY <1>1, <1>4, <1>6 DEF At

LEMMA NoValueAt ==
    ASSUME SearchInv, NoValue
    PROVE  At(Increment(date, fieldnum - 1), Raised(date, fieldnum - 1))
<1>1. /\ FieldsOK /\ from \in Dates /\ date \in Dates /\ At(date, fieldnum)
      /\ fieldnum \in FieldNumbers /\ fieldnum \in 1 .. 6
    BY NameOfField DEF SearchInv, NoValue, At
<1>2. ASSUME NEW e \in Dates, Instant(date) <= Instant(e), Agree(date, e, fieldnum),
             Matches(e)
      PROVE  FALSE
    <2>1. Suits(fieldnum, e)
        BY <1>1, <1>2, MatchesSuits
    <2>2. GetNextValue(Field(fieldnum), date) = None
        BY DEF NoValue, NextValue
    <2>3. CASE Real(Field(fieldnum))
        BY <1>1, <1>2, <2>1, <2>2, <2>3, NextValueBounds
    <2>4. CASE ~Real(Field(fieldnum))
        <3>1. fieldnum \in {4, 5}
            BY <1>1, <2>4, RealFields
        <3>2. Agree(date, e, fieldnum + 1)
            BY <1>2, <3>1 DEF Agree
        <3>3. Suits(fieldnum, date)
            BY <1>1, <2>1, <3>2, SuitsAgree
        <3> QED BY <1>1, <2>2, <3>3, NextValueSuits
    <2> QED BY <2>3, <2>4
<1>3. fieldnum - 1 \in 0 .. 5 /\ fieldnum - 1 <= fieldnum /\ (fieldnum - 1) + 1 = fieldnum
    BY <1>1
<1> QED BY <1>1, <1>2, <1>3, IncrementAt

LEMMA NextDayAt ==
    ASSUME SearchInv, NextDay
    PROVE  At(Increment(date, fieldnum), Raised(date, fieldnum))
<1>1. /\ FieldsOK /\ from \in Dates /\ date \in Dates /\ At(date, fieldnum)
      /\ fieldnum \in FieldNumbers /\ fieldnum \in 1 .. 6
    BY NameOfField DEF SearchInv, NextDay, At
<1>2. fieldnum \in {4, 5}
    BY <1>1, RealFields DEF NextDay
<1>3. ~Suits(fieldnum, date)
    <2>1. ~(GetNextValue(Field(fieldnum), date) <= GetValue(Field(fieldnum), date))
        <3>1. GetNextValue(Field(fieldnum), date)
                  \in GetValue(Field(fieldnum), date) .. GetMax(Field(fieldnum), date)
            BY <1>1, NextValueType DEF NextDay, NextValue
        <3> QED BY <1>1, <3>1, ValueType DEF NextDay, NextValue, Current
    <2> QED BY <1>1, <2>1, NextValueSuits
<1>4. ASSUME NEW e \in Dates, Agree(date, e, fieldnum + 1)
      PROVE  ~Matches(e)
    BY <1>1, <1>3, <1>4, SuitsAgree, MatchesSuits
<1>5. fieldnum \in 0 .. 5 /\ fieldnum <= fieldnum
    BY <1>2
<1> QED BY <1>1, <1>4, <1>5, IncrementAt

LEMMA SetFieldAt ==
    ASSUME SearchInv, SetField
    PROVE  At(SetValue(date, fieldnum, NextValue), fieldnum + 1)
<1> DEFINE v == NextValue
           new == SetValue(date, fieldnum, v)
<1>1. /\ FieldsOK /\ from \in Dates /\ date \in Dates /\ At(date, fieldnum)
      /\ fieldnum \in FieldNumbers /\ fieldnum \in 1 .. 6 /\ Real(Field(fieldnum))
      /\ v # None /\ v > GetValue(Field(fieldnum), date)
    BY NameOfField DEF SearchInv, SetField, At, Current
<1>2. /\ v = GetNextValue(Field(fieldnum), date)
      /\ v \in GetValue(Field(fieldnum), date) .. GetMax(Field(fieldnum), date)
      /\ \E expr \in fields[Field(fieldnum)] : Means(expr, Field(fieldnum), date, v)
    BY <1>1, NextValueType DEF NextValue
<1> HIDE DEF v
<1>3. /\ v \in GetValue(Field(fieldnum), date) + 1 .. GetMax(Field(fieldnum), date)
      /\ v \in MinValue(Field(fieldnum)) .. GetMax(Field(fieldnum), date)
    BY <1>1, <1>2, ValueType
<1>4. new \in Dates /\ GetValue(Field(fieldnum), new) = v /\ Agree(date, new, fieldnum)
    BY <1>1, <1>3, SetValueIsDate
<1>5. Instant(date) < Instant(new)
    BY <1>1, <1>3, DatesBetween
<1>6. Instant(from) <= Instant(date)
    BY <1>1 DEF At, Passed
<1>7. Instant(from) <= Instant(new)
    BY <1>1, <1>4, <1>5, <1>6, InstantType
<1>8. ASSUME NEW e \in Dates, Instant(from) <= Instant(e), Instant(e) < Instant(new)
      PROVE  ~Matches(e)
    <2>1. CASE Instant(e) < Instant(date)
        BY <1>1, <1>8, <2>1 DEF At, Passed
    <2>2. CASE Instant(date) <= Instant(e)
        <3>1. Agree(date, e, fieldnum) /\ GetValue(Field(fieldnum), e) < v
            BY <1>1, <1>3, <1>8, <2>2, DatesBetween
        <3>2. ~(v <= GetValue(Field(fieldnum), e))
            BY <1>1, <1>3, <3>1, ValueType
        <3>3. ~Suits(fieldnum, e)
            BY <1>1, <1>2, <2>2, <3>1, <3>2, NextValueBounds
        <3> QED BY <1>1, <3>3, MatchesSuits
    <2> QED BY <1>1, <2>1, <2>2, InstantType
<1>9. Passed(new, fieldnum + 1)
    BY <1>1, <1>7, <1>8 DEF Passed
<1>10. ASSUME NEW i \in FieldNumbers, i < fieldnum + 1
       PROVE  Suits(i, new)
    <2>1. CASE i < fieldnum
        <3>1. Agree(date, new, i + 1)
            BY <1>1, <1>4, <2>1, NameOfField DEF Agree
        <3>2. Suits(i, date)
            BY <1>1, <2>1 DEF At, Settled
        <3> QED BY <1>1, <1>4, <3>1, <3>2, SuitsAgree
    <2>2. CASE i = fieldnum
        <3>1. \E expr \in fields[Field(fieldnum)] : Means(expr, Field(fieldnum), new, v)
            BY <1>1, <1>2, <1>4, MeansAgree DEF FieldsOK
        <3>2. \E expr \in fields[Field(fieldnum)] : Denotes(expr, Field(fieldnum), new)
            BY <1>1, <1>4, <3>1, DenotesMeans DEF FieldsOK
        <3> QED BY <2>2, <3>2 DEF Suits
    <2> QED BY <1>1, <1>10, <2>1, <2>2, NameOfField
<1>11. Settled(new, fieldnum + 1)
    BY <1>10 DEF Settled
<1>12. fieldnum + 1 \in 0 .. 7
    BY <1>1
<1> QED BY <1>4, <1>9, <1>11, <1>12 DEF At, v

LEMMA KeepAt ==
    ASSUME SearchInv, Keep
    PROVE  At(date, fieldnum + 1)
<1>1. /\ FieldsOK /\ from \in Dates /\ date \in Dates /\ At(date, fieldnum)
      /\ fieldnum \in FieldNumbers /\ fieldnum \in 1 .. 6
    BY NameOfField DEF SearchInv, Keep, At
<1>2. Suits(fieldnum, date)
    BY <1>1, NextValueSuits DEF Keep, NextValue, Current
<1>3. Settled(date, fieldnum + 1)
    BY <1>1, <1>2, NameOfField DEF At, Settled
<1>4. Passed(date, fieldnum + 1)
    BY <1>1 DEF At, Passed
<1> QED BY <1>1, <1>3, <1>4 DEF At

LEMMA AnsweredCases ==
    ASSUME NEW d \in Dates, NEW n \in 0 .. 7
    PROVE  /\ Answered(d, n) \in TimeOrNone \cup {Searching}
           /\ Answered(d, n) = Searching => n \in FieldNumbers
           /\ Answered(d, n) = None =>
                  n = 0 \/ (end # None /\ Instant(d) > end)
           /\ Answered(d, n) \notin {None, Searching} =>
                  /\ n = 7 /\ Answered(d, n) = Instant(d)
                  /\ ~(end # None /\ Instant(d) > end)
<1>1. Len(FieldNames) = 6 /\ FieldNumbers = 1 .. 6
    BY NameOfField DEF FieldNames
<1>2. Instant(d) \in Nat
    BY InstantType
<1>3. CASE end # None /\ Instant(d) > end
    BY <1>3 DEF Answered, TimeOrNone, None, Searching
<1>4. CASE ~(end # None /\ Instant(d) > end)
    <2>1. CASE n = 0
        BY <1>4, <2>1 DEF Answered, TimeOrNone, None, Searching
    <2>2. CASE n = 7
        BY <1>1, <1>2, <1>4, <2>2 DEF Answered, TimeOrNone, Time, None, Searching
    <2>3. CASE n \in 1 .. 6
        BY <1>1, <1>4, <2>3 DEF Answered, None, Searching
    <2> QED BY <2>1, <2>2, <2>3
<1> QED BY <1>3, <1>4

LEMMA CompiledFieldsOK ==
    ASSUME NEW call \in Calls, fields = Compiled(call)
    PROVE  FieldsOK
<1> SUFFICES ASSUME NEW i \in FieldNumbers, NEW expr \in fields[Field(i)]
             PROVE  expr \in Expression /\ Accepts(Field(i), expr)
    BY DEF FieldsOK
<1>1. \/ Field(i) \in DOMAIN call /\ expr \in call[Field(i)]
      \/ expr = Default(Field(i))
      \/ expr = Every(None)
    BY DEF Compiled
<1>2. Every(None) \in Expression /\ Accepts(Field(i), Every(None))
    BY DEF Every, Expression, Accepts, Step
<1>3. CASE Field(i) \in {"month", "day", "hour"}
    <2> DEFINE low == MinValue(Field(i))
    <2>1. low \in Nat /\ low <= MaxValue(Field(i))
        <3>1. 1 <= LongestMonth
            BY MonthType, CalendarType DEF Months
        <3> QED BY <1>3, <3>1, CalendarType, LeastValues DEF MaxValue
    <2>2. Default(Field(i)) = [kind |-> "range", step |-> None, first |-> low, last |-> low]
        BY <1>3 DEF Default, Values
    <2> HIDE DEF low
    <2>3. Default(Field(i)) \in Expression
        BY <2>1, <2>2 DEF Expression, Step, TimeOrNone, Time
    <2>4. Accepts(Field(i), Default(Field(i)))
        BY <2>1, <2>2 DEF Accepts, low
    <2> QED BY <1>1, <1>2, <2>3, <2>4, CallsAssumption
<1>4. CASE Field(i) \notin {"month", "day", "hour"}
    <2>1. Default(Field(i)) = Every(None)
        BY <1>4 DEF Default
    <2> QED BY <1>1, <1>2, <2>1, CallsAssumption
<1> QED BY <1>3, <1>4

LEMMA InitSearchInv == Init => SearchInv
<1> SUFFICES ASSUME Init PROVE SearchInv
    OBVIOUS
<1>1. FieldsOK
    BY CompiledFieldsOK DEF Init
<1>2. /\ end \in TimeOrNone /\ from \in Dates /\ date = from /\ fieldnum = 1
      /\ answer = Searching
    BY CallsAssumption DEF Init, Starts
<1>3. Passed(date, fieldnum)
    BY <1>2, InstantType DEF Passed
<1>4. Settled(date, fieldnum)
    BY <1>2, NameOfField DEF Settled
<1> QED BY <1>1, <1>2, <1>3, <1>4, NameOfField DEF SearchInv, At

LEMMA GoOnSearchInv ==
    ASSUME SearchInv, NEW d, NEW n, At(d, n), GoOn(d, n)
    PROVE  SearchInv'
<1>1. /\ fields' = fields /\ end' = end /\ from' = from
      /\ date' = d /\ fieldnum' = n /\ answer' = Answered(d, n)
    BY DEF GoOn
<1>2. FieldsOK' /\ end' \in TimeOrNone /\ from' \in Dates
    BY <1>1 DEF SearchInv, FieldsOK
<1>3. At(date, fieldnum)'
    BY <1>1 DEF At, Passed, Settled, Suits, Matches
<1>4. answer' = Answered(date, fieldnum)'
    BY <1>1 DEF Answered
<1>5. answer' = Searching => fieldnum' \in FieldNumbers
    BY <1>1, AnsweredCases DEF At
<1> QED BY <1>2, <1>3, <1>4, <1>5 DEF SearchInv

LEMMA NextSearchInv ==
    ASSUME SearchInv, [Next]_vars
    PROVE  SearchInv'
<1>1. CASE NoValue
    BY <1>1, NoValueAt, GoOnSearchInv DEF NoValue
<1>2. CASE SetField
    BY <1>2, SetFieldAt, GoOnSearchInv DEF SetField
<1>3. CASE NextDay
    BY <1>3, NextDayAt, GoOnSearchInv DEF NextDay
<1>4. CASE Keep
    BY <1>4, KeepAt, GoOnSearchInv DEF Keep
<1>5. CASE UNCHANGED vars
    BY <1>5 DEF vars, SearchInv, FieldsOK, At, Passed, Settled, Suits, Matches, Answered
<1> QED BY <1>1, <1>2, <1>3, <1>4, <1>5 DEF Next

\* Every date the search comes to is a date of the calendar, on every calendar.
THEOREM CronTypeCorrect == Spec => []TypeOK
<1>1. SearchInv => TypeOK
    <2> SUFFICES ASSUME SearchInv PROVE TypeOK
        OBVIOUS
    <2>1. date \in Dates /\ fieldnum \in 0 .. 7 /\ Len(FieldNames) + 1 = 7
        BY DEF SearchInv, At, FieldNames
    <2>2. answer \in TimeOrNone \cup {Searching}
        BY <2>1, AnsweredCases DEF SearchInv
    <2> QED BY <2>1, <2>2 DEF TypeOK
<1> QED BY <1>1, InitSearchInv, NextSearchInv, PTL DEF Spec

\* An answer is the first instant the trigger denotes, or None if there is none:
\* the search computes CronNext, from which the schedulers take their fire times.
THEOREM EarliestMatchHolds == Spec => []EarliestMatch
<1>1. SearchInv => EarliestMatch
    <2> SUFFICES ASSUME SearchInv, answer # Searching
                 PROVE  answer = CronNext(Denoted, None, Instant(from))
        BY DEF EarliestMatch
    <2> DEFINE S == {t \in Denoted.at : t >= Instant(from)}
    <2>1. CronNext(Denoted, None, Instant(from)) = Earliest(S)
        BY DEF CronNext
    <2>2. /\ from \in Dates /\ date \in Dates /\ fieldnum \in 0 .. 7
          /\ end \in TimeOrNone /\ answer = Answered(date, fieldnum)
          /\ Passed(date, fieldnum) /\ Settled(date, fieldnum)
        BY DEF SearchInv, At
    <2>3. ASSUME NEW t \in S
          PROVE  \E e \in Dates : /\ t = Instant(e) /\ Matches(e) /\ Instant(e) >= Instant(from)
                                  /\ end # None => Instant(e) <= end
        BY DEF Denoted
    <2>4. ASSUME NEW e \in Dates, Matches(e), Instant(e) >= Instant(from),
                 end # None => Instant(e) <= end
          PROVE  Instant(e) \in S
        BY <2>4 DEF Denoted
    <2>5. S \in SUBSET Nat
        BY <2>3, InstantType
    <2> HIDE DEF S
    <2>6. CASE answer = None
        <3>1. ASSUME NEW t \in S PROVE FALSE
            <4>1. PICK e \in Dates : /\ t = Instant(e) /\ Matches(e)
                                     /\ Instant(e) >= Instant(from)
                                     /\ end # None => Instant(e) <= end
                BY <2>3
            <4>2. CASE fieldnum = 0
                BY <2>2, <4>1, <4>2, InstantType DEF Passed
            <4>3. CASE fieldnum # 0
                <5>1. end # None /\ Instant(date) > end
                    BY <2>2, <2>6, <4>3, AnsweredCases
                <5>2. end \in Nat
                    BY <2>2, <5>1 DEF TimeOrNone, Time
                <5>3. Instant(e) < Instant(date)
                    BY <2>2, <4>1, <5>1, <5>2, InstantType
                <5> QED BY <2>2, <4>1, <4>3, <5>3, InstantType DEF Passed
            <4> QED BY <4>2, <4>3
        <3> QED BY <2>1, <2>6, <3>1 DEF Earliest
    <2>7. CASE answer # None
        <3>1. /\ fieldnum = 7 /\ answer = Instant(date)
              /\ ~(end # None /\ Instant(date) > end)
            BY <2>2, <2>7, AnsweredCases
        <3>2. Matches(date)
            BY <2>2, <3>1, NameOfField, MatchesSuits DEF Settled
        <3>3. end # None => Instant(date) <= end
            BY <2>2, <3>1, InstantType DEF TimeOrNone, Time
        <3>4. Instant(date) \in S
            BY <2>2, <2>4, <3>1, <3>2, <3>3, InstantType DEF Passed
        <3>5. ASSUME NEW t \in S PROVE Instant(date) <= t
            <4>1. PICK e \in Dates : t = Instant(e) /\ Matches(e) /\ Instant(e) >= Instant(from)
                BY <2>3
            <4>2. ~(Instant(e) < Instant(date))
                BY <2>2, <3>1, <4>1, InstantType DEF Passed
            <4> QED BY <2>2, <4>1, <4>2, InstantType
        <3>6. Min(S) \in S /\ \A t \in S : Min(S) <= t
            BY <2>5, <3>4, MinOfNaturals
        <3>7. Min(S) = Instant(date)
            <4>1. Min(S) <= Instant(date) /\ Instant(date) <= Min(S)
                BY <3>4, <3>5, <3>6
            <4>2. Min(S) \in Nat /\ Instant(date) \in Nat
                BY <2>5, <3>4, <3>6
            <4> QED BY <4>1, <4>2
        <3> QED BY <2>1, <3>1, <3>4, <3>7 DEF Earliest
    <2> QED BY <2>6, <2>7
<1> QED BY <1>1, InitSearchInv, NextSearchInv, PTL DEF Spec

\* The loop makes progress: the dates of a calendar are finitely many, so that
\* this is what keeps get_next_fire_time from going round for ever.
THEOREM MovesOnHolds == Spec => MovesOn
<1>1. ASSUME SearchInv, [Next]_vars
      PROVE  [answer' = Searching =>
                 \/ Instant(date') > Instant(date)
                 \/ date' = date /\ fieldnum' > fieldnum]_vars
    <2>1. date \in Dates
        BY <1>1 DEF SearchInv, At
    <2>2. ASSUME NEW n \in 0 .. 5, GoOn(Increment(date, n), Raised(date, n)),
                 answer' = Searching
          PROVE  Instant(date') > Instant(date)
        <3>1. Raised(date, n) # 0
            BY <2>2 DEF GoOn, Answered, None, Searching
        <3>2. Instant(date) < Instant(Increment(date, n)) /\ Increment(date, n) \in Dates
            BY <2>1, <3>1, IncrementSkips
        <3> QED BY <2>1, <2>2, <3>2, InstantType DEF GoOn
    <2>3. CASE NoValue
        <3>1. fieldnum - 1 \in 0 .. 5
            BY <1>1, <2>3, NameOfField DEF SearchInv, NoValue
        <3> QED BY <2>2, <2>3, <3>1 DEF NoValue
    <2>4. CASE SetField
        <3>1. /\ fieldnum \in FieldNumbers /\ Real(Field(fieldnum)) /\ FieldsOK
              /\ NextValue # None /\ NextValue > GetValue(Field(fieldnum), date)
            BY <1>1, <2>4 DEF SearchInv, SetField, Current
        <3>2. NextValue \in GetValue(Field(fieldnum), date) .. GetMax(Field(fieldnum), date)
            BY <2>1, <3>1, NextValueType DEF NextValue
        <3>3. /\ NextValue \in GetValue(Field(fieldnum), date) + 1 ..
                                   GetMax(Field(fieldnum), date)
              /\ NextValue \in MinValue(Field(fieldnum)) .. GetMax(Field(fieldnum), date)
            BY <2>1, <3>1, <3>2, ValueType
        <3>4. /\ Instant(date) < Instant(SetValue(date, fieldnum, NextValue))
              /\ SetValue(date, fieldnum, NextValue) \in Dates
            BY <2>1, <3>1, <3>3, DatesBetween, SetValueIsDate
        <3> QED BY <2>1, <2>4, <3>4, InstantType DEF SetField, GoOn
    <2>5. CASE NextDay
        <3>1. fieldnum \in 0 .. 5
            BY <1>1, <2>5, NameOfField, RealFields DEF SearchInv, NextDay
        <3> QED BY <2>2, <2>5, <3>1 DEF NextDay
    <2>6. CASE Keep
        <3>1. date' = date /\ fieldnum' = fieldnum + 1 /\ fieldnum \in Nat
            BY <1>1, <2>6, NameOfField DEF SearchInv, Keep, GoOn
        <3> QED BY <3>1
    <2> QED BY <1>1, <2>3, <2>4, <2>5, <2>6 DEF Next
<1> QED BY <1>1, InitSearchInv, NextSearchInv, PTL DEF Spec, MovesOn

=============================================================================
