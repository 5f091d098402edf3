----------------------------- MODULE CronSearch -----------------------------
(***************************************************************************)
(* CronTrigger.get_next_fire_time: a search through the calendar, field by *)
(* field, for the first date that satisfies every field of a trigger.      *)
(*                                                                         *)
(* The calendar is a constant: years of months of days of hours, and a     *)
(* week.  The hour stands for the hour, minute and second of the code,     *)
(* which are fields of the same class; a date has no time zone, and        *)
(* fractions of the finest field, which datetime_ceil rounds up before the *)
(* search, do not exist.  Names of months and weekdays are their numbers.  *)
(***************************************************************************)
EXTENDS Triggers, Sequences

CONSTANTS
    FirstYear, LastYear,   \* the years MIN_VALUES and MAX_VALUES allow
    MonthsPerYear,
    MonthStart(_, _),      \* the day a month of a year begins on, from the first day of a week
    LongestMonth,          \* the last day MAX_VALUES allows
    DaysPerWeek,
    LastWeek,              \* the last number a week can have
    HoursPerDay,
    Calls,                 \* the fields given to CronTrigger(), by name
    Ends                   \* end dates, as instants, or None

VARIABLES
    fields,     \* the trigger's fields: a set of expressions for each
    end,        \* its end_date, as an instant, or None
    from,       \* where the search starts
    date,       \* next_date
    fieldnum,   \* the field looked at, from 1; 0 when the years are used up
    answer      \* what is returned, as an instant or None, or Searching

vars == <<fields, end, from, date, fieldnum, answer>>

----------------------------------------------------------------------------
\* The calendar.

Months == 1 .. MonthsPerYear

\* The days of a month of a year.
MonthLength(y, m) ==
    (IF m < MonthsPerYear THEN MonthStart(y, m + 1) ELSE MonthStart(y + 1, 1))
        - MonthStart(y, m)

Dates ==
    {d \in [year : FirstYear .. LastYear, month : Months,
            day : 1 .. LongestMonth, hour : 0 .. HoursPerDay - 1] :
        d.day <= MonthLength(d.year, d.month)}

DayNumber(d) == MonthStart(d.year, d.month) + d.day - 1

Instant(d) == DayNumber(d) * HoursPerDay + d.hour

Weekday(d) == DayNumber(d) % DaysPerWeek

\* isocalendar()[1] of the day with a number: a week belongs to the year its
\* middle day is in.
WeekOfDay ==
    [n \in MonthStart(FirstYear, 1) .. MonthStart(LastYear + 1, 1) - 1 |->
        LET middle == n - (n % DaysPerWeek) + DaysPerWeek \div 2
            start  == Max({s \in {MonthStart(y, 1) : y \in FirstYear - 1 .. LastYear + 1} :
                               s <= middle})
        IN  (middle - start) \div DaysPerWeek + 1]

IsoWeek(d) == WeekOfDay[DayNumber(d)]

----------------------------------------------------------------------------
\* The fields.

FieldNames == <<"year", "month", "day", "week", "day_of_week", "hour">>

Field(i) == FieldNames[i]

FieldNumbers == DOMAIN FieldNames

Index(field) == CHOOSE i \in FieldNumbers : Field(i) = field

\* A field that the others determine cannot be set.
Real(field) == field \notin {"week", "day_of_week"}

MinValue(field) ==
    CASE field = "year"                       -> FirstYear
      [] field \in {"month", "day", "week"}   -> 1
      [] field \in {"day_of_week", "hour"}    -> 0

MaxValue(field) ==
    CASE field = "year"        -> LastYear
      [] field = "month"       -> MonthsPerYear
      [] field = "day"         -> LongestMonth
      [] field = "week"        -> LastWeek
      [] field = "day_of_week" -> DaysPerWeek - 1
      [] field = "hour"        -> HoursPerDay - 1

GetValue(field, d) ==
    CASE Real(field)           -> d[field]
      [] field = "week"        -> IsoWeek(d)
      [] field = "day_of_week" -> Weekday(d)

\* Only the last day of a month depends on the date.
GetMax(field, d) ==
    IF field = "day" THEN MonthLength(d.year, d.month) ELSE MaxValue(field)

----------------------------------------------------------------------------
\* The expressions: "*" and "*/step"; "first-last/step", whose last value may
\* be open; "2nd tue" and "last tue" (option 5); "last".

Every(step) == [kind |-> "all", step |-> step]

Values(first, last, step) ==
    [kind |-> "range", first |-> first, step |-> step,
     last |-> IF last = None /\ step = None THEN first ELSE last]

Position(option, weekday) ==
    [kind |-> "position", option |-> option, weekday |-> weekday]

LastOption == 5

LastDay == [kind |-> "last"]

Step == (Nat \ {0}) \cup {None}

Expression ==
    [kind : {"all"}, step : Step]
        \cup [kind : {"range"}, first : Nat, last : TimeOrNone, step : Step]
        \cup [kind : {"position"}, option : 0 .. LastOption, weekday : 0 .. DaysPerWeek - 1]
        \cup [kind : {"last"}]

\* The first value from "start" on that is a number of whole steps away from
\* "origin".
OnStep(start, origin, step) ==
    IF step = None THEN start ELSE start + ((step - (start - origin)) % step)

\* A value that is within its limit, or None.
Within(value, limit) == IF value <= limit THEN value ELSE None

Higher(x, y) == Max({x, y})

AllNext(expr, field, d) ==
    LET start == Higher(GetValue(field, d), MinValue(field))
    IN  Within(OnStep(start, MinValue(field), expr.step), GetMax(field, d))

RangeNext(expr, field, d) ==
    LET low  == Higher(MinValue(field), expr.first)
        high == IF expr.last = None THEN GetMax(field, d)
                                    ELSE Min({GetMax(field, d), expr.last})
    IN  Within(OnStep(Higher(low, GetValue(field, d)), low, expr.step), high)

\* The day that a weekday position names in the month of a date.
TargetDay(expr, d) ==
    LET firstWeekday == Weekday([d EXCEPT !.day = 1])
        difference   == expr.weekday - firstWeekday + 1
        firstHit     == IF difference <= 0 THEN difference + DaysPerWeek ELSE difference
        lastDay      == MonthLength(d.year, d.month)
        weeks        == IF expr.option < LastOption
                        THEN expr.option
                        ELSE (lastDay - firstHit) \div DaysPerWeek
    IN  firstHit + weeks * DaysPerWeek

\* Mutant of PositionNext: a day that is past counts.
PositionAnyDay(expr, d) == Within(TargetDay(expr, d), MonthLength(d.year, d.month))

PositionNext(expr, d) ==
    LET target == TargetDay(expr, d)
    IN  IF target <= MonthLength(d.year, d.month) /\ target >= d.day
        THEN target
        ELSE None

ExprNext(expr, field, d) ==
    CASE expr.kind = "all"      -> AllNext(expr, field, d)
      [] expr.kind = "range"    -> RangeNext(expr, field, d)
      [] expr.kind = "position" -> PositionNext(expr, d)
      [] expr.kind = "last"     -> MonthLength(d.year, d.month)

\* BaseField.get_next_value: the smallest value of any expression.
GetNextValue(field, d) ==
    Earliest({ExprNext(expr, field, d) : expr \in fields[field]} \ {None})

\* The expressions that the constructors and validate_range let through.
Accepts(field, expr) ==
    CASE expr.kind = "all" ->
            expr.step = None \/ expr.step \in 1 .. MaxValue(field) - MinValue(field)
      [] expr.kind = "range" ->
            LET last == IF expr.last \in {None, 0} THEN MaxValue(field) ELSE expr.last
            IN  /\ expr.first >= MinValue(field)
                /\ expr.last # None =>
                       expr.first <= expr.last /\ expr.last <= MaxValue(field)
                /\ \/ expr.step = None
                   \/ expr.step \in 1 .. last - expr.first
      [] expr.kind \in {"position", "last"} -> field = "day"

\* CronTrigger.__init__: a field that is not given is "*" if a less significant
\* one is given and its default otherwise.  A call that gives nothing is all "*".
Default(field) ==
    IF field \in {"month", "day", "hour"}
    THEN Values(MinValue(field), None, None)
    ELSE Every(None)

Compiled(call) ==
    [field \in {Field(i) : i \in FieldNumbers} |->
        IF field \in DOMAIN call THEN call[field]
        ELSE IF DOMAIN call # {} /\ \A given \in DOMAIN call : Index(given) < Index(field)
             THEN {Default(field)}
             ELSE {Every(None)}]

\* Months follow each other, none is empty, and the bounds hold of every date.
ASSUME CalendarAssumption ==
    /\ FirstYear \in Nat /\ LastYear \in Nat /\ FirstYear <= LastYear
    /\ {MonthsPerYear, DaysPerWeek, HoursPerDay} \subseteq Nat \ {0}
    /\ {LongestMonth, LastWeek} \subseteq Nat
    /\ \A y, z \in FirstYear - 1 .. LastYear + 1, m, k \in Months :
           /\ MonthStart(y, m) \in Nat
           /\ y < z \/ (y = z /\ m < k) => MonthStart(y, m) < MonthStart(z, k)
    /\ \A y \in FirstYear .. LastYear, m \in Months : MonthLength(y, m) <= LongestMonth
    /\ \A d \in Dates : IsoWeek(d) \in 1 .. LastWeek

\* What CronTrigger() is given: validated expressions.
ASSUME CallsAssumption ==
    /\ Ends \subseteq TimeOrNone
    /\ \A call \in Calls : \A field \in DOMAIN call :
           \A expr \in call[field] : expr \in Expression /\ Accepts(field, expr)

----------------------------------------------------------------------------
\* The search.

Searching == -2

\* _set_field_value: fields before i stay, i gets the value, the rest start over.
SetValue(d, i, value) ==
    [field \in DOMAIN d |->
        IF Index(field) < i THEN d[field]
        ELSE IF Index(field) = i THEN value ELSE MinValue(field)]

\* Mutant of Incrementable: only a field at the maximum of any date is passed
\* over, so that the day is raised past the end of a short month.
IncrementableField(d, n) ==
    {i \in 1 .. n : Real(Field(i)) /\ GetValue(Field(i), d) # MaxValue(Field(i))}

\* The fields up to n that _increment_field_value can raise by one: on its way
\* to more significant fields it passes over the ones that cannot be set or are
\* at their maximum.
Incrementable(d, n) ==
    {i \in 1 .. n : Real(Field(i)) /\ GetValue(Field(i), d) # GetMax(Field(i), d)}

\* The number of the field that is raised; 0 when all are at their maximum.
Raised(d, n) == Max(Incrementable(d, n) \cup {0})

\* Mutant of Increment: no carry, the field wraps around.
IncrementWraps(d, n) ==
    LET i == Max({k \in 1 .. n : Real(Field(k))} \cup {0})
    IN  SetValue(d, i,
                 IF i = 0 THEN None
                 ELSE IF i \in Incrementable(d, n) THEN d[Field(i)] + 1 ELSE MinValue(Field(i)))

\* _increment_field_value: the date with that field one higher and the less
\* significant ones at their minimum.  With no field left all of them are.
Increment(d, n) ==
    LET i == Raised(d, n)
    IN  SetValue(d, i, IF i = 0 THEN None ELSE GetValue(Field(i), d) + 1)

\* The date the search has come to and what the loop makes of it.
Answered(d, n) ==
    IF n = 0 \/ (end # None /\ Instant(d) > end) THEN None
    ELSE IF n > Len(FieldNames) THEN Instant(d)
    ELSE Searching

GoOn(d, n) ==
    /\ date' = d
    /\ fieldnum' = n
    /\ answer' = Answered(d, n)
    /\ UNCHANGED <<fields, end, from>>

Current == GetValue(Field(fieldnum), date)

NextValue == GetNextValue(Field(fieldnum), date)

\* No value of the field is left: a more significant one is raised.
NoValue ==
    /\ answer = Searching
    /\ NextValue = None
    /\ GoOn(Increment(date, fieldnum - 1), Raised(date, fieldnum - 1))

\* A later value of a field that can be set.
SetField ==
    /\ answer = Searching
    /\ NextValue # None /\ NextValue > Current
    /\ Real(Field(fieldnum))
    /\ GoOn(SetValue(date, fieldnum, NextValue), fieldnum + 1)

\* A later value of a week or weekday: one day on.
NextDay ==
    /\ answer = Searching
    /\ NextValue # None /\ NextValue > Current
    /\ ~Real(Field(fieldnum))
    /\ GoOn(Increment(date, fieldnum), Raised(date, fieldnum))

\* The field's value will do.
Keep ==
    /\ answer = Searching
    /\ NextValue # None /\ NextValue <= Current
    /\ GoOn(date, fieldnum + 1)

\* The code raises an IndexError when it is asked for a date at the very last
\* instant of the calendar (the last second of the year 9999) and there is none;
\* no search starts there.
Starts == {d \in Dates : \E later \in Dates : Instant(later) > Instant(d)}

Init ==
    /\ \E call \in Calls : fields = Compiled(call)
    /\ end \in Ends
    /\ from \in Starts
    /\ date = from
    /\ fieldnum = 1
    /\ answer = Searching

Next == NoValue \/ SetField \/ NextDay \/ Keep

Spec == Init /\ [][Next]_vars /\ WF_vars(Next)

----------------------------------------------------------------------------
\* What an expression means, without searching.

Denotes(expr, field, d) ==
    LET value == GetValue(field, d)
    IN  CASE expr.kind = "all" ->
                expr.step = None \/ (value - MinValue(field)) % expr.step = 0
          [] expr.kind = "range" ->
                /\ value >= expr.first
                /\ expr.last = None \/ value <= expr.last
                /\ expr.step = None \/ (value - expr.first) % expr.step = 0
          [] expr.kind = "position" ->
                /\ Weekday(d) = expr.weekday
                /\ IF expr.option = LastOption
                   THEN d.day + DaysPerWeek > MonthLength(d.year, d.month)
                   ELSE (d.day - 1) \div DaysPerWeek = expr.option
          [] expr.kind = "last" -> d.day = MonthLength(d.year, d.month)

Matches(d) ==
    \A i \in FieldNumbers :
        \E expr \in fields[Field(i)] : Denotes(expr, Field(i), d)

\* The cron trigger of module Triggers that this search stands behind.
Denoted ==
    [kind |-> "cron",
     at   |-> {Instant(d) : d \in {d \in Dates :
                  Matches(d) /\ (end # None => Instant(d) <= end)}}]

\* Every date the search comes to is a date of the calendar, whatever field is
\* set or raised: no 31st of February is ever constructed.
TypeOK ==
    /\ date \in Dates
    /\ fieldnum \in 0 .. Len(FieldNames) + 1
    /\ answer \in TimeOrNone \cup {Searching}

\* The search returns the first date from its start on that satisfies every
\* field, and None exactly when there is none up to the end date: it is the
\* function CronNext that the schedulers' models use for a cron trigger.
EarliestMatch ==
    answer # Searching =>
        answer = CronNext(Denoted, None, Instant(from))

\* Every turn of the loop that is not the last comes to a later date, or to a
\* later field of the same date: the search never sees the same place twice.
MovesOn ==
    [][answer' = Searching =>
          \/ Instant(date') > Instant(date)
          \/ date' = date /\ fieldnum' > fieldnum]_vars

\* The search comes to an end, also when no date satisfies the trigger.
SearchEnds == <>(answer # Searching)

=============================================================================
