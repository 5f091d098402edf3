---------------------------- MODULE MCCronSearch ----------------------------
(***************************************************************************)
(* A calendar of two years of two months, of seven to nine days, the       *)
(* second month one day longer in the second year; weeks of three days and *)
(* days of two hours.  A month has two or three of each weekday, begins on *)
(* any of them and a week may belong to the year before or after.          *)
(***************************************************************************)
EXTENDS CronSearch

\* The years begin 16 days after each other, the third 17 days.
MCMonthStart(y, m) == 16 * y + (IF y > 2 THEN 1 ELSE 0) + (IF m = 2 THEN 9 ELSE 0)

Samples(field) ==
    CASE field = "year"  -> {{Values(2, None, None)}}
      [] field = "month" -> {{Values(2, 2, None)}}
      [] field = "day" ->
            {{Every(3)}, {Values(8, 9, None)}, {LastDay},
             {Values(2, None, 4), Position(2, 0)},
             {Position(0, 1)}, {Position(LastOption, 2)}}
      [] field = "week"        -> {{Values(2, None, 3)}, {Values(LastWeek, None, None)}}
      [] field = "day_of_week" -> {{Values(1, 2, None)}, {Values(0, None, None)}}
      [] field = "hour"        -> {{Values(1, None, None)}}

\* Any of the choices, for one or two fields.
MCCalls ==
    UNION {{call \in [given -> UNION {Samples(f) : f \in given}] :
               \A f \in given : call[f] \in Samples(f)} :
           given \in {g \in SUBSET {Field(i) : i \in FieldNumbers} : Cardinality(g) \in 1 .. 2}}

\* The last day of the first month of the second year.
MCEnds == {None, Instant([year |-> 2, month |-> 1, day |-> 9, hour |-> 0])}

=============================================================================
