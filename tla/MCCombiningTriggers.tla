------------------------ MODULE MCCombiningTriggers -------------------------
\* The example of the user's guide in small: an interval of two ticks together
\* with the days of a calendar.
EXTENDS CombiningTriggers

EverySecondTick == [kind |-> "interval", start |-> 0, length |-> 2, end |-> None]

Days == [kind |-> "cron", at |-> {4, 8}]

OtherDays == [kind |-> "cron", at |-> {6, 8}]

MCCombinations ==
    {{EverySecondTick, Days},
     {EverySecondTick, [kind |-> "or", any |-> {Days, OtherDays}]}}

=============================================================================
