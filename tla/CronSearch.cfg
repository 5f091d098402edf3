SPECIFICATION Spec
CONSTANTS
    FirstYear = 1
    LastYear = 2
    MonthsPerYear = 2
    MonthStart <- MCMonthStart
    LongestMonth = 9
    DaysPerWeek = 3
    LastWeek = 6
    HoursPerDay = 2
    Calls <- MCCalls
    Ends <- MCEnds
INVARIANTS TypeOK EarliestMatch
PROPERTIES MovesOn SearchEnds
CHECK_DEADLOCK FALSE
