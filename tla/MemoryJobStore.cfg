SPECIFICATION Spec
CONSTANTS
    JobIds = {1, 2, 3, 4}
    Times = {1, 2, 3}
    None <- MCNone
    Absent <- MCAbsent
INVARIANT ListMatchesIndex
PROPERTY ListImplementsJobStore
CHECK_DEADLOCK FALSE
