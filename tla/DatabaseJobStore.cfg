SPECIFICATION Spec
CONSTANTS
    JobIds = {1, 2, 3}
    Times = {1, 2}
    None <- MCNone
    Absent <- MCAbsent
INVARIANTS TypeOK RunTimesMirror
PROPERTIES ImplementsJobStore StorePathKept
