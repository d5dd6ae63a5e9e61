SPECIFICATION DocumentSpec
CONSTANTS
    MaxRun = 7
INVARIANTS
    StoredDatesAreReal
CHECK_DEADLOCK FALSE
