SPECIFICATION Spec
CONSTANTS
    Synths = {s1}
    Nobody = Nobody
    MaxChanges = 4
    Confirm = 2
    MeetMemory = 1
    Old = 3
INVARIANTS ReportsAreItsOwn CallIsOne
PROPERTY ReportsStayTrue
CHECK_DEADLOCK FALSE
