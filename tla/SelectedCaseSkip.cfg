CONSTANTS
    Absent = Absent
    MaxCancels = 1
SPECIFICATION CaseSpec
INVARIANTS InvokedIsCleaned
