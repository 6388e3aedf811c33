SPECIFICATION MCSpec
CONSTANTS
    Devices = {d1}
    MaxPolls = 2
    MaxLines = 2
    Kinds = {"crm"}
    Calls <- MCCalls
    Contacts <- MCContacts
    Numbers <- MCNumbers
    MaxSaves = 2
    MaxTears = 0
    MaxEras = 1
    Concurrency = 1
INVARIANT
    AnalysisAttached
CHECK_DEADLOCK FALSE
