SPECIFICATION MCSpec
CONSTANTS
    Devices = {d1}
    MaxPolls = 2
    MaxLines = 2
    Kinds = {"jsonl", "crm"}
    Calls <- MCCalls
    Contacts <- MCContacts
    Numbers <- MCNumbers
    MaxSaves = 2
    MaxTears = 2
    MaxEras = 3
    Concurrency = 1
INVARIANTS
    EndedCallHoldsNothing
    MissedMeansUnanswered
    RecordsAreKept
PROPERTIES
    ImplementsLifecycle
    NothingSaidAfterEnd
    CallsEnd
    HistoryOnlyGrows
    EveryJobEnds
CHECK_DEADLOCK FALSE
