SPECIFICATION MCSpec
CONSTANTS
    Opens = {o1, o2, o3}
    Keys = {k1, k2}
    MaxConcurrent = 1
    TempToken = TRUE
    MaxCloses = 1
    None = None
    MaxSockets = 2
    MaxClosers = 2
    Reconnecting = FALSE
    MaxRetries = 2
    ChatTimeout = 2
    PollTimeout = 3
    PollInterval = 2
    Waits = {1, 3}
    Cursors = {"b", "c"}
    MaxPages = 4
    MaxAttempts = 3
    BaseDelay = 1
    MaxDelay = 6
    CapacityDelay = 2
    Jitter = TRUE
    RetryAfters = {0, 2, 9}
    Terms = {"a"}
    StreamRates = {8000, 11025, 96000}
    MaxCloseCalls = 2
    MaxTold = 3
INVARIANTS
    TypeOK
    NoStrandedCaller
    QueueMatchesCalls
    EntriesAreLive
    SessionsEndOnce
    RequestsAreHonest
    PoliciesHold
    SpeechIsSafe
PROPERTIES
    TerminateBeforeClose
    NobodyIsKeptWaiting
    ClientsSettle
CHECK_DEADLOCK FALSE
