SPECIFICATION FairWatchdogSpec
CONSTANTS
    Devices = {d1}
    MaxPolls = 1
    MaxLines = 1
INVARIANT
    AskedMeansEnding
PROPERTY
    NothingBillsForEver
