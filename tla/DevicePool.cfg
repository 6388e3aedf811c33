SPECIFICATION FairSpec
CONSTANTS
    Devices = {d1}
    MaxListings = 2
    NoDevice = NoDevice
INVARIANT
    TypeOK
PROPERTY
    RecordsSettle
