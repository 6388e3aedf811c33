SPECIFICATION MCSpec
CONSTANTS
    Fields <- MCFields
    MaxChanges = 4
    MaxPending = 2
    MaxAgents = 2
    Clicks = {q1, q2}
    MaxPilots = 3
    MaxVersions = 3
    Channels = {c1, c2}
    MaxStarts = 3
    Inbound = {c1, c2}
    MaxTenures = 2
    MaxListens = 2
    Rings = {r1}
    Lines = {l1, l2}
    CallerOf <- MCCallerOf
    Phones = {1, 2}
    MaxCards = 2
    MaxWire = 2
    MaxDials = 2
INVARIANTS
    SettingsAreKept
    RuntimeAgrees
PROPERTIES
    DesktopGoesOn
CHECK_DEADLOCK FALSE
