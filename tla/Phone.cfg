SPECIFICATION MCSpec
CONSTANTS
    Readers = {detector, answerer, hangup}
    MaxScreens = 2
    Layouts <- MCLayouts
    MaxReads = 2
    Numbers <- MCNumbers
    CountryCodes <- MCCountryCodes
    HomeCode <- MCHomeCode
    SignificantDigits = 3
INVARIANTS
    DetectionIsRight
    ScreensAreHandled
    NumbersMeet
PROPERTIES
    PhoneGoesOn
CHECK_DEADLOCK FALSE
