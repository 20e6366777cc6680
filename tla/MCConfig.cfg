CONSTANTS
    MaxInt = 32767
    Numbers <- EditedNumbers
    MaxEdits = 2
SPECIFICATION Spec
INVARIANTS TypeOK SettingsInEffect NoDefaultLeft
CHECK_DEADLOCK FALSE
