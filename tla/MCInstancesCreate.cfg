SPECIFICATION Spec
CONSTANTS
    Apps = {a1, a2}
    NoFile = NoFile
    MaxVaults = 2
    MaxRows = 3
PROPERTY CreateNeverOverwrites
CHECK_DEADLOCK FALSE
