SPECIFICATION Spec
CONSTANTS
    Apps = {a1, a2}
    NoFile = NoFile
    MaxVaults = 2
    MaxRows = 4
SYMMETRY Symmetry
INVARIANTS
    TypeOK
    VaultsNeverMix
    LoneWriterLosesNothing
CHECK_DEADLOCK FALSE
