SPECIFICATION Spec
CONSTANTS
    Writers = {w1, w2}
    Readers = {r1}
    MaxAttempts = 2
    MaxSaves = 3
    FallsBack = {w1}
    Original = Original
    ZeroName = ZeroName
    NoFile = NoFile
INVARIANTS
    TypeOK
    VaultIsWhole
    NeverReadsTorn
    FailedSaveInvisible
    NoLitter
PROPERTIES
    ImplementsRegister
    EstablishedVaultSurvives
CHECK_DEADLOCK FALSE
