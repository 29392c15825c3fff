SPECIFICATION Spec
CONSTANTS
    Writers = {w1, w2}
    Readers = {r1}
    MaxAttempts = 2
    MaxSaves = 3
    FallsBack = {w1, w2}
    Original = Original
    ZeroName = ZeroName
    NoFile = NoFile
SYMMETRY Symmetry
INVARIANTS
    VaultIsWhole
CHECK_DEADLOCK FALSE
