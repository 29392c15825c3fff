SPECIFICATION Spec
CONSTANTS
    Passwords = {p1, p2}
    Payloads = {2, 50331395, 50331396, 50331649}
    Slots = {f1, f2}
    NoFile = NoFile
    NoHandle = NoHandle
    Unknown = Unknown
    MaxVaults = 2
    MaxNonces = 5
    MaxSpoils = 2
SYMMETRY Symmetry
INVARIANTS
    TypeOK
    IntactOpens
    WhateverOpensIsGenuine
    NoncesAreFresh
    HandleCarriesItsKeys
CHECK_DEADLOCK FALSE
