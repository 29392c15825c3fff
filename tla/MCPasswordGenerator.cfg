SPECIFICATION Spec
CONSTANTS
    Buffers = {b1, b2}
    Pages = {g1}
    NoPage = NoPage
    NoBuffer = NoBuffer
    MinLength = 2
    MaxLength = 3
    Lengths = {1, 2, 3, 4}
    ChunkBytes = 2
    Asked <- MCAsked
    Samples = {0, 26, 52, 62, 234, 255}
INVARIANTS
    TypeOK
    FreedMemoryIsWiped
    PinsMatchFlags
    DrawIsUniform
    GeneratedAsAsked
    FailureLeavesNoPassword
PROPERTIES
    GenerateReturns
