CONSTANTS
    Size = 4
    ChunkSize = 2
    OffsetRange = 8
    MaxLost = 3
    MaxDuplicated = 1
    MaxOvertaken = 2
SPECIFICATION Spec
INVARIANTS BytesInPlace ThreeCopiesSuffice
PROPERTIES LosslessFinishes
CHECK_DEADLOCK FALSE
