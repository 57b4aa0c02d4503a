CONSTANTS
    NumHosts <- MCNumHosts
    DataSizeMax = 3
    KeyLen = 2
    Sizes <- AllSizes
    OffsetRange = 16
    SocketBuffer = 6
    MaxShort = 1
SPECIFICATION Spec
CHECK_DEADLOCK FALSE
INVARIANTS PiecesStored Reconstructed
PROPERTY TransferEnds
