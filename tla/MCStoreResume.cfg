\* Three segments and a crash while they are moved to the backup.
CONSTANTS
    a = a
    b = b
    None = None
    Val = {a, b}
    Writable = {a, b}
    Key = {1}
    SegMax = 1
    MaxSegs = 3
    MaxBatch = 1
    MaxSeq = 3
    MaxSeqAfterFault = 3
    MaxGuards = 0
    MaxCompactions = 1
    MaxCrashes = 1
    MaxFaults = 0
SPECIFICATION Spec
CHECK_DEADLOCK FALSE
PROPERTY ContentsAreKept
